---------------------------- MODULE Design_proofs ----------------------------
(***************************************************************************)
(* What the design of a simulation guarantees.                             *)
(* ScenarioDesign: for any definitions a user may submit, a saved revision *)
(* that is not reported as breaking keeps the clients of the one before    *)
(* it, and the requests planned for a saved one are walks of its graph,    *)
(* one to each handler of each state a walk reaches, as short as any.      *)
(* CaseGeneration: for any contract and any limits, the value of a         *)
(* boundary case is allowed and that of a negative one is not, and rows    *)
(* below the limit cover every pair of values of two factors, none twice.  *)
(***************************************************************************)
EXTENDS ScenarioDesign, CaseGeneration, FiniteSetTheorems, FunctionTheorems,
        SequenceTheorems, WellFoundedInduction, TLAPS

-----------------------------------------------------------------------------
(* What is saved.                                                          *)

Acceptable(d) == d \in Candidates /\ WellFormed(d) /\ AgreesWithContract(d)

\* Every revision was accepted.
SavedInv ==
    /\ revisions \in Seq(Candidates)
    /\ \A i \in DOMAIN revisions : Acceptable(revisions[i])

\* Nothing is saved at first.
LEMMA InitSavedInv == DesignInit => SavedInv
  BY EmptySeq DEF DesignInit, SavedInv

\* A save adds an accepted definition and changes no other.
LEMMA NextSavedInv == SavedInv /\ [DesignNext]_revisions => SavedInv'
<1> SUFFICES ASSUME SavedInv, [DesignNext]_revisions PROVE SavedInv'
  OBVIOUS
<1>1. ASSUME NEW d \in Candidates, Save(d) PROVE SavedInv'
  <2>1. revisions' = Append(revisions, d) /\ Acceptable(d)
    BY <1>1 DEF Save, Acceptable
  <2>2. revisions \in Seq(Candidates)
    BY DEF SavedInv
  <2>3. /\ revisions' \in Seq(Candidates)
        /\ \A i \in DOMAIN revisions' :
                \/ i \in DOMAIN revisions /\ revisions'[i] = revisions[i]
                \/ revisions'[i] = d
    BY <2>1, <2>2
  <2> QED
    BY <2>1, <2>3 DEF SavedInv
<1>2. CASE UNCHANGED revisions
  BY <1>2 DEF SavedInv
<1> QED
  BY <1>1, <1>2 DEF DesignNext

-----------------------------------------------------------------------------
(* The handlers of a state.                                                *)

\* A set of natural numbers that is not empty has a least element.
LEMMA HasLeast ==
    ASSUME NEW I \in SUBSET Nat, I # {}
    PROVE  \E least \in I : \A other \in I : least =< other
<1>1. PICK x \in I : \A y \in I : ~ (<<y, x>> \in OpToRel(<, Nat))
  BY NatLessThanWellFounded, WFMin, Zenon
<1>2. \A a \in Nat, b \in Nat : b < a => <<b, a>> \in OpToRel(<, Nat)
  BY DEF OpToRel
<1>3. \A y \in I : ~ (y < x)
  BY <1>1, <1>2
<1> QED
  BY <1>3

\* The handlers of a state are numbered from 1.
LEMMA HandlersAreListed ==
    ASSUME NEW d, Acceptable(d), NEW s \in Known(d)
    PROVE  /\ Len(d.handlers[s]) \in Nat
           /\ DOMAIN d.handlers[s] = 1..Len(d.handlers[s])
           /\ \A h \in ToSet(d.handlers[s]) : \E i \in DOMAIN d.handlers[s] : h = d.handlers[s][i]
           /\ \A i \in DOMAIN d.handlers[s] : d.handlers[s][i] \in ToSet(d.handlers[s])
<1>1. d.handlers[s] \in Seq(ToSet(d.handlers[s]))
  BY CandidateAssumption DEF Acceptable
<1> QED
  BY <1>1 DEF ToSet

\* If any handler answers a request, the first of them does.
LEMMA FirstAnswers ==
    ASSUME NEW d, Acceptable(d), NEW s \in Known(d), NEW request,
           Answering(d, s, request) # {}
    PROVE  \E k \in Answering(d, s, request) :
              /\ Answer(d, s, request) = d.handlers[s][k]
              /\ \A j \in Answering(d, s, request) : k =< j
<1> DEFINE some == Answering(d, s, request)
<1>1. some \in SUBSET Nat
  BY HandlersAreListed DEF Answering
<1>2. \E k \in some : \A j \in some : k =< j
  BY <1>1, HasLeast
<1> DEFINE k == CHOOSE i \in some : \A j \in some : i =< j
<1>3. k \in some /\ \A j \in some : k =< j
  BY <1>2
<1>4. Answer(d, s, request) = d.handlers[s][k]
  BY DEF Answer
<1> HIDE DEF k
<1> QED
  BY <1>3, <1>4

\* The names of the handlers of a state tell them apart.
LEMMA NamesAreUnique ==
    ASSUME NEW d, Acceptable(d), NEW s \in Known(d),
           NEW g \in ToSet(d.handlers[s]), NEW h \in ToSet(d.handlers[s]), g.name = h.name
    PROVE  g = h
<1> DEFINE list == d.handlers[s]
<1>1. /\ Len(list) \in Nat /\ DOMAIN list = 1..Len(list)
      /\ \A x \in ToSet(list) : \E i \in DOMAIN list : x = list[i]
      /\ \A i \in DOMAIN list : list[i] \in ToSet(list)
  BY HandlersAreListed
<1> DEFINE names == NamesOf(list)
           name == [i \in 1..Len(list) |-> list[i].name]
<1>2. Cardinality(names) = Len(list)
  BY DEF Acceptable, WellFormed
<1>3. name \in Surjection(1..Len(list), names)
  <2>1. names = {list[i].name : i \in 1..Len(list)}
    <3> HIDE DEF list, name
    <3>1. \A x \in names : \E i \in 1..Len(list) : x = list[i].name
      BY <1>1 DEF NamesOf
    <3>2. \A i \in 1..Len(list) : list[i].name \in names
      BY <1>1 DEF NamesOf
    <3> HIDE DEF names
    <3> QED
      BY <3>1, <3>2
  <2>2. name \in [1..Len(list) -> names]
    BY <2>1
  <2>3. \A n \in names : \E i \in 1..Len(list) : name[i] = n
    BY <2>1
  <2> HIDE DEF names, name, list
  <2> QED
    BY <2>2, <2>3, Fun_IsSurj
<1>4. IsFiniteSet(1..Len(list)) /\ Cardinality(1..Len(list)) = Len(list)
  <2> HIDE DEF list
  <2> QED
    BY <1>1, FS_Interval, SMTT(30)
<1>5. name \in Injection(1..Len(list), names)
  <2> HIDE DEF names, name, list
  <2> QED
    BY <1>2, <1>3, <1>4, FS_Surjection
<1>6. PICK i \in 1..Len(list), j \in 1..Len(list) : g = list[i] /\ h = list[j]
  BY <1>1, SMTT(30)
<1>7. name[i] = name[j]
  BY <1>6
<1>8. i = j
  <2> HIDE DEF names, name, list
  <2> QED
    BY <1>5, <1>7 DEF Injection, IsInjective
<1> QED
  BY <1>6, <1>8

\* The handler of a name is the one that has it.
LEMMA NamedIsIt ==
    ASSUME NEW d, Acceptable(d), NEW s \in Known(d), NEW h \in ToSet(d.handlers[s])
    PROVE  Named(d.handlers[s], h.name) = h
<1> DEFINE g == Named(d.handlers[s], h.name)
<1>1. g \in ToSet(d.handlers[s]) /\ g.name = h.name
  BY DEF Named
<1> HIDE DEF g
<1> QED
  BY <1>1, NamesAreUnique DEF g

-----------------------------------------------------------------------------
(* Comparison.                                                             *)

\* A difference that counts as breaking is reported as breaking.
LEMMA ReportedIsBreaking ==
    ASSUME NEW before, NEW after, BreakingChanges(before, after) = {}, NEW path
    PROVE  Change(path, TRUE) \notin Changes(before, after)
  BY DEF BreakingChanges, Change

\* Two handlers describe one request.
SameRequest(b, a) ==
    <<b.path, b.query, b.extra, b.body>> = <<a.path, a.query, a.extra, a.body>>

\* They take the same requests then.
LEMMA SamePattern ==
    ASSUME NEW b, NEW a, SameRequest(b, a)
    PROVE  PatternOf(b) = PatternOf(a)
<1>1. b.path = a.path /\ b.query = a.query /\ b.extra = a.extra /\ b.body = a.body
  BY DEF SameRequest
<1>2. Demands(b) = Demands(a)
  BY <1>1 DEF Demands
<1> QED
  BY <1>1, <1>2 DEF PatternOf

\* Without a breaking change the initial state stays, and every state and handler of the
\* older revision is in the newer one, with its request and its target.
LEMMA NothingBreaks ==
    ASSUME NEW before, NEW after, BreakingChanges(before, after) = {}
    PROVE  /\ after.initial = before.initial
           /\ Known(before) \subseteq Known(after)
           /\ \A s \in Known(before) :
                LET b == before.handlers[s]
                    a == after.handlers[s]
                IN  /\ NamesOf(b) \subseteq NamesOf(a)
                    /\ \A n \in NamesOf(b) :
                        /\ SameRequest(Named(b, n), Named(a, n))
                        /\ Named(b, n).next = Named(a, n).next
<1>1. \A path : Change(path, TRUE) \notin Changes(before, after)
  BY ReportedIsBreaking
<1>2. after.initial = before.initial
  BY <1>1 DEF Changes, CompareValue
<1>3. Known(before) \subseteq Known(after)
  <2>1. ASSUME NEW s \in Known(before) \ Known(after) PROVE FALSE
    <3>1. Change(<<s>>, TRUE) \in {Change(<<x>>, TRUE) : x \in Known(before) \ Known(after)}
      BY Zenon
    <3>2. Change(<<s>>, TRUE) \in Changes(before, after)
      BY <3>1, Zenon DEF Changes
    <3> QED
      BY <1>1, <3>2, Zenon
  <2> QED
    BY <2>1
<1>4. ASSUME NEW s \in Known(before)
      PROVE  \A path : Change(path, TRUE) \notin
                CompareHandlers(s, before.handlers[s], after.handlers[s])
  BY <1>1, <1>3 DEF Changes
<1>5. ASSUME NEW s \in Known(before)
      PROVE  NamesOf(before.handlers[s]) \subseteq NamesOf(after.handlers[s])
  <2>1. ASSUME NEW n \in NamesOf(before.handlers[s]) \ NamesOf(after.handlers[s]) PROVE FALSE
    <3>1. Change(<<s, n>>, TRUE) \in CompareHandlers(s, before.handlers[s], after.handlers[s])
      BY Zenon DEF CompareHandlers
    <3> QED
      BY <1>4, <3>1, Zenon
  <2> QED
    BY <2>1
<1>6. ASSUME NEW s \in Known(before), NEW n \in NamesOf(before.handlers[s])
      PROVE  /\ SameRequest(Named(before.handlers[s], n), Named(after.handlers[s], n))
             /\ Named(before.handlers[s], n).next = Named(after.handlers[s], n).next
  <2> DEFINE b == Named(before.handlers[s], n)
             a == Named(after.handlers[s], n)
             requests == CompareValue(<<s, n, "request">>, <<b.path, b.query, b.extra, b.body>>,
                                      <<a.path, a.query, a.extra, a.body>>, TRUE)
             targets == CompareValue(<<s, n, "new_state">>, b.next, a.next, TRUE)
  <2>1. n \in NamesOf(before.handlers[s]) \cap NamesOf(after.handlers[s])
    BY <1>5
  <2>2. /\ requests \subseteq CompareHandlers(s, before.handlers[s], after.handlers[s])
        /\ targets \subseteq CompareHandlers(s, before.handlers[s], after.handlers[s])
    <3>1. requests \cup targets \subseteq CompareHandler(s, n, b, a)
      BY DEF CompareHandler
    <3>2. CompareHandler(s, n, b, a)
            \in {CompareHandler(s, m, Named(before.handlers[s], m), Named(after.handlers[s], m)) :
                 m \in NamesOf(before.handlers[s]) \cap NamesOf(after.handlers[s])}
      BY <2>1, Zenon
    <3>3. CompareHandler(s, n, b, a)
            \subseteq CompareHandlers(s, before.handlers[s], after.handlers[s])
      BY <3>2, Zenon DEF CompareHandlers
    <3> QED
      BY <3>1, <3>3, Zenon
  <2>3. requests = {} \/ Change(<<s, n, "request">>, TRUE) \in requests
    BY DEF CompareValue
  <2>4. targets = {} \/ Change(<<s, n, "new_state">>, TRUE) \in targets
    BY DEF CompareValue
  <2>5. requests = {} /\ targets = {}
    BY <1>4, <2>2, <2>3, <2>4
  <2>6. SameRequest(b, a)
    BY <2>5 DEF CompareValue, SameRequest
  <2>7. b.next = a.next
    BY <2>5 DEF CompareValue
  <2> QED
    BY <2>6, <2>7
<1> QED
  BY <1>2, <1>3, <1>5, <1>6

\* A client that the older revision answers is answered by the newer one in the same
\* state, and led to the same state if only one handler takes the request.
LEMMA ClientsAreKept ==
    ASSUME NEW before, Acceptable(before), NEW after, Acceptable(after),
           BreakingChanges(before, after) = {},
           NEW s \in Known(before), NEW request, Answering(before, s, request) # {}
    PROVE  /\ s \in Known(after)
           /\ Answering(after, s, request) # {}
           /\ (\A g, h \in Answering(after, s, request) : g = h) =>
                Answer(after, s, request).next = Answer(before, s, request).next
<1>1. s \in Known(after)
  BY NothingBreaks
<1>2. PICK k \in Answering(before, s, request) :
        Answer(before, s, request) = before.handlers[s][k]
  BY FirstAnswers
<1> DEFINE b == before.handlers[s][k]
           a == Named(after.handlers[s], b.name)
<1>3. /\ k \in DOMAIN before.handlers[s]
      /\ Takes(PatternOf(b), request)
  BY DEF Answering, Matches
<1>4. b \in ToSet(before.handlers[s])
  BY <1>3, HandlersAreListed
<1>5. b.name \in NamesOf(before.handlers[s]) /\ Named(before.handlers[s], b.name) = b
  BY <1>4, NamedIsIt DEF NamesOf
<1>6. /\ b.name \in NamesOf(after.handlers[s])
      /\ PatternOf(a) = PatternOf(b) /\ a.next = b.next
  BY <1>5, NothingBreaks, SamePattern
<1>7. a \in ToSet(after.handlers[s])
  BY <1>6 DEF Named, NamesOf
<1>8. PICK i \in DOMAIN after.handlers[s] : a = after.handlers[s][i]
  <2> HIDE DEF a
  <2> QED
    BY <1>1, <1>7, HandlersAreListed
<1>9. i \in Answering(after, s, request)
  BY <1>3, <1>6, <1>8 DEF Answering, Matches
<1>10. PICK j \in Answering(after, s, request) :
        Answer(after, s, request) = after.handlers[s][j]
  BY <1>1, <1>9, FirstAnswers
<1>11. (\A g, h \in Answering(after, s, request) : g = h) => after.handlers[s][j] = a
  BY <1>8, <1>9, <1>10
<1> QED
  BY <1>1, <1>2, <1>6, <1>9, <1>10, <1>11

\* Between any two saved revisions, a comparison that reports nothing as breaking is
\* right: the clients of the one are answered and led by the other as before.
THEOREM UnflaggedChangesKeepClients == DesignSpec => []NonBreakingKeepsClients
<1>1. SavedInv => NonBreakingKeepsClients
  <2> SUFFICES ASSUME SavedInv, NEW i \in DOMAIN revisions, NEW j \in DOMAIN revisions,
                      BreakingChanges(revisions[i], revisions[j]) = {}
               PROVE  /\ revisions[j].initial = revisions[i].initial
                      /\ \A s \in Known(revisions[i]) :
                         \A request \in Triggers(revisions[i]) \cup Triggers(revisions[j]) :
                            Answering(revisions[i], s, request) # {} =>
                                /\ s \in Known(revisions[j])
                                /\ Answering(revisions[j], s, request) # {}
                                /\ (\A g, h \in Answering(revisions[j], s, request) : g = h) =>
                                    Answer(revisions[j], s, request).next
                                        = Answer(revisions[i], s, request).next
    BY DEF NonBreakingKeepsClients
  <2>1. Acceptable(revisions[i]) /\ Acceptable(revisions[j])
    BY DEF SavedInv
  <2> QED
    BY <2>1, NothingBreaks, ClientsAreKept
<1> QED
  BY <1>1, InitSavedInv, NextSavedInv, PTL DEF DesignSpec

-----------------------------------------------------------------------------
(* Edge cases.                                                             *)

\* What is at the bound of a constraint that the schema has.
LEMMA BoundsOf ==
    ASSUME NEW schema, NEW constraint, NEW valid, NEW invalid,
           NEW e \in AtBound(schema, constraint, valid, invalid)
    PROVE  /\ Has(schema, constraint)
           /\ e.polarity = "boundary" => e.value = valid
           /\ e.polarity = "negative" => e.value = invalid
  BY DEF AtBound, Edge

\* A limit that a schema has is an integer, and a size is not negative.
LEMMA LimitsAreNumbers ==
    ASSUME NEW schema, IsSchema(schema), NEW constraint, NEW default
    PROVE  /\ Has(schema, constraint) =>
                /\ LimitOf(schema, constraint, default) = schema.limits[constraint]
                /\ schema.limits[constraint] \in Int
                /\ constraint \in Sizes => schema.limits[constraint] \in Nat
           /\ ~ Has(schema, constraint) => LimitOf(schema, constraint, default) = default
  BY DEF IsSchema, Has, LimitOf

\* What an edge of a schema is to be.
Keeps(schema, e) ==
    /\ e.polarity = "boundary" => Allows(schema, e.value)
    /\ e.polarity = "negative" => ~ Allows(schema, e.value) /\ e.value # Absent

\* The edges of an integer.
LEMMA NumbersKeepPolarity ==
    ASSUME NEW schema, IsSchema(schema), Independent(schema), schema.type = "integer",
           NEW e \in NumberEdges(schema)
    PROVE  Keeps(schema, e)
<1> DEFINE min == schema.limits["minimum"]
           max == schema.limits["maximum"]
           above == schema.limits["exclusiveMinimum"]
           below == schema.limits["exclusiveMaximum"]
<1>1. \A n : Allows(schema, <<"int", n>>) <=>
            /\ Has(schema, "minimum") => n >= min
            /\ Has(schema, "maximum") => n <= max
            /\ Has(schema, "exclusiveMinimum") => n > above
            /\ Has(schema, "exclusiveMaximum") => n < below
  BY DEF Allows
<1>2. /\ Has(schema, "minimum") => min \in Int
      /\ Has(schema, "maximum") => max \in Int
      /\ Has(schema, "exclusiveMinimum") => above \in Int
      /\ Has(schema, "exclusiveMaximum") => below \in Int
  BY LimitsAreNumbers
<1>3. /\ ~ (Has(schema, "minimum") /\ Has(schema, "exclusiveMinimum"))
      /\ ~ (Has(schema, "maximum") /\ Has(schema, "exclusiveMaximum"))
  BY DEF Independent
<1>4. PICK low \in Int :
        /\ Has(schema, "minimum") => low = min
        /\ Has(schema, "exclusiveMinimum") => low = above + 1
        /\ Allows(schema, <<"int", low>>)
  <2> DEFINE least == IF Has(schema, "exclusiveMinimum") THEN above + 1
                      ELSE LimitOf(schema, "minimum", 0)
  <2>1. Representatives(schema)[1] = <<"int", least>>
    BY DEF Representatives, Spread
  <2>2. least \in Int
    BY <1>2, LimitsAreNumbers
  <2>3. Allows(schema, <<"int", least>>)
    BY <2>1 DEF Independent
  <2>4. Has(schema, "minimum") => least = min
    BY <1>3, LimitsAreNumbers
  <2> QED
    BY <2>2, <2>3, <2>4
<1>5. CASE e \in AtBound(schema, "minimum", Number(schema, "minimum", 0), Number(schema, "minimum", -1))
  <2>1. /\ Has(schema, "minimum")
        /\ e.polarity = "boundary" => e.value = <<"int", min>>
        /\ e.polarity = "negative" => e.value = <<"int", min - 1>>
    BY <1>2, <1>5, BoundsOf, LimitsAreNumbers DEF Number
  <2>2. Allows(schema, <<"int", min>>) /\ ~ Allows(schema, <<"int", min - 1>>)
    BY <1>1, <1>2, <1>4, <2>1
  <2> QED
    BY <2>1, <2>2 DEF Keeps, Absent
<1>6. CASE e \in AtBound(schema, "maximum", Number(schema, "maximum", 0), Number(schema, "maximum", 1))
  <2>1. /\ Has(schema, "maximum")
        /\ e.polarity = "boundary" => e.value = <<"int", max>>
        /\ e.polarity = "negative" => e.value = <<"int", max + 1>>
    BY <1>2, <1>6, BoundsOf, LimitsAreNumbers DEF Number
  <2>2. Allows(schema, <<"int", max>>) /\ ~ Allows(schema, <<"int", max + 1>>)
    BY <1>1, <1>2, <1>3, <1>4, <2>1
  <2> QED
    BY <2>1, <2>2 DEF Keeps, Absent
<1>7. CASE e \in AtBound(schema, "exclusiveMinimum", Number(schema, "exclusiveMinimum", 1),
                         Number(schema, "exclusiveMinimum", 0))
  <2>1. /\ Has(schema, "exclusiveMinimum")
        /\ e.polarity = "boundary" => e.value = <<"int", above + 1>>
        /\ e.polarity = "negative" => e.value = <<"int", above>>
    BY <1>2, <1>7, BoundsOf, LimitsAreNumbers DEF Number
  <2>2. Allows(schema, <<"int", above + 1>>) /\ ~ Allows(schema, <<"int", above>>)
    BY <1>1, <1>2, <1>4, <2>1
  <2> QED
    BY <2>1, <2>2 DEF Keeps, Absent
<1>8. CASE e \in AtBound(schema, "exclusiveMaximum", Number(schema, "exclusiveMaximum", -1),
                         Number(schema, "exclusiveMaximum", 0))
  <2>1. /\ Has(schema, "exclusiveMaximum")
        /\ e.polarity = "boundary" => e.value = <<"int", below - 1>>
        /\ e.polarity = "negative" => e.value = <<"int", below>>
    BY <1>2, <1>8, BoundsOf, LimitsAreNumbers DEF Number
  <2>2. Allows(schema, <<"int", below - 1>>) /\ ~ Allows(schema, <<"int", below>>)
    BY <1>1, <1>2, <1>3, <1>4, <2>1
  <2> QED
    BY <2>1, <2>2 DEF Keeps, Absent
<1> QED
  BY <1>5, <1>6, <1>7, <1>8 DEF NumberEdges

\* What a schema says of a text and of a list of equal items.
LEMMA SizesAllowed ==
    ASSUME NEW schema, NEW n
    PROVE  /\ schema.type = "string" =>
                (Allows(schema, <<"x", n>>) <=>
                    /\ schema.enum = <<>>
                    /\ LimitOf(schema, "minLength", 0) <= n
                    /\ Has(schema, "maxLength") => n <= schema.limits["maxLength"])
           /\ schema.type = "array" /\ ~ schema.unique =>
                (Allows(schema, <<"list", n>>) <=>
                    /\ LimitOf(schema, "minItems", 0) <= n
                    /\ Has(schema, "maxItems") => n <= schema.limits["maxItems"])
  BY DEF Allows

\* The edges of a size, when its least value is below the greatest.
LEMMA SizesKeepPolarity ==
    ASSUME NEW schema, IsSchema(schema), NEW least \in Sizes, NEW most \in Sizes, NEW kind,
           kind # "absent",
           \A n : Allows(schema, <<kind, n>>) <=>
                    /\ LimitOf(schema, least, 0) <= n
                    /\ Has(schema, most) => n <= schema.limits[most],
           Has(schema, most) => LimitOf(schema, least, 0) <= schema.limits[most],
           NEW e \in AtLeast(schema, least, kind) \cup AtMost(schema, most, kind)
    PROVE  Keeps(schema, e)
<1>1. LimitOf(schema, least, 0) \in Nat
  BY LimitsAreNumbers
<1>2. CASE e \in AtLeast(schema, least, kind)
  <2> DEFINE size == LimitOf(schema, least, 0)
  <2>1. /\ e.polarity = "boundary" => e.value = <<kind, size>>
        /\ e.polarity = "negative" => e.value = <<kind, size - 1>>
    BY <1>2, BoundsOf DEF AtLeast
  <2>2. Allows(schema, <<kind, size>>)
    BY <1>1
  <2>3. ~ Allows(schema, <<kind, size - 1>>)
    BY <1>1
  <2> QED
    BY <2>1, <2>2, <2>3 DEF Keeps, Absent
<1>3. CASE e \in AtMost(schema, most, kind)
  <2> DEFINE size == schema.limits[most]
  <2>1. /\ Has(schema, most) /\ size \in Nat
        /\ e.polarity = "boundary" => e.value = <<kind, size>>
        /\ e.polarity = "negative" => e.value = <<kind, size + 1>>
    BY <1>3, BoundsOf, LimitsAreNumbers DEF AtMost
  <2>2. Allows(schema, <<kind, size>>)
    BY <1>1, <2>1
  <2>3. ~ Allows(schema, <<kind, size + 1>>)
    BY <1>1, <2>1
  <2> QED
    BY <2>1, <2>2, <2>3 DEF Keeps, Absent
<1> QED
  BY <1>2, <1>3

\* The edges of a text.
LEMMA TextsKeepPolarity ==
    ASSUME NEW schema, IsSchema(schema), Independent(schema), schema.type = "string",
           NEW e \in AtLeast(schema, "minLength", "x") \cup AtMost(schema, "maxLength", "x")
    PROVE  Keeps(schema, e)
<1>1. schema.enum = <<>>
  <2>1. Has(schema, "minLength") \/ Has(schema, "maxLength")
    BY BoundsOf DEF AtLeast, AtMost
  <2> QED
    BY <2>1 DEF Independent, Has
<1> DEFINE least == LimitOf(schema, "minLength", 1)
<1>2. Representatives(schema)[1] = <<"x", least>>
  BY <1>1 DEF Representatives, Spread, Text
<1>3. Allows(schema, <<"x", least>>)
  BY <1>2 DEF Independent
<1>4. /\ Has(schema, "maxLength") => schema.limits["maxLength"] \in Nat
      /\ Has(schema, "minLength") => least = LimitOf(schema, "minLength", 0)
      /\ ~ Has(schema, "minLength") => LimitOf(schema, "minLength", 0) = 0
  BY LimitsAreNumbers DEF Sizes
<1>5. Has(schema, "maxLength") => LimitOf(schema, "minLength", 0) <= schema.limits["maxLength"]
  <2>1. Has(schema, "maxLength") => least <= schema.limits["maxLength"]
    BY <1>3, SizesAllowed
  <2> QED
    BY <1>4, <2>1
<1>6. \A n : Allows(schema, <<"x", n>>) <=>
                /\ LimitOf(schema, "minLength", 0) <= n
                /\ Has(schema, "maxLength") => n <= schema.limits["maxLength"]
  BY <1>1, SizesAllowed
<1> QED
  BY <1>5, <1>6, SizesKeepPolarity DEF Sizes

\* The edges of a list.
LEMMA ListsKeepPolarity ==
    ASSUME NEW schema, IsSchema(schema), Independent(schema), schema.type = "array",
           NEW e \in AtLeast(schema, "minItems", "list") \cup AtMost(schema, "maxItems", "list")
    PROVE  Keeps(schema, e)
<1> DEFINE least == LimitOf(schema, "minItems", 0)
<1>1. ~ schema.unique
  BY DEF Independent
<1>2. Representatives(schema)[1] = <<"list", least>>
  BY <1>1 DEF Representatives, Spread, Repeated
<1>3. Allows(schema, <<"list", least>>)
  BY <1>2 DEF Independent
<1>4. \A n : Allows(schema, <<"list", n>>) <=>
                /\ LimitOf(schema, "minItems", 0) <= n
                /\ Has(schema, "maxItems") => n <= schema.limits["maxItems"]
  BY <1>1, SizesAllowed
<1>5. Has(schema, "maxItems") => LimitOf(schema, "minItems", 0) <= schema.limits["maxItems"]
  BY <1>3, <1>4
<1> QED
  BY <1>4, <1>5, SizesKeepPolarity DEF Sizes

\* The edges of a list of allowed texts.
LEMMA EnumsKeepPolarity ==
    ASSUME NEW schema, IsSchema(schema), Independent(schema), schema.type = "string",
           NEW e \in EnumEdges(schema)
    PROVE  Keeps(schema, e)
<1>1. schema.enum # <<>> /\ ~ Has(schema, "minLength") /\ ~ Has(schema, "maxLength")
  BY DEF EnumEdges, Independent, Has
<1>2. LimitOf(schema, "minLength", 0) = 0
  BY <1>1 DEF LimitOf
<1>3. \A n \in Nat : Allows(schema, <<"enum", n>>)
  BY <1>1, <1>2 DEF Allows
<1>4. ~ Allows(schema, InvalidText) /\ InvalidText # Absent
  BY <1>1 DEF Allows, InvalidText, Absent
<1>5. CASE e = Edge("negative", "enum", InvalidText)
  BY <1>4, <1>5 DEF Keeps, Edge
<1>6. CASE \E k \in {1, Len(schema.enum)} : e = Edge("boundary", "enum", <<"enum", schema.enum[k]>>)
  <2>1. PICK k \in {1, Len(schema.enum)} : e = Edge("boundary", "enum", <<"enum", schema.enum[k]>>)
    BY <1>6
  <2>2. k \in 1..Len(schema.enum)
    BY <1>1, EmptySeq DEF IsSchema
  <2>3. schema.enum[k] \in Nat
    BY <2>2 DEF IsSchema
  <2> QED
    BY <1>3, <2>1, <2>3 DEF Keeps, Edge
<1> QED
  BY <1>1, <1>5, <1>6 DEF EnumEdges

\* Every edge of a schema whose constraints are independent is what it claims to be.
LEMMA SchemasKeepPolarity ==
    ASSUME NEW schema, IsSchema(schema), Independent(schema), NEW e \in SchemaEdges(schema)
    PROVE  Keeps(schema, e)
<1>1. CASE e = TypeEdge(schema)
  <2>1. ~ Allows(schema, IF schema.type = "integer" THEN InvalidText ELSE <<"int", 42>>)
    BY DEF Allows, InvalidText
  <2>2. InvalidText # Absent /\ <<"int", 42>> # Absent
    BY DEF InvalidText, Absent
  <2> QED
    BY <1>1, <2>1, <2>2 DEF TypeEdge, Edge, Keeps
<1>2. CASE schema.type = "integer" /\ e \in NumberEdges(schema)
  BY <1>2, NumbersKeepPolarity
<1>3. CASE schema.type = "string" /\ e \in EnumEdges(schema)
  BY <1>3, EnumsKeepPolarity
<1>4. CASE schema.type = "string"
           /\ e \in AtLeast(schema, "minLength", "x") \cup AtMost(schema, "maxLength", "x")
  BY <1>4, TextsKeepPolarity
<1>5. CASE schema.type = "array"
           /\ e \in AtLeast(schema, "minItems", "list") \cup AtMost(schema, "maxItems", "list")
  BY <1>5, ListsKeepPolarity
<1> QED
  BY <1>1, <1>2, <1>3, <1>4, <1>5 DEF SchemaEdges

\* The operation is one of those to cover, or none was chosen yet.
CaseInv ==
    operation \in OperationsToCover \cup {[fields |-> <<>>, error |-> FALSE]}

\* No operation is chosen at first.
LEMMA InitCaseInv == CaseInit => CaseInv
  BY DEF CaseInit, CaseInv

\* Only one of the contract is chosen.
LEMMA NextCaseInv == CaseInv /\ [CaseNext]_caseVars => CaseInv'
  BY DEF CaseInv, CaseNext, ChooseOperation, NextFactor, GrowRow, AddRow, EndFactor, Finish,
         caseVars

\* Every edge case is what it claims to be.
THEOREM EdgesAlwaysKeepPolarity == CaseSpec => []EdgesKeepPolarity
<1>1. CaseInv => EdgesKeepPolarity
  <2> SUFFICES ASSUME CaseInv, NEW e \in EdgeRequests(operation),
                      operation.fields[e.field].location # "cookie",
                      Independent(operation.fields[e.field].schema)
               PROVE  LET field == operation.fields[e.field] IN
                      /\ e.edge.polarity = "boundary" => Allows(field.schema, e.request[e.field])
                      /\ e.edge.polarity = "negative" =>
                            IF e.request[e.field] = Absent THEN field.required
                            ELSE ~ Allows(field.schema, e.request[e.field])
                      /\ \A i \in DOMAIN e.request :
                            i # e.field => e.request[i] = Base(operation)[i]
    BY DEF EdgesKeepPolarity
  <2>0. PICK i \in DOMAIN operation.fields :
            \E x \in FieldEdges(operation.fields[i]) :
                e = [field |-> i, edge |-> x, request |-> EdgeRequest(operation, i, x)]
    BY DEF EdgeRequests
  <2>1. PICK x \in FieldEdges(operation.fields[i]) :
            e = [field |-> i, edge |-> x, request |-> EdgeRequest(operation, i, x)]
    BY <2>0
  <2>2. /\ e.field = i /\ e.edge = x /\ e.request = [Base(operation) EXCEPT ![i] = x.value]
        /\ DOMAIN Base(operation) = DOMAIN operation.fields
    BY <2>1 DEF EdgeRequest, Base
  <2>3. e.request[i] = x.value /\ \A k \in DOMAIN e.request : k # i => e.request[k] = Base(operation)[k]
    BY <2>2
  <2>4. operation \in OperationsToCover
    BY <2>1 DEF CaseInv
  <2> DEFINE schema == operation.fields[i].schema
  <2>5. IsSchema(schema)
    BY <2>1, <2>4, OperationAssumption DEF ToSet
  <2>6. CASE x \in SchemaEdges(schema)
    <3>1. Keeps(schema, x)
      BY <2>2, <2>5, <2>6, SchemasKeepPolarity
    <3> QED
      BY <2>2, <2>3, <3>1 DEF Keeps
  <2>7. CASE x \notin SchemaEdges(schema)
    <3>1. operation.fields[i].required /\ x = Edge("negative", "required", Absent)
      BY <2>1, <2>7 DEF FieldEdges
    <3> QED
      BY <2>2, <2>3, <3>1 DEF Edge
  <2> QED
    BY <2>6, <2>7
<1> QED
  BY <1>1, InitCaseInv, NextCaseInv, PTL DEF CaseSpec

-----------------------------------------------------------------------------
(* Factors and their values.                                               *)

\* A function on the first numbers is a sequence.
LEMMA FirstNumbers ==
    ASSUME NEW n \in Nat, NEW S, NEW f \in [1..n -> S]
    PROVE  f \in Seq(S) /\ Len(f) = n /\ DOMAIN f = 1..n
  BY SeqDef, LenProperties

\* Every index has a rank of its own, so that each rank has its index.
LEMMA RanksAreTaken ==
    ASSUME NEW I \in SUBSET Nat, IsFiniteSet(I), NEW k \in 1..Cardinality(I)
    PROVE  \E i \in I : Cardinality({j \in I : j <= i}) = k
<1> DEFINE UpTo(i) == {j \in I : j <= i}
           rank == [i \in I |-> Cardinality(UpTo(i))]
           D == 1..Cardinality(I)
<1>1. Cardinality(I) \in Nat
  BY FS_CardinalityType
<1>2. IsFiniteSet(D) /\ Cardinality(D) = Cardinality(I)
  BY <1>1, FS_Interval
<1>3. \A i \in I : /\ IsFiniteSet(UpTo(i)) /\ Cardinality(UpTo(i)) \in Nat
                   /\ Cardinality(UpTo(i)) <= Cardinality(I)
                   /\ i \in UpTo(i)
  <2> TAKE i \in I
  <2>1. UpTo(i) \in SUBSET I /\ i \in UpTo(i)
    OBVIOUS
  <2> QED
    BY <2>1, FS_Subset, FS_CardinalityType
<1>4. \A i \in I : Cardinality(UpTo(i)) \in D
  BY <1>1, <1>3, FS_EmptySet
<1>5. ASSUME NEW i \in I, NEW m \in I, i < m
      PROVE  Cardinality(UpTo(i)) # Cardinality(UpTo(m))
  <2>1. UpTo(i) \in SUBSET UpTo(m) /\ m \notin UpTo(i)
    <3>1. i \in Nat /\ m \in Nat /\ \A j \in I : j \in Nat
      OBVIOUS
    <3>2. ~ (m <= i) /\ \A j \in I : j <= i => j <= m
      BY <1>5, <3>1
    <3> QED
      BY <3>2
  <2>2. IsFiniteSet(UpTo(m)) /\ m \in UpTo(m)
    BY <1>3
  <2> HIDE DEF UpTo
  <2>3. Cardinality(UpTo(m)) = Cardinality(UpTo(i)) => UpTo(m) = UpTo(i)
    BY <2>1, <2>2, FS_Subset
  <2> QED
    BY <2>1, <2>2, <2>3
<1>6. \A i, m \in I : i # m => Cardinality(UpTo(i)) # Cardinality(UpTo(m))
  <2> SUFFICES ASSUME NEW i \in I, NEW m \in I, i # m
               PROVE  Cardinality(UpTo(i)) # Cardinality(UpTo(m))
    OBVIOUS
  <2>1. i < m \/ m < i
    OBVIOUS
  <2> QED
    BY <1>5, <2>1
<1> HIDE DEF UpTo
<1>7. rank \in Injection(I, D)
  BY <1>4, <1>6 DEF Injection, IsInjective
<1>8. rank \in Surjection(I, D)
  BY <1>2, <1>7, FS_Injection
<1>9. PICK i \in I : rank[i] = k
  BY <1>8 DEF Surjection
<1>10. Cardinality(UpTo(i)) = k
  BY <1>9
<1> QED
  BY <1>10 DEF UpTo

\* Indices in order are indices, as many as there are or are asked for.
LEMMA InOrderTakes ==
    ASSUME NEW I \in SUBSET Nat, IsFiniteSet(I), NEW n \in Nat
    PROVE  /\ InOrder(I, n) \in Seq(I)
           /\ Len(InOrder(I, n)) = Smaller(Cardinality(I), n)
<1> DEFINE size == Smaller(Cardinality(I), n)
<1>1. size \in Nat /\ size <= Cardinality(I) /\ Cardinality(I) \in Nat
  BY FS_CardinalityType DEF Smaller
<1>2. \A k \in 1..size : \E i \in I : Cardinality({j \in I : j <= i}) = k
  BY <1>1, RanksAreTaken
<1>3. \A k \in 1..size : (CHOOSE i \in I : Cardinality({j \in I : j <= i}) = k) \in I
  BY <1>2
<1>4. InOrder(I, n) \in [1..size -> I]
  BY <1>3 DEF InOrder
<1> QED
  BY <1>1, <1>4, FirstNumbers

\* The representatives of a schema are a list.
LEMMA RepresentativesAreListed ==
    ASSUME NEW schema, IsSchema(schema)
    PROVE  \E S : Representatives(schema) \in Seq(S)
<1> DEFINE list == Representatives(schema)
<1>1. CASE schema.type = "integer"
  <2>1. DOMAIN list = 1..3 /\ list = [k \in 1..3 |-> list[k]]
    BY <1>1 DEF Representatives
  <2>2. list \in [1..3 -> {list[k] : k \in 1..3}]
    BY <2>1
  <2> QED
    BY <2>2, FirstNumbers
<1>2. CASE schema.type = "string" /\ schema.enum = <<>>
  <2>1. DOMAIN list = 1..3 /\ list = [k \in 1..3 |-> list[k]]
    BY <1>2 DEF Representatives
  <2>2. list \in [1..3 -> {list[k] : k \in 1..3}]
    BY <2>1
  <2> QED
    BY <2>2, FirstNumbers
<1>3. CASE schema.type = "string" /\ schema.enum # <<>>
  <2> DEFINE n == Len(schema.enum)
  <2>1. n \in Nat /\ DOMAIN schema.enum = 1..n
    BY DEF IsSchema
  <2>2. DOMAIN list = 1..n /\ list = [k \in 1..n |-> list[k]]
    BY <1>3, <2>1 DEF Representatives
  <2>3. list \in [1..n -> {list[k] : k \in 1..n}]
    BY <2>2
  <2> QED
    BY <2>1, <2>3, FirstNumbers
<1>4. CASE schema.type = "array"
  <2>1. DOMAIN list = 1..3 /\ list = [k \in 1..3 |-> list[k]]
    BY <1>4 DEF Representatives
  <2>2. list \in [1..3 -> {list[k] : k \in 1..3}]
    BY <2>1
  <2> QED
    BY <2>2, FirstNumbers
<1>5. CASE schema.type = "boolean"
  <2>1. list = <<<<"bool", 1>>, <<"bool", 0>>>>
    BY <1>5 DEF Representatives
  <2>2. list \in Seq({<<"bool", 1>>, <<"bool", 0>>})
    BY <2>1
  <2> QED
    BY <2>2
<1> QED
  BY <1>1, <1>2, <1>3, <1>4, <1>5 DEF IsSchema

\* The values of a factor are allowed, or its absence is.
LEMMA FactorValuesAllowed ==
    ASSUME NEW field, IsSchema(field.schema)
    PROVE  LET values == FactorValues(field) IN
           /\ Len(values) \in Nat /\ DOMAIN values = 1..Len(values)
           /\ \A k \in DOMAIN values :
                \/ values[k] = Absent /\ ~ field.required
                \/ Allows(field.schema, values[k])
<1> DEFINE listed == Representatives(field.schema)
           all == IF ~ field.required /\ field.location # "path"
                  THEN Append(listed, Absent) ELSE listed
           valid == {k \in DOMAIN all : k > Len(listed) \/ Allows(field.schema, all[k])}
           kept == {k \in valid : \A j \in valid : j < k => all[j] # all[k]}
           chosen == InOrder(kept, MaxValues)
<1>1. PICK S : listed \in Seq(S)
  BY RepresentativesAreListed
<1>2. /\ Len(listed) \in Nat /\ DOMAIN listed = 1..Len(listed)
      /\ \E n \in Nat : DOMAIN all = 1..n
      /\ \A k \in DOMAIN all : k > Len(listed) => all[k] = Absent /\ ~ field.required
  <2>1. listed \in Seq(S \cup {Absent})
    BY <1>1
  <2>2. Len(listed) \in Nat /\ DOMAIN listed = 1..Len(listed)
    BY <1>1
  <2>3. CASE ~ field.required /\ field.location # "path"
    <3>1. /\ DOMAIN Append(listed, Absent) = 1..(Len(listed) + 1)
          /\ Append(listed, Absent)[Len(listed) + 1] = Absent
      BY <2>1, <2>2
    <3> QED
      BY <2>2, <2>3, <3>1
  <2>4. CASE ~ (~ field.required /\ field.location # "path")
    BY <2>2, <2>4
  <2> QED
    BY <2>2, <2>3, <2>4
<1> HIDE DEF listed, all
<1>3. kept \in SUBSET Nat /\ IsFiniteSet(kept)
  <2>1. PICK n \in Nat : DOMAIN all = 1..n
    BY <1>2
  <2>2. kept \in SUBSET (1..n) /\ IsFiniteSet(1..n)
    BY <2>1, FS_Interval
  <2> QED
    BY <2>2, FS_Subset
<1>4. \A k \in kept : \/ all[k] = Absent /\ ~ field.required
                      \/ Allows(field.schema, all[k])
  BY <1>2
<1> HIDE DEF kept
<1>5. chosen \in Seq(kept)
  BY <1>3, LimitAssumption, InOrderTakes
<1>6. FactorValues(field) = [n \in DOMAIN chosen |-> all[chosen[n]]]
  BY DEF FactorValues, listed, all, kept
<1> HIDE DEF chosen
<1>7. Len(chosen) \in Nat /\ DOMAIN chosen = 1..Len(chosen) /\ \A k \in DOMAIN chosen : chosen[k] \in kept
  BY <1>5
<1>8. FactorValues(field) \in [1..Len(chosen) -> {all[k] : k \in kept}]
  BY <1>6, <1>7
<1>9. /\ Len(FactorValues(field)) = Len(chosen)
      /\ DOMAIN FactorValues(field) = 1..Len(chosen)
  BY <1>7, <1>8, FirstNumbers
<1>10. \A k \in DOMAIN FactorValues(field) :
            FactorValues(field)[k] = all[chosen[k]] /\ chosen[k] \in kept
  BY <1>6, <1>7
<1> QED
  BY <1>4, <1>7, <1>9, <1>10

\* The values of a factor of an operation.
Values(op, i) == DOMAIN FactorValues(op.fields[Factors(op)[i]])

\* The factors of an operation are fields with two values or more.
LEMMA FactorsAreVaried ==
    ASSUME NEW op \in OperationsToCover
    PROVE  /\ Len(Factors(op)) \in Nat /\ DOMAIN Factors(op) = 1..Len(Factors(op))
           /\ \A i \in DOMAIN Factors(op) :
                LET field == op.fields[Factors(op)[i]] IN
                /\ Factors(op)[i] \in DOMAIN op.fields
                /\ IsSchema(field.schema)
                /\ Len(FactorValues(field)) \in Nat
                /\ Len(FactorValues(field)) >= 2
                /\ Values(op, i) = 1..Len(FactorValues(field))
<1> DEFINE varied == {i \in DOMAIN op.fields : Len(FactorValues(op.fields[i])) >= 2}
<1>1. /\ Len(op.fields) \in Nat /\ DOMAIN op.fields = 1..Len(op.fields)
      /\ \A i \in DOMAIN op.fields : IsSchema(op.fields[i].schema)
  <2>1. /\ op.fields \in Seq(ToSet(op.fields))
        /\ \A field \in ToSet(op.fields) : IsSchema(field.schema)
    BY OperationAssumption
  <2>2. Len(op.fields) \in Nat /\ DOMAIN op.fields = 1..Len(op.fields)
    BY <2>1
  <2>3. \A i \in DOMAIN op.fields : op.fields[i] \in ToSet(op.fields)
    BY <2>1, <2>2
  <2> QED
    BY <2>1, <2>2, <2>3
<1>2. varied \in SUBSET Nat /\ IsFiniteSet(varied)
  <2>1. varied \in SUBSET (1..Len(op.fields)) /\ IsFiniteSet(1..Len(op.fields))
    BY <1>1, FS_Interval
  <2> QED
    BY <1>1, <2>1, FS_Subset
<1>3. Factors(op) \in Seq(varied)
  BY <1>2, LimitAssumption, InOrderTakes DEF Factors
<1>4. /\ Len(Factors(op)) \in Nat /\ DOMAIN Factors(op) = 1..Len(Factors(op))
      /\ \A i \in DOMAIN Factors(op) : Factors(op)[i] \in varied
  BY <1>3
<1>5. ASSUME NEW i \in DOMAIN Factors(op)
      PROVE  LET field == op.fields[Factors(op)[i]] IN
                /\ Factors(op)[i] \in DOMAIN op.fields
                /\ IsSchema(field.schema)
                /\ Len(FactorValues(field)) \in Nat
                /\ Len(FactorValues(field)) >= 2
                /\ Values(op, i) = 1..Len(FactorValues(field))
  <2> DEFINE field == op.fields[Factors(op)[i]]
  <2>1. Factors(op)[i] \in DOMAIN op.fields /\ Len(FactorValues(field)) >= 2
    BY <1>4, <1>5
  <2>2. IsSchema(field.schema)
    BY <1>1, <2>1
  <2> QED
    BY <2>1, <2>2, FactorValuesAllowed DEF Values
<1> QED
  BY <1>4, <1>5

-----------------------------------------------------------------------------
(* Covering rows.                                                          *)

\* The pairs of a row, of rows, and those to cover.
LEMMA PairsOfRow ==
    ASSUME NEW row, NEW x
    PROVE  x \in RowPairs(row) <=>
            \E i \in DOMAIN row, j \in DOMAIN row : i < j /\ x = <<i, row[i], j, row[j]>>
<1>1. ASSUME x \in RowPairs(row)
      PROVE  \E i \in DOMAIN row, j \in DOMAIN row : i < j /\ x = <<i, row[i], j, row[j]>>
  <2>1. PICK p \in (DOMAIN row) \X (DOMAIN row) :
            p[1] < p[2] /\ x = <<p[1], row[p[1]], p[2], row[p[2]]>>
    BY <1>1 DEF RowPairs
  <2>2. p[1] \in DOMAIN row /\ p[2] \in DOMAIN row
    OBVIOUS
  <2> QED
    BY <2>1, <2>2
<1>2. ASSUME NEW i \in DOMAIN row, NEW j \in DOMAIN row, i < j, x = <<i, row[i], j, row[j]>>
      PROVE  x \in RowPairs(row)
  <2> DEFINE p == <<i, j>>
  <2>1. p \in (DOMAIN row) \X (DOMAIN row) /\ p[1] = i /\ p[2] = j
    OBVIOUS
  <2> HIDE DEF p
  <2> QED
    BY <1>2, <2>1 DEF RowPairs
<1> QED
  BY <1>1, <1>2

\* A pair is covered by one of the rows.
LEMMA PairsOfRows ==
    ASSUME NEW seq, NEW x
    PROVE  x \in Covered(seq) <=> \E k \in DOMAIN seq : x \in RowPairs(seq[k])
  BY Zenon DEF Covered, ToSet

\* A required pair is of two factors in order, each with a value of its own.
LEMMA PairsToCover ==
    ASSUME NEW n, NEW x
    PROVE  x \in RequiredPairsOf(n) <=>
            \E i \in 1..n, j \in 1..n : i < j /\
                \E a \in Values(operation, i), b \in Values(operation, j) : x = <<i, a, j, b>>
<1>1. ASSUME x \in RequiredPairsOf(n)
      PROVE  \E i \in 1..n, j \in 1..n : i < j /\
                \E a \in Values(operation, i), b \in Values(operation, j) : x = <<i, a, j, b>>
  <2>1. PICK p \in (1..n) \X (1..n) :
            p[1] < p[2] /\ \E a \in ValuesOf(p[1]), b \in ValuesOf(p[2]) : x = <<p[1], a, p[2], b>>
    BY <1>1 DEF RequiredPairsOf
  <2>2. p[1] \in 1..n /\ p[2] \in 1..n
    OBVIOUS
  <2> QED
    BY <2>1, <2>2 DEF ValuesOf, Values
<1>2. ASSUME NEW i \in 1..n, NEW j \in 1..n, i < j,
             NEW a \in Values(operation, i), NEW b \in Values(operation, j), x = <<i, a, j, b>>
      PROVE  x \in RequiredPairsOf(n)
  <2> DEFINE p == <<i, j>>
  <2>1. p \in (1..n) \X (1..n) /\ p[1] = i /\ p[2] = j
    OBVIOUS
  <2> HIDE DEF p
  <2>2. a \in ValuesOf(p[1]) /\ b \in ValuesOf(p[2]) /\ x = <<p[1], a, p[2], b>>
    BY <1>2, <2>1 DEF ValuesOf, Values
  <2>4. p \in {q \in (1..n) \X (1..n) : q[1] < q[2]}
    BY <1>2, <2>1
  <2>3. x \in {<<p[1], c, p[2], d>> : c \in ValuesOf(p[1]), d \in ValuesOf(p[2])}
    BY <2>2
  <2> QED
    BY <2>3, <2>4 DEF RequiredPairsOf
<1> QED
  BY <1>1, <1>2

\* The rows of an operation: each has from low to high factors, with values of theirs.
Formed(op, seq, low, high) ==
    /\ seq \in Seq(Seq(Nat))
    /\ \A k \in DOMAIN seq :
        /\ low <= Len(seq[k]) /\ Len(seq[k]) <= high
        /\ \A m \in DOMAIN seq[k] : seq[k][m] \in Values(op, m)

\* Two rows differ in a factor that both have.
Apart(seq) ==
    \A j, k \in DOMAIN seq : j # k =>
        \E m \in (DOMAIN seq[j]) \cap (DOMAIN seq[k]) : seq[j][m] # seq[k][m]

\* The first factors are covered.
Full(op, n, seq) ==
    \A i, j \in 1..n : i < j =>
        \A a \in Values(op, i), b \in Values(op, j) : <<i, a, j, b>> \in Covered(seq)

\* The rows that are complete for the factors so far.
Grown ==
    /\ operation \in OperationsToCover
    /\ width \in 2..Len(Factors(operation))
    /\ Len(rows) <= limit
    /\ Formed(operation, rows, width, width)
    /\ Apart(rows)
    /\ Len(rows) < limit => Full(operation, width, rows)

\* The rows that get a value of a factor.
Growing ==
    /\ operation \in OperationsToCover
    /\ width \in 3..Len(Factors(operation))
    /\ Len(rows) <= limit
    /\ Formed(operation, rows, width - 1, width)
    /\ Apart(rows)
    /\ Len(rows) < limit => Full(operation, width - 1, rows)
    /\ uncovered = RequiredPairsOf(Len(Factors(operation))) \ Covered(rows)

CoverInv ==
    /\ limit \in Nat \ {0}
    /\ phase = "grow" => Grown
    /\ phase = "add" => Growing
    /\ phase = "done" /\ width >= 2 => Grown /\ width = Len(Factors(operation))

-----------------------------------------------------------------------------
\* Division finds the place of a pair in the product and back.
LEMMA PlaceOfPair ==
    ASSUME NEW L \in Nat, NEW R \in Nat \ {0}, NEW k \in 1..(L * R)
    PROVE  /\ ((k - 1) \div R) + 1 \in 1..L /\ ((k - 1) % R) + 1 \in 1..R
           /\ k - 1 = R * ((k - 1) \div R) + ((k - 1) % R)
<1> DEFINE q == (k - 1) \div R
           r == (k - 1) % R
<1>1. L * R \in Nat /\ k \in Nat /\ 1 <= k /\ k <= L * R
  OBVIOUS
<1>2. q \in Int /\ r \in Int /\ 0 <= r /\ r < R /\ k - 1 = R * q + r
  BY <1>1
<1> HIDE DEF q, r
<1>3. q >= 0
  <2> SUFFICES ASSUME q <= -1 PROVE FALSE
    BY <1>2
  <2>1. R * q <= R * (-1)
    BY <1>2
  <2> QED
    BY <1>1, <1>2, <2>1
<1>4. q < L
  <2> SUFFICES ASSUME L <= q PROVE FALSE
    BY <1>2
  <2>1. R * L <= R * q /\ R * L = L * R
    BY <1>2
  <2> QED
    BY <1>1, <1>2, <2>1
<1>5. q + 1 \in 1..L /\ r + 1 \in 1..R
  BY <1>2, <1>3, <1>4
<1> QED
  BY <1>2, <1>5 DEF q, r

\* Every pair of values has its place in the product.
LEMMA PairHasPlace ==
    ASSUME NEW L \in Nat, NEW R \in Nat \ {0}, NEW a \in 1..L, NEW b \in 1..R,
           NEW k, k = (a - 1) * R + b
    PROVE  /\ k \in 1..(L * R)
           /\ ((k - 1) \div R) + 1 = a /\ ((k - 1) % R) + 1 = b
<1>1. (a - 1) * R \in Nat /\ (a - 1) * R + R = a * R /\ a * R <= L * R
  OBVIOUS
<1>2. k \in 1..(L * R)
  BY <1>1
<1>3. k - 1 = R * (a - 1) + (b - 1)
  OBVIOUS
<1>4. (k - 1) \div R = a - 1 /\ (k - 1) % R = b - 1
  BY <1>3
<1> QED
  BY <1>2, <1>4

\* A factor has a first value, and its values are natural numbers.
LEMMA FactorsHaveValues ==
    ASSUME NEW op \in OperationsToCover
    PROVE  /\ Len(Factors(op)) \in Nat
           /\ \A i \in 1..Len(Factors(op)) :
                \E n \in Nat : n >= 2 /\ Values(op, i) = 1..n
  BY FactorsAreVaried

\* The first rows are the pairs of the first two factors.
LEMMA ChosenIsCovered == ChooseOperation => CoverInv'
<1> SUFFICES ASSUME ChooseOperation PROVE CoverInv'
  OBVIOUS
<1> DEFINE n == Len(Factors(operation'))
<1>1. operation' \in OperationsToCover /\ limit' \in Nat \ {0}
  BY LimitAssumption DEF ChooseOperation
<1>2. CASE n < 2
  BY <1>1, <1>2 DEF ChooseOperation, CoverInv
<1>3. CASE ~ (n < 2)
  <2> DEFINE L == Len(FactorValues(operation'.fields[Factors(operation')[1]]))
             R == Len(FactorValues(operation'.fields[Factors(operation')[2]]))
             size == Smaller(L * R, limit')
             row(k) == <<((k - 1) \div R) + 1, ((k - 1) % R) + 1>>
  <2>1. /\ n \in Nat /\ 1 \in DOMAIN Factors(operation') /\ 2 \in DOMAIN Factors(operation')
        /\ L \in Nat \ {0} /\ R \in Nat \ {0}
        /\ Values(operation', 1) = 1..L /\ Values(operation', 2) = 1..R
    BY <1>1, <1>3, FactorsAreVaried
  <2>2. phase' = "grow" /\ width' = 2 /\ rows' = [k \in 1..size |-> row(k)]
    BY <1>3 DEF ChooseOperation
  <2>3. L * R \in Nat
    BY <2>1
  <2>4. size \in Nat /\ size <= limit' /\ size <= L * R /\ (size < limit' => size = L * R)
    BY <1>1, <2>3 DEF Smaller
  <2> HIDE DEF n, L, R, size
  <2>5. \A k \in 1..size : /\ row(k)[1] \in 1..L /\ row(k)[2] \in 1..R
                           /\ k - 1 = R * (row(k)[1] - 1) + (row(k)[2] - 1)
                           /\ row(k) \in Seq(Nat) /\ Len(row(k)) = 2 /\ DOMAIN row(k) = 1..2
    <3> TAKE k \in 1..size
    <3>1. k \in 1..(L * R)
      BY <2>3, <2>4
    <3> DEFINE q == (k - 1) \div R
               r == (k - 1) % R
    <3>2. q + 1 \in 1..L /\ r + 1 \in 1..R /\ k - 1 = R * q + r
      BY <2>1, <3>1, PlaceOfPair
    <3>3. row(k) = <<q + 1, r + 1>>
      OBVIOUS
    <3>4. q \in Int /\ r \in Int /\ k \in Int
      BY <2>1, <3>1
    <3> HIDE DEF q, r, row
    <3>5. q + 1 \in Nat /\ r + 1 \in Nat /\ (q + 1) - 1 = q /\ (r + 1) - 1 = r
      BY <2>1, <3>2, <3>4
    <3>6. row(k) \in Seq(Nat) /\ Len(row(k)) = 2 /\ DOMAIN row(k) = 1..2
      BY <3>3, <3>5
    <3>7. row(k)[1] = q + 1 /\ row(k)[2] = r + 1
      BY <3>3
    <3> QED
      BY <3>2, <3>5, <3>6, <3>7
  <2>6. \A a \in 1..L, b \in 1..R :
            (a - 1) * R + b \in 1..(L * R) /\ row((a - 1) * R + b) = <<a, b>>
    <3> TAKE a \in 1..L, b \in 1..R
    <3> DEFINE k == (a - 1) * R + b
    <3>1. /\ k \in 1..(L * R)
          /\ ((k - 1) \div R) + 1 = a /\ ((k - 1) % R) + 1 = b
      BY <2>1, PairHasPlace
    <3> HIDE DEF k
    <3>2. row(k) = <<a, b>>
      BY <3>1
    <3> QED
      BY <3>1, <3>2 DEF k
  <2> HIDE DEF row
  <2>7. rows' \in Seq(Seq(Nat)) /\ Len(rows') = size /\ DOMAIN rows' = 1..size
    <3>1. rows' \in [1..size -> Seq(Nat)]
      BY <2>2, <2>5
    <3> QED
      BY <2>4, <3>1, FirstNumbers
  <2>8. \A k \in DOMAIN rows' : rows'[k] = row(k)
    BY <2>2, <2>7
  <2>9. Formed(operation', rows', 2, 2)
    <3>1. \A k \in DOMAIN rows' : \A m \in DOMAIN rows'[k] : rows'[k][m] \in Values(operation', m)
      <4> SUFFICES ASSUME NEW k \in DOMAIN rows', NEW m \in DOMAIN rows'[k]
                   PROVE  rows'[k][m] \in Values(operation', m)
        OBVIOUS
      <4>1. m = 1 \/ m = 2
        BY <2>5, <2>7, <2>8
      <4> QED
        BY <2>1, <2>5, <2>7, <2>8, <4>1
    <3>2. \A k \in DOMAIN rows' : Len(rows'[k]) = 2
      BY <2>5, <2>7, <2>8
    <3>3. \A k \in DOMAIN rows' : 2 <= Len(rows'[k]) /\ Len(rows'[k]) <= 2
      <4>1. 2 <= 2
        OBVIOUS
      <4> QED
        BY <3>2, <4>1, Zenon
    <3> QED
      BY <2>7, <3>1, <3>3, ZenonT(30) DEF Formed
  <2>10. Apart(rows')
    <3> SUFFICES ASSUME NEW j \in 1..size, NEW k \in 1..size, j # k
                 PROVE  \E m \in (DOMAIN rows'[j]) \cap (DOMAIN rows'[k]) : rows'[j][m] # rows'[k][m]
      BY <2>7, SMTT(30) DEF Apart
    <3>1. ~ (row(j)[1] = row(k)[1] /\ row(j)[2] = row(k)[2])
      <4> SUFFICES ASSUME row(j)[1] = row(k)[1], row(j)[2] = row(k)[2] PROVE FALSE
        OBVIOUS
      <4>1. j - 1 = k - 1
        BY <2>5
      <4> QED
        BY <2>4, <4>1
    <3>2. 1 \in DOMAIN row(j) /\ 2 \in DOMAIN row(j) /\ 1 \in DOMAIN row(k) /\ 2 \in DOMAIN row(k)
      BY <2>5
    <3>3. rows'[j] = row(j) /\ rows'[k] = row(k)
      BY <2>7, <2>8
    <3> QED
      BY <3>1, <3>2, <3>3
  <2>11. ASSUME size < limit' PROVE Full(operation', 2, rows')
    <3> SUFFICES ASSUME NEW i \in 1..2, NEW j \in 1..2, i < j,
                        NEW a \in Values(operation', i), NEW b \in Values(operation', j)
                 PROVE  <<i, a, j, b>> \in Covered(rows')
      BY DEF Full
    <3>1. i = 1 /\ j = 2
      OBVIOUS
    <3>2. a \in 1..L /\ b \in 1..R
      BY <2>1, <3>1
    <3> DEFINE k == (a - 1) * R + b
    <3>3. k \in 1..size /\ row(k) = <<a, b>>
      BY <2>4, <2>6, <2>11, <3>2
    <3> HIDE DEF k
    <3>4. rows'[k] = <<a, b>> /\ k \in DOMAIN rows'
      BY <2>7, <2>8, <3>3
    <3>5. /\ 1 \in DOMAIN rows'[k] /\ 2 \in DOMAIN rows'[k] /\ rows'[k][1] = a /\ rows'[k][2] = b
      BY <3>4
    <3>6. <<i, a, j, b>> \in RowPairs(rows'[k])
      BY <3>1, <3>5, PairsOfRow
    <3> QED
      BY <3>4, <3>6, PairsOfRows
  <2>12. width' \in 2..Len(Factors(operation'))
    BY <1>3, <2>1, <2>2 DEF n
  <2>13. Grown'
    BY <1>1, <2>2, <2>4, <2>7, <2>9, <2>10, <2>11, <2>12 DEF Grown
  <2> QED
    BY <1>1, <2>2, <2>13 DEF CoverInv
<1> QED
  BY <1>2, <1>3

\* The next factor is one that no row has yet.
LEMMA NextIsGrowing == CoverInv /\ NextFactor => CoverInv'
<1> SUFFICES ASSUME CoverInv, NextFactor PROVE CoverInv'
  OBVIOUS
<1>1. /\ phase = "grow" /\ width < Len(Factors(operation)) /\ width' = width + 1
      /\ uncovered' = RequiredPairsOf(Len(Factors(operation))) \ Covered(rows)
      /\ phase' = "add" /\ operation' = operation /\ limit' = limit /\ rows' = rows
  BY DEF NextFactor
<1>2. Grown /\ limit \in Nat \ {0}
  BY <1>1 DEF CoverInv
<1>3. Len(Factors(operation)) \in Nat /\ width \in Nat /\ 2 <= width
  BY <1>2, FactorsHaveValues DEF Grown
<1>4. width' \in 3..Len(Factors(operation)) /\ width' - 1 = width
  BY <1>1, <1>3
<1>5. Formed(operation, rows, width' - 1, width')
  <2>1. rows \in Seq(Seq(Nat)) /\ \A k \in DOMAIN rows : Len(rows[k]) = width
    BY <1>2, <1>3 DEF Grown, Formed
  <2>2. \A k \in DOMAIN rows : width' - 1 <= Len(rows[k]) /\ Len(rows[k]) <= width'
    BY <1>1, <1>3, <1>4, <2>1
  <2> QED
    BY <1>2, <2>1, <2>2 DEF Grown, Formed
<1>6. uncovered' = (RequiredPairsOf(Len(Factors(operation))) \ Covered(rows))'
  BY <1>1 DEF RequiredPairsOf, ValuesOf
<1>7. Growing'
  BY <1>1, <1>2, <1>4, <1>5, <1>6 DEF Grown, Growing
<1> QED
  BY <1>1, <1>2, <1>7 DEF CoverInv

\* A row has finitely many pairs, and rows of one length have the same bound.
LEMMA PairsAreFinite ==
    ASSUME NEW n \in Nat
    PROVE  \E most \in Nat : \A row : DOMAIN row = 1..n =>
                IsFiniteSet(RowPairs(row)) /\ Cardinality(RowPairs(row)) <= most
<1> DEFINE D == {q \in (1..n) \X (1..n) : q[1] < q[2]}
<1>1. IsFiniteSet(D) /\ Cardinality(D) \in Nat
  <2>1. IsFiniteSet(1..n)
    BY FS_Interval
  <2>2. IsFiniteSet((1..n) \X (1..n))
    BY <2>1, FS_Product
  <2>3. D \in SUBSET ((1..n) \X (1..n))
    OBVIOUS
  <2> QED
    BY <2>2, <2>3, FS_Subset, FS_CardinalityType
<1>2. ASSUME NEW row, DOMAIN row = 1..n
      PROVE  IsFiniteSet(RowPairs(row)) /\ Cardinality(RowPairs(row)) <= Cardinality(D)
  <2> DEFINE pair == [p \in D |-> <<p[1], row[p[1]], p[2], row[p[2]]>>]
  <2>1. RowPairs(row) = {<<p[1], row[p[1]], p[2], row[p[2]]>> : p \in D}
    BY <1>2 DEF RowPairs
  <2>2. pair \in Surjection(D, RowPairs(row))
    BY <2>1 DEF Surjection
  <2> HIDE DEF D, pair
  <2> QED
    BY <1>1, <2>2, FS_Surjection
<1> QED
  BY <1>1, <1>2

\* Among finitely often bounded gains there is a greatest, and a least value that has it.
LEMMA SomeValueIsBest ==
    ASSUME NEW V \in SUBSET Nat, V # {}, NEW gain \in [V -> Nat], NEW most \in Nat,
           \A v \in V : gain[v] <= most
    PROVE  \E v \in V : \A u \in V : gain[u] < gain[v] \/ (gain[u] = gain[v] /\ v <= u)
<1> DEFINE I == {most - gain[v] : v \in V}
<1>1. I \in SUBSET Nat /\ I # {}
  <2>1. \A v \in V : gain[v] \in Nat /\ gain[v] <= most
    OBVIOUS
  <2>2. \A v \in V : most - gain[v] \in Nat
    BY <2>1
  <2> QED
    BY <2>2
<1>2. PICK least \in I : \A other \in I : least <= other
  BY <1>1, HasLeast
<1>3. PICK g \in V : least = most - gain[g]
  BY <1>2
<1>4. \A u \in V : gain[u] <= gain[g]
  <2> TAKE u \in V
  <2>1. most - gain[u] \in I
    OBVIOUS
  <2>2. most - gain[g] <= most - gain[u]
    BY <1>2, <1>3, <2>1
  <2> QED
    BY <2>2
<1> DEFINE J == {v \in V : gain[v] = gain[g]}
<1>5. J \in SUBSET Nat /\ J # {}
  OBVIOUS
<1>6. PICK v \in J : \A other \in J : v <= other
  BY <1>5, HasLeast
<1>7. \A u \in V : gain[u] < gain[v] \/ (gain[u] = gain[v] /\ v <= u)
  BY <1>4, <1>6
<1> QED
  BY <1>6, <1>7

\* new is seq with its k-th row gone on as grown.
GoesOn(seq, k, grown, new) ==
    /\ seq \in Seq(Seq(Nat)) /\ k \in DOMAIN seq /\ grown \in Seq(Nat)
    /\ \A m \in DOMAIN seq[k] : m \in DOMAIN grown /\ grown[m] = seq[k][m]
    /\ new \in Seq(Seq(Nat)) /\ Len(new) = Len(seq) /\ DOMAIN new = DOMAIN seq /\ new[k] = grown
    /\ \A j \in DOMAIN seq : j # k => new[j] = seq[j]

\* A row that goes on as it was keeps the pairs it had.
LEMMA GrowthCovers ==
    ASSUME NEW seq, NEW k, NEW grown, NEW new, GoesOn(seq, k, grown, new), NEW x
    PROVE  x \in Covered(new) <=> x \in Covered(seq) \/ x \in RowPairs(grown)
<1>3. /\ new \in Seq(Seq(Nat)) /\ DOMAIN new = DOMAIN seq /\ seq \in Seq(Seq(Nat))
      /\ k \in DOMAIN seq /\ grown \in Seq(Nat)
      /\ new[k] = grown /\ \A j \in DOMAIN seq : j # k => new[j] = seq[j]
  BY DEF GoesOn
<1>4. \A j \in DOMAIN seq : \A m \in DOMAIN seq[j] : m \in DOMAIN new[j] /\ new[j][m] = seq[j][m]
  BY <1>3 DEF GoesOn
<1>7. ASSUME x \in Covered(new) PROVE x \in Covered(seq) \/ x \in RowPairs(grown)
  <2>1. PICK j \in DOMAIN new : x \in RowPairs(new[j])
    BY <1>7, PairsOfRows
  <2> QED
    BY <1>3, <2>1, PairsOfRows
<1>8. ASSUME x \in RowPairs(grown) PROVE x \in Covered(new)
  BY <1>3, <1>8, PairsOfRows
<1>9. ASSUME x \in Covered(seq) PROVE x \in Covered(new)
  <2>1. PICK j \in DOMAIN seq : x \in RowPairs(seq[j])
    BY <1>9, PairsOfRows
  <2>2. PICK l \in DOMAIN seq[j], m \in DOMAIN seq[j] : l < m /\ x = <<l, seq[j][l], m, seq[j][m]>>
    BY <2>1, PairsOfRow
  <2>3. x \in RowPairs(new[j])
    BY <1>4, <2>2, PairsOfRow
  <2> QED
    BY <1>3, <2>3, PairsOfRows
<1> QED
  BY <1>7, <1>8, <1>9


\* A row that grows stays apart from the others and keeps its pairs.
LEMMA GrowthKeepsRows ==
    ASSUME NEW op, NEW w \in Nat, NEW seq, Formed(op, seq, w - 1, w), Apart(seq), NEW k,
           NEW grown, NEW new, GoesOn(seq, k, grown, new),
           Len(grown) = w, Len(seq[k]) = w - 1, grown[w] \in Values(op, w)
    PROVE  Formed(op, new, w - 1, w) /\ Apart(new)
<1>1. /\ seq \in Seq(Seq(Nat)) /\ k \in DOMAIN seq /\ seq[k] \in Seq(Nat)
      /\ \A j \in DOMAIN seq : seq[j] \in Seq(Nat)
  BY DEF GoesOn
<1>2. /\ grown \in Seq(Nat) /\ Len(grown) = w /\ DOMAIN grown = 1..w
      /\ DOMAIN seq[k] = 1..(w - 1) /\ \A m \in 1..(w - 1) : grown[m] = seq[k][m]
      /\ w - 1 \in Nat /\ Len(seq[k]) = w - 1
  <2>1. w - 1 \in Nat /\ DOMAIN seq[k] = 1..(w - 1)
    BY <1>1
  <2>2. grown \in Seq(Nat) /\ Len(grown) = w /\ DOMAIN grown = 1..w
    BY DEF GoesOn
  <2>3. \A m \in 1..(w - 1) : grown[m] = seq[k][m]
    BY <2>1 DEF GoesOn
  <2> QED
    BY <2>1, <2>2, <2>3
<1>3. /\ new \in Seq(Seq(Nat)) /\ Len(new) = Len(seq) /\ DOMAIN new = DOMAIN seq
      /\ new[k] = grown /\ \A j \in DOMAIN seq : j # k => new[j] = seq[j]
  BY DEF GoesOn
<1>4. \A j \in DOMAIN seq : \A m \in DOMAIN seq[j] : m \in DOMAIN new[j] /\ new[j][m] = seq[j][m]
  BY <1>3 DEF GoesOn
<1>5. Formed(op, new, w - 1, w)
  <2>1. \A j \in DOMAIN new : w - 1 <= Len(new[j]) /\ Len(new[j]) <= w
    <3>1. \A j \in DOMAIN seq : w - 1 <= Len(seq[j]) /\ Len(seq[j]) <= w
      BY DEF Formed
    <3>2. w - 1 <= Len(new[k]) /\ Len(new[k]) <= w
      BY <1>2, <1>3
    <3>3. \A j \in DOMAIN new : j # k => w - 1 <= Len(new[j]) /\ Len(new[j]) <= w
      BY <1>3, <3>1
    <3> QED
      BY <3>2, <3>3
  <2>2. \A j \in DOMAIN new : \A m \in DOMAIN new[j] : new[j][m] \in Values(op, m)
    <3> SUFFICES ASSUME NEW j \in DOMAIN new, NEW m \in DOMAIN new[j]
                 PROVE  new[j][m] \in Values(op, m)
      OBVIOUS
    <3>1. \A i \in DOMAIN seq : \A l \in DOMAIN seq[i] : seq[i][l] \in Values(op, l)
      BY DEF Formed
    <3>2. CASE j # k
      BY <1>3, <3>1, <3>2
    <3>3. CASE j = k /\ m = w
      BY <1>2, <1>3, <3>3
    <3>4. CASE j = k /\ m # w
      <4>1. m \in 1..(w - 1)
        BY <1>2, <1>3, <3>4
      <4> QED
        BY <1>2, <1>3, <3>1, <3>4, <4>1
    <3> QED
      BY <3>2, <3>3, <3>4
  <2> QED
    BY <1>3, <2>1, <2>2 DEF Formed
<1>6. Apart(new)
  <2> SUFFICES ASSUME NEW i \in DOMAIN seq, NEW j \in DOMAIN seq, i # j
               PROVE  \E m \in (DOMAIN new[i]) \cap (DOMAIN new[j]) : new[i][m] # new[j][m]
    BY <1>3 DEF Apart
  <2>1. PICK m \in (DOMAIN seq[i]) \cap (DOMAIN seq[j]) : seq[i][m] # seq[j][m]
    BY DEF Apart
  <2> QED
    BY <1>4, <2>1
<1> QED
  BY <1>1, <1>2, <1>3, <1>5, <1>6

\* A new row with a pair that no row has is none of the rows.
LEMMA AdditionKeepsRows ==
    ASSUME NEW op \in OperationsToCover, NEW w \in 1..Len(Factors(op)), NEW seq,
           Formed(op, seq, w, w), Apart(seq),
           NEW i \in 1..w, i < w, NEW a \in Values(op, i), NEW b \in Values(op, w),
           <<i, a, w, b>> \notin Covered(seq),
           NEW row, row = [m \in 1..w |-> IF m = i THEN a ELSE IF m = w THEN b ELSE 1]
    PROVE  /\ Formed(op, Append(seq, row), w, w) /\ Apart(Append(seq, row))
           /\ \A x : x \in Covered(Append(seq, row)) <=> x \in Covered(seq) \/ x \in RowPairs(row)
           /\ <<i, a, w, b>> \in RowPairs(row)
<1> DEFINE new == Append(seq, row)
           n == Len(seq)
<1>1. w \in Nat /\ \A m \in 1..w : \E K \in Nat : K >= 2 /\ Values(op, m) = 1..K
  BY FactorsHaveValues
<1>2. \A m \in 1..w : row[m] \in Values(op, m) /\ row[m] \in Nat
  <2> TAKE m \in 1..w
  <2>1. PICK K \in Nat : K >= 2 /\ Values(op, m) = 1..K
    BY <1>1
  <2>2. row[m] \in Values(op, m)
    BY <2>1
  <2> QED
    BY <2>1, <2>2
<1>3. row \in Seq(Nat) /\ Len(row) = w /\ DOMAIN row = 1..w
  <2>1. row \in [1..w -> Nat]
    BY <1>2
  <2> QED
    BY <1>1, <2>1, FirstNumbers
<1>4. /\ seq \in Seq(Seq(Nat)) /\ n \in Nat /\ DOMAIN seq = 1..n
      /\ \A j \in DOMAIN seq : seq[j] \in Seq(Nat) /\ Len(seq[j]) = w /\ DOMAIN seq[j] = 1..w
      /\ \A j \in DOMAIN seq : \A m \in 1..w : seq[j][m] \in Values(op, m)
  <2>1. seq \in Seq(Seq(Nat)) /\ n \in Nat /\ DOMAIN seq = 1..n
    BY DEF Formed
  <2>2. \A j \in DOMAIN seq : seq[j] \in Seq(Nat) /\ Len(seq[j]) = w
    BY <1>1, <2>1 DEF Formed
  <2>3. \A j \in DOMAIN seq : DOMAIN seq[j] = 1..w
    BY <2>2
  <2> QED
    BY <2>1, <2>2, <2>3 DEF Formed
<1>5. /\ new \in Seq(Seq(Nat)) /\ DOMAIN new = 1..(n + 1) /\ new[n + 1] = row
      /\ \A j \in 1..n : new[j] = seq[j]
  BY <1>3, <1>4
<1>6. row[i] = a /\ row[w] = b /\ i \in DOMAIN row /\ w \in DOMAIN row
  BY <1>1, <1>3
<1> HIDE DEF new, n
<1>12. \A j \in 1..(n + 1) : j \in 1..n \/ j = n + 1
  BY <1>4
<1>7. Formed(op, new, w, w)
  <2>1. \A j \in DOMAIN new : Len(new[j]) = w /\ DOMAIN new[j] = 1..w
    BY <1>3, <1>4, <1>5, <1>12
  <2>2. \A j \in DOMAIN new : \A m \in 1..w : new[j][m] \in Values(op, m)
    BY <1>2, <1>4, <1>5, <1>12, Zenon
  <2>3. w <= w
    BY <1>1
  <2> QED
    BY <1>5, <2>1, <2>2, <2>3, Zenon DEF Formed
<1>8. \A j \in 1..n : \E m \in 1..w : seq[j][m] # row[m]
  <2> SUFFICES ASSUME NEW j \in 1..n, \A m \in 1..w : seq[j][m] = row[m]
               PROVE  FALSE
    OBVIOUS
  <2>1. seq[j][i] = a /\ seq[j][w] = b /\ i \in DOMAIN seq[j] /\ w \in DOMAIN seq[j]
    BY <1>1, <1>4, <1>6
  <2>2. <<i, a, w, b>> \in RowPairs(seq[j])
    BY <2>1, PairsOfRow
  <2> QED
    BY <1>4, <2>2, PairsOfRows
<1>9. Apart(new)
  <2> SUFFICES ASSUME NEW j \in 1..(n + 1), NEW k \in 1..(n + 1), j # k
               PROVE  \E m \in (DOMAIN new[j]) \cap (DOMAIN new[k]) : new[j][m] # new[k][m]
    BY <1>5 DEF Apart
  <2>1. DOMAIN new[j] = 1..w /\ DOMAIN new[k] = 1..w
    BY <1>3, <1>4, <1>5, <1>12
  <2>2. CASE j \in 1..n /\ k \in 1..n
    <3>1. \E m \in (DOMAIN seq[j]) \cap (DOMAIN seq[k]) : seq[j][m] # seq[k][m]
      <4>1. j \in DOMAIN seq /\ k \in DOMAIN seq
        BY <1>4, <2>2
      <4> QED
        BY <4>1, Zenon DEF Apart
    <3> QED
      BY <1>4, <1>5, <2>1, <2>2, <3>1
  <2>3. CASE j = n + 1 /\ k \in 1..n
    <3>1. PICK m \in 1..w : seq[k][m] # row[m]
      BY <1>8, <2>3
    <3> QED
      BY <1>5, <2>1, <2>3, <3>1
  <2>4. CASE j \in 1..n /\ k = n + 1
    <3>1. PICK m \in 1..w : seq[j][m] # row[m]
      BY <1>8, <2>4
    <3> QED
      BY <1>5, <2>1, <2>4, <3>1
  <2> QED
    BY <1>12, <2>2, <2>3, <2>4
<1>10. \A x : x \in Covered(new) <=> x \in Covered(seq) \/ x \in RowPairs(row)
  <2> TAKE x
  <2>1. x \in Covered(new) <=> \E k \in 1..(n + 1) : x \in RowPairs(new[k])
    BY <1>5, PairsOfRows
  <2>2. x \in Covered(seq) <=> \E k \in 1..n : x \in RowPairs(seq[k])
    BY <1>4, PairsOfRows
  <2>3. \A k \in 1..(n + 1) : k \in 1..n \/ k = n + 1
    BY <1>4
  <2>4. n + 1 \in 1..(n + 1) /\ \A k \in 1..n : k \in 1..(n + 1)
    BY <1>4
  <2> QED
    BY <1>5, <2>1, <2>2, <2>3, <2>4, Zenon
<1>11. <<i, a, w, b>> \in RowPairs(row)
  BY <1>6, PairsOfRow
<1> QED
  BY <1>7, <1>9, <1>10, <1>11 DEF new

\* What is covered stays covered.
LEMMA FullIsKept ==
    ASSUME NEW op, NEW n, NEW seq, NEW new, Full(op, n, seq),
           \A x : x \in Covered(seq) => x \in Covered(new)
    PROVE  Full(op, n, new)
  BY DEF Full

\* What the rows have is a function of the operation and the rows.
LEMMA GrowingOf ==
    ASSUME operation' = operation, limit' = limit, width' = width, Growing, limit \in Nat,
           Len(rows') <= limit, Formed(operation, rows', width - 1, width), Apart(rows'),
           Len(rows') < limit => Len(rows) < limit,
           NEW added,
           \A x : x \in Covered(rows') <=> x \in Covered(rows) \/ x \in added,
           uncovered' = uncovered \ added
    PROVE  Growing'
<1>1. Len(rows') < limit => Full(operation, width - 1, rows')
  BY FullIsKept DEF Growing
<1>2. uncovered' = RequiredPairsOf(Len(Factors(operation))) \ Covered(rows')
  <2> DEFINE required == RequiredPairsOf(Len(Factors(operation)))
             before == Covered(rows)
             after == Covered(rows')
  <2>1. uncovered = required \ before
    BY DEF Growing
  <2>2. \A x : x \in after <=> x \in before \/ x \in added
    OBVIOUS
  <2> HIDE DEF required, before, after
  <2>3. uncovered' = required \ after
    BY <2>1, <2>2
  <2> QED
    BY <2>3 DEF required, after
<1>3. RequiredPairsOf(Len(Factors(operation))) = RequiredPairsOf(Len(Factors(operation)))'
  BY DEF RequiredPairsOf, ValuesOf
<1>4. uncovered' = (RequiredPairsOf(Len(Factors(operation))) \ Covered(rows))'
  BY <1>2, <1>3 DEF Covered
<1> QED
  BY <1>1, <1>4 DEF Growing

\* A value that no other one covers more pairs than, or as many and is less.
IsBest(v, V, row, left) ==
    \A u \in V :
        \/ Cardinality(RowPairs(Append(row, u)) \cap left)
            < Cardinality(RowPairs(Append(row, v)) \cap left)
        \/ /\ Cardinality(RowPairs(Append(row, u)) \cap left)
                = Cardinality(RowPairs(Append(row, v)) \cap left)
           /\ v <= u

\* The value a row takes is one of the factor's.
LEMMA BestIsAValue ==
    ASSUME NEW n \in Nat, NEW V \in SUBSET Nat, V # {}, NEW row \in Seq(Nat), Len(row) = n,
           NEW left
    PROVE  \E v \in V : IsBest(v, V, row, left)
<1> DEFINE Gain(v) == Cardinality(RowPairs(Append(row, v)) \cap left)
           gain == [v \in V |-> Gain(v)]
<1>1. PICK most \in Nat : \A any : DOMAIN any = 1..(n + 1) =>
            IsFiniteSet(RowPairs(any)) /\ Cardinality(RowPairs(any)) <= most
  BY PairsAreFinite
<1>2. \A v \in V : DOMAIN Append(row, v) = 1..(n + 1)
  OBVIOUS
<1>3. \A v \in V : Gain(v) \in Nat /\ Gain(v) <= most
  <2> TAKE v \in V
  <2> DEFINE pairs == RowPairs(Append(row, v))
  <2>1. IsFiniteSet(pairs) /\ Cardinality(pairs) <= most
    BY <1>1, <1>2
  <2> HIDE DEF pairs
  <2>2. pairs \cap left \in SUBSET pairs
    OBVIOUS
  <2>3. /\ IsFiniteSet(pairs \cap left) /\ Cardinality(pairs \cap left) <= Cardinality(pairs)
    BY <2>1, <2>2, FS_Subset
  <2>4. Cardinality(pairs) \in Nat /\ Cardinality(pairs \cap left) \in Nat
    BY <2>1, <2>3, FS_CardinalityType
  <2>5. Cardinality(pairs \cap left) \in Nat /\ Cardinality(pairs \cap left) <= most
    BY <2>1, <2>3, <2>4
  <2> QED
    BY <2>5 DEF pairs
<1> HIDE DEF Gain
<1>4. gain \in [V -> Nat] /\ \A v \in V : gain[v] <= most
  BY <1>3
<1>5. PICK v \in V : \A u \in V : gain[u] < gain[v] \/ (gain[u] = gain[v] /\ v <= u)
  BY <1>4, SomeValueIsBest
<1>6. \A u \in V : Gain(u) < Gain(v) \/ (Gain(u) = Gain(v) /\ v <= u)
  BY <1>5
<1> QED
  BY <1>6 DEF Gain, IsBest

\* One row is given a value of the newest factor.
LEMMA OneRowGrows ==
    ASSUME operation' = operation, limit' = limit, width' = width, phase' = phase,
           Growing, limit \in Nat \ {0}, operation \in OperationsToCover, width \in Nat \ {0},
           Formed(operation, rows, width - 1, width), Apart(rows), Len(rows) <= limit,
           NEW k \in DOMAIN rows, rows[k] \in Seq(Nat), Len(rows[k]) = width - 1,
           NEW STATE v, v \in Nat, v \in Values(operation, width),
           NEW STATE grown, grown = Append(rows[k], v),
           rows' = [rows EXCEPT ![k] = grown], uncovered' = uncovered \ RowPairs(grown)
    PROVE  Growing'
<1>1. rows \in Seq(Seq(Nat)) /\ width \in Nat /\ width - 1 \in Nat
  BY DEF Formed
<1>2. /\ grown \in Seq(Nat) /\ Len(grown) = width /\ grown[width] = v
      /\ DOMAIN rows[k] = 1..(width - 1)
      /\ \A m \in DOMAIN rows[k] : m \in DOMAIN grown /\ grown[m] = rows[k][m]
  BY <1>1
<1>3. /\ rows' \in Seq(Seq(Nat)) /\ Len(rows') = Len(rows) /\ rows'[k] = grown
      /\ \A j \in DOMAIN rows : j # k => rows'[j] = rows[j]
  BY <1>1, <1>2
<1>4. GoesOn(rows, k, grown, rows')
  BY <1>1, <1>2, <1>3 DEF GoesOn
<1>5. Formed(operation, rows', width - 1, width) /\ Apart(rows')
  <2>1. grown[width] \in Values(operation, width)
    BY <1>2
  <2> QED
    BY <1>1, <1>2, <1>4, <2>1, GrowthKeepsRows
<1>6. \A x : x \in Covered(rows') <=> x \in Covered(rows) \/ x \in RowPairs(grown)
  BY <1>4, GrowthCovers
<1> QED
  BY <1>3, <1>5, <1>6, GrowingOf

\* One more row has a value of the factor.
LEMMA GrowthIsGrowing == CoverInv /\ GrowRow => CoverInv'
<1> SUFFICES ASSUME CoverInv, GrowRow PROVE CoverInv'
  OBVIOUS
<1>1. /\ Growing /\ limit \in Nat \ {0} /\ phase = "add" /\ operation \in OperationsToCover
      /\ operation' = operation /\ limit' = limit /\ width' = width /\ phase' = phase
  BY DEF CoverInv, GrowRow, Growing
<1>2. /\ width \in 3..Len(Factors(operation)) /\ width \in Nat \ {0}
      /\ Formed(operation, rows, width - 1, width) /\ Apart(rows) /\ Len(rows) <= limit
  BY <1>1, FactorsHaveValues DEF Growing
<1> DEFINE V == ValuesOf(width)
           Gain(k, v) == Cardinality(RowPairs(Append(rows[k], v)) \cap uncovered)
           Best(k, v) == \A u \in V : Gain(k, u) < Gain(k, v) \/ (Gain(k, u) = Gain(k, v) /\ v <= u)
<1>3. V \in SUBSET Nat /\ V # {} /\ V = Values(operation, width)
  <2>1. PICK K \in Nat : K >= 2 /\ Values(operation, width) = 1..K
    BY <1>1, <1>2, FactorsHaveValues
  <2>2. V = 1..K
    BY <2>1 DEF ValuesOf, Values
  <2>3. 1..K \in SUBSET Nat /\ 1 \in 1..K
    BY <2>1
  <2> HIDE DEF V
  <2> QED
    BY <2>1, <2>2, <2>3, Zenon
<1> HIDE DEF V
<1>4. PICK k \in Short :
        /\ rows' = [rows EXCEPT ![k] = Append(@, CHOOSE v \in V : Best(k, v))]
        /\ uncovered' = uncovered \ RowPairs(Append(rows[k], CHOOSE v \in V : Best(k, v)))
  BY DEF GrowRow, V
<1>5. k \in DOMAIN rows /\ rows[k] \in Seq(Nat) /\ Len(rows[k]) = width - 1
  <2>1. k \in DOMAIN rows /\ rows[k] \in Seq(Nat) /\ Len(rows[k]) < width /\ width - 1 <= Len(rows[k])
    BY <1>2, <1>4 DEF Short, Formed
  <2> QED
    BY <1>2, <2>1
<1>6. \E v \in V : Best(k, v)
  <2>1. width - 1 \in Nat
    BY <1>2
  <2>2. \E v \in V : IsBest(v, V, rows[k], uncovered)
    BY <1>3, <1>5, <2>1, BestIsAValue
  <2> QED
    BY <2>2 DEF IsBest
<1> DEFINE best == CHOOSE v \in V : Best(k, v)
<1>7. best \in V
  BY <1>6
<1>8. /\ rows' = [rows EXCEPT ![k] = Append(rows[k], best)]
      /\ uncovered' = uncovered \ RowPairs(Append(rows[k], best))
  BY <1>4
<1> HIDE DEF best, Best
<1>9. best \in Nat /\ best \in Values(operation, width)
  BY <1>3, <1>7
<1>10. Growing'
  BY <1>1, <1>2, <1>5, <1>8, <1>9, OneRowGrows
<1> QED
  BY <1>1, <1>10 DEF CoverInv

\* The rows that all have a value of the newest factor.
LEMMA AllHaveIt ==
    ASSUME Growing, Short = {}
    PROVE  Formed(operation, rows, width, width)
<1>1. width \in Nat /\ rows \in Seq(Seq(Nat))
  BY FactorsHaveValues DEF Growing, Formed
<1>2. \A k \in DOMAIN rows : Len(rows[k]) \in Nat /\ width <= Len(rows[k]) /\ Len(rows[k]) <= width
  <2> TAKE k \in DOMAIN rows
  <2>1. rows[k] \in Seq(Nat) /\ Len(rows[k]) <= width /\ ~ (Len(rows[k]) < width)
    BY <1>1 DEF Growing, Formed, Short
  <2> QED
    BY <1>1, <2>1
<1> QED
  BY <1>1, <1>2 DEF Growing, Formed

\* A row for a pair that is left.
LEMMA AdditionIsGrowing == CoverInv /\ AddRow => CoverInv'
<1> SUFFICES ASSUME CoverInv, AddRow PROVE CoverInv'
  OBVIOUS
<1> DEFINE pair == CHOOSE p \in Relevant : TRUE
           row == [i \in 1..width |->
                    IF i = pair[1] THEN pair[2] ELSE IF i = pair[3] THEN pair[4] ELSE 1]
<1>1. /\ Growing /\ limit \in Nat \ {0} /\ phase = "add" /\ operation \in OperationsToCover
      /\ operation' = operation /\ limit' = limit /\ width' = width /\ phase' = phase
      /\ Short = {} /\ Relevant # {} /\ Len(rows) < limit
      /\ rows' = Append(rows, row) /\ uncovered' = uncovered \ RowPairs(row)
  BY DEF CoverInv, AddRow, Growing
<1>2. /\ width \in 3..Len(Factors(operation)) /\ width \in 1..Len(Factors(operation))
      /\ Len(Factors(operation)) \in Nat
      /\ Formed(operation, rows, width, width) /\ Apart(rows)
      /\ uncovered = RequiredPairsOf(Len(Factors(operation))) \ Covered(rows)
  BY <1>1, FactorsHaveValues, AllHaveIt DEF Growing
<1>3. pair \in Relevant
  BY <1>1
<1>4. pair \in uncovered /\ pair[3] = width
  BY <1>3 DEF Relevant
<1> HIDE DEF pair
<1>5. PICK i \in 1..Len(Factors(operation)), j \in 1..Len(Factors(operation)) : i < j /\
        \E a \in Values(operation, i), b \in Values(operation, j) : pair = <<i, a, j, b>>
  BY <1>2, <1>4, PairsToCover
<1>6. PICK a \in Values(operation, i), b \in Values(operation, j) : pair = <<i, a, j, b>>
  BY <1>5
<1>7. j = width /\ i \in 1..width /\ i < width
  BY <1>2, <1>4, <1>5, <1>6
<1>8. row = [m \in 1..width |-> IF m = i THEN a ELSE IF m = width THEN b ELSE 1]
  BY <1>6, <1>7
<1>9. <<i, a, width, b>> \notin Covered(rows)
  BY <1>2, <1>4, <1>6, <1>7
<1> HIDE DEF row
<1>10. /\ Formed(operation, Append(rows, row), width, width) /\ Apart(Append(rows, row))
       /\ \A x : x \in Covered(Append(rows, row)) <=> x \in Covered(rows) \/ x \in RowPairs(row)
  BY <1>1, <1>2, <1>6, <1>7, <1>8, <1>9, AdditionKeepsRows
<1>11. Formed(operation, rows', width - 1, width)
  <2>1. rows' \in Seq(Seq(Nat)) /\ \A k \in DOMAIN rows' : width <= Len(rows'[k]) /\ Len(rows'[k]) <= width
    BY <1>1, <1>10 DEF Formed
  <2>2. \A k \in DOMAIN rows' : Len(rows'[k]) \in Nat
    BY <2>1
  <2>3. \A k \in DOMAIN rows' : width - 1 <= Len(rows'[k])
    BY <1>2, <2>1, <2>2
  <2> QED
    BY <1>1, <1>10, <2>1, <2>3 DEF Formed
<1>12. Len(rows') = Len(rows) + 1 /\ Len(rows) \in Nat
  BY <1>1, <1>2 DEF Formed
<1>13. Len(rows') <= limit /\ (Len(rows') < limit => Len(rows) < limit)
  BY <1>1, <1>12
<1>14. /\ Apart(rows')
       /\ \A x : x \in Covered(rows') <=> x \in Covered(rows) \/ x \in RowPairs(row)
  BY <1>1, <1>10
<1>15. limit \in Nat
  BY <1>1
<1>16. Growing'
  BY <1>1, <1>11, <1>13, <1>14, <1>15, GrowingOf, Zenon
<1> QED
  BY <1>1, <1>16 DEF CoverInv

\* No pair of the newest factor is left, or there are as many rows as may be.
LEMMA EndIsGrown == CoverInv /\ EndFactor => CoverInv'
<1> SUFFICES ASSUME CoverInv, EndFactor PROVE CoverInv'
  OBVIOUS
<1>1. /\ Growing /\ limit \in Nat \ {0} /\ operation \in OperationsToCover /\ Short = {}
      /\ Relevant = {} \/ Len(rows) >= limit
      /\ phase' = "grow" /\ UNCHANGED <<operation, limit, rows, width, uncovered>>
  BY DEF CoverInv, EndFactor, Growing
<1>2. /\ width \in 3..Len(Factors(operation)) /\ width \in 2..Len(Factors(operation))
      /\ Len(Factors(operation)) \in Nat /\ width \in Nat
      /\ Formed(operation, rows, width, width) /\ Apart(rows) /\ Len(rows) \in Nat
      /\ uncovered = RequiredPairsOf(Len(Factors(operation))) \ Covered(rows)
  BY <1>1, FactorsHaveValues, AllHaveIt DEF Growing, Formed
<1>3. ASSUME Len(rows) < limit PROVE Full(operation, width, rows)
  <2>1. Relevant = {}
    BY <1>1, <1>2, <1>3
  <2> SUFFICES ASSUME NEW i \in 1..width, NEW j \in 1..width, i < j,
                      NEW a \in Values(operation, i), NEW b \in Values(operation, j)
               PROVE  <<i, a, j, b>> \in Covered(rows)
    BY DEF Full
  <2>2. CASE j = width
    <3> DEFINE p == <<i, a, j, b>>
    <3>1. p \in RequiredPairsOf(Len(Factors(operation)))
      <4>1. i \in 1..Len(Factors(operation)) /\ j \in 1..Len(Factors(operation))
        BY <1>2
      <4> QED
        BY <4>1, PairsToCover
    <3>2. p[3] = width
      BY <2>2
    <3> HIDE DEF p
    <3>3. p \notin uncovered
      BY <2>1, <3>2 DEF Relevant
    <3> QED
      BY <1>2, <3>1, <3>3 DEF p
  <2>3. CASE j # width
    <3>1. i \in 1..(width - 1) /\ j \in 1..(width - 1)
      BY <1>2, <2>3
    <3> QED
      BY <1>1, <1>3, <3>1 DEF Growing, Full
  <2> QED
    BY <2>2, <2>3
<1>4. Grown'
  BY <1>1, <1>2, <1>3 DEF Growing, Grown
<1> QED
  BY <1>1, <1>4 DEF CoverInv

\* No row is cut off at the end.
LEMMA FinishedIsGrown == CoverInv /\ Finish => CoverInv'
<1> SUFFICES ASSUME CoverInv, Finish PROVE CoverInv'
  OBVIOUS
<1>1. /\ Grown /\ limit \in Nat \ {0} /\ phase' = "done" /\ width = Len(Factors(operation))
      /\ rows' = SubSeq(rows, 1, Smaller(Len(rows), limit))
      /\ UNCHANGED <<operation, limit, width, uncovered>>
  BY DEF CoverInv, Finish
<1>2. rows \in Seq(Seq(Nat)) /\ Len(rows) \in Nat /\ Len(rows) <= limit
  BY <1>1 DEF Grown, Formed
<1>3. rows' = rows
  <2>1. Smaller(Len(rows), limit) = Len(rows)
    BY <1>1, <1>2 DEF Smaller
  <2> QED
    BY <1>1, <1>2, <2>1
<1>4. Grown'
  BY <1>1, <1>3 DEF Grown
<1> QED
  BY <1>1, <1>4 DEF CoverInv

\* No row is there at first.
LEMMA InitCoverInv == CaseInit => CoverInv
  BY DEF CaseInit, CoverInv

\* Every step keeps what the rows have.
LEMMA NextCoverInv == CoverInv /\ [CaseNext]_caseVars => CoverInv'
<1>1. CASE CoverInv /\ UNCHANGED caseVars
  BY <1>1 DEF caseVars, CoverInv, Grown, Growing, RequiredPairsOf, ValuesOf
<1> QED
  BY <1>1, ChosenIsCovered, NextIsGrowing, GrowthIsGrowing, AdditionIsGrowing, EndIsGrown,
     FinishedIsGrown DEF CaseNext

\* Rows that are apart are as many as their set.
LEMMA ApartAreDistinct ==
    ASSUME NEW seq, NEW S, seq \in Seq(S), Apart(seq)
    PROVE  Cardinality(ToSet(seq)) = Len(seq)
<1>1. Len(seq) \in Nat /\ DOMAIN seq = 1..Len(seq)
  OBVIOUS
<1>2. \A j, k \in DOMAIN seq : j # k => seq[j] # seq[k]
  BY DEF Apart
<1>3. seq \in Injection(1..Len(seq), ToSet(seq)) /\ seq \in Surjection(1..Len(seq), ToSet(seq))
  <2>1. ToSet(seq) = {seq[i] : i \in 1..Len(seq)}
    BY <1>1 DEF ToSet
  <2>2. seq \in [1..Len(seq) -> ToSet(seq)]
    BY <1>1, <2>1
  <2> QED
    BY <1>1, <1>2, <2>1, <2>2 DEF Injection, Surjection, IsInjective
<1>4. IsFiniteSet(1..Len(seq)) /\ Cardinality(1..Len(seq)) = Len(seq)
  BY <1>1, FS_Interval
<1> QED
  BY <1>3, <1>4, FS_Surjection

\* Every pair is covered as long as the limit leaves room.
THEOREM CoveringIsAlwaysComplete == CaseSpec => []CoveringIsComplete
<1>1. CoverInv => CoveringIsComplete
  <2> SUFFICES ASSUME CoverInv, phase = "done", width >= 2
               PROVE  /\ Len(rows) <= limit
                      /\ Cardinality(ToSet(rows)) = Len(rows)
                      /\ Len(rows) < limit => RequiredPairsOf(width) \subseteq Covered(rows)
                      /\ \A row \in ToSet(rows) : \A i \in DOMAIN operation.fields :
                            i \in ToSet(Factors(operation)) /\ operation.fields[i].location # "cookie" =>
                                \/ RowRequest(row)[i] = Absent /\ ~ operation.fields[i].required
                                \/ Allows(operation.fields[i].schema, RowRequest(row)[i])
    BY DEF CoveringIsComplete
  <2>1. /\ Grown /\ operation \in OperationsToCover /\ rows \in Seq(Seq(Nat)) /\ Len(rows) <= limit
        /\ width \in 2..Len(Factors(operation)) /\ Formed(operation, rows, width, width)
    BY DEF CoverInv, Grown, Formed
  <2>2. Cardinality(ToSet(rows)) = Len(rows)
    BY <2>1, ApartAreDistinct DEF Grown
  <2>3. ASSUME Len(rows) < limit PROVE RequiredPairsOf(width) \subseteq Covered(rows)
    <3> SUFFICES ASSUME NEW x \in RequiredPairsOf(width) PROVE x \in Covered(rows)
      OBVIOUS
    <3> QED
      BY <2>1, <2>3, PairsToCover DEF Grown, Full
  <2>4. ASSUME NEW row \in ToSet(rows), NEW i \in DOMAIN operation.fields,
               i \in ToSet(Factors(operation)), operation.fields[i].location # "cookie"
        PROVE  \/ RowRequest(row)[i] = Absent /\ ~ operation.fields[i].required
               \/ Allows(operation.fields[i].schema, RowRequest(row)[i])
    <3> DEFINE factors == Factors(operation)
               f == CHOOSE m \in DOMAIN factors : factors[m] = i
               values == FactorValues(operation.fields[i])
    <3>1. f \in DOMAIN factors /\ factors[f] = i
      BY <2>4 DEF ToSet
    <3>2. RowRequest(row)[i] = values[row[f]]
      BY <2>4 DEF RowRequest
    <3> HIDE DEF f
    <3>3. row[f] \in Values(operation, f)
      <4>1. PICK k \in DOMAIN rows : row = rows[k]
        BY <2>4 DEF ToSet
      <4>2. row \in Seq(Nat) /\ width <= Len(row) /\ Len(row) <= width
        BY <2>1, <4>1 DEF Formed
      <4>3. width = Len(factors) /\ Len(factors) \in Nat /\ DOMAIN factors = 1..Len(factors)
        BY <2>1, FactorsAreVaried DEF CoverInv
      <4>4. f \in DOMAIN row
        BY <3>1, <4>2, <4>3
      <4> QED
        BY <2>1, <4>1, <4>4 DEF Formed
    <3>4. row[f] \in DOMAIN values
      BY <3>1, <3>3 DEF Values
    <3>5. IsSchema(operation.fields[i].schema)
      BY <2>1, <3>1, FactorsAreVaried
    <3> QED
      BY <3>2, <3>4, <3>5, FactorValuesAllowed
  <2> QED
    BY <2>1, <2>2, <2>3, <2>4
<1> QED
  BY <1>1, InitCoverInv, NextCoverInv, PTL DEF CaseSpec

-----------------------------------------------------------------------------
(* What is found round by round.                                           *)

\* What is true of 0 and carries over from one number to the next is true of all.
LEMMA Induct ==
    ASSUME NEW N \in Nat, NEW G, 0 \in G, \A n \in 1..N : n - 1 \in G => n \in G
    PROVE  \A n \in 0..N : n \in G
<1> DEFINE B == {n \in 0..N : n \notin G}
<1> SUFFICES ASSUME B # {} PROVE FALSE
  OBVIOUS
<1>1. B \in SUBSET Nat
  OBVIOUS
<1>2. PICK m \in B : \A n \in B : m <= n
  <2> HIDE DEF B
  <2> QED
    BY <1>1, HasLeast
<1>3. m \in 1..N /\ m - 1 \in 0..N /\ ~ (m <= m - 1)
  <2>1. m \in 0..N /\ m # 0
    OBVIOUS
  <2> QED
    BY <2>1
<1>4. m - 1 \in G
  BY <1>2, <1>3
<1> QED
  BY <1>3, <1>4

\* The rounds of the search for paths are those its definition asks for.
LEMMA ExtensionIsSolved ==
    ASSUME NEW d, Len(StateNames) \in Nat
    PROVE  Extension(d) = [n \in 0..Len(StateNames) |->
                IF n = 0 THEN [paths |-> [s \in {d.initial} |-> <<>>], pending |-> <<d.initial>>]
                ELSE Extend(d, Extension(d)[n - 1])]
<1> DEFINE N == Len(StateNames)
           first == [paths |-> [s \in {d.initial} |-> <<>>], pending |-> <<d.initial>>]
           Solves(g, n) == g = [k \in 0..n |-> IF k = 0 THEN first ELSE Extend(d, g[k - 1])]
           G == {n \in 0..N : \E g : Solves(g, n)}
<1> HIDE DEF first
<1>1. 0 \in G
  <2> DEFINE h == [k \in 0..0 |-> first]
  <2>1. \A k \in 0..0 : h[k] = IF k = 0 THEN first ELSE Extend(d, h[k - 1])
    OBVIOUS
  <2>2. h = [k \in 0..0 |-> IF k = 0 THEN first ELSE Extend(d, h[k - 1])]
    <3> HIDE DEF h
    <3>1. h = [k \in 0..0 |-> h[k]]
      BY DEF h
    <3> QED
      BY <2>1, <3>1
  <2>3. Solves(h, 0)
    <3> HIDE DEF h
    <3> QED
      BY <2>2
  <2>4. \E g : Solves(g, 0)
    <3> HIDE DEF h, Solves
    <3> QED
      BY <2>3
  <2> HIDE DEF Solves
  <2> QED
    BY <2>4
<1>2. \A n \in 1..N : n - 1 \in G => n \in G
  <2> SUFFICES ASSUME NEW n \in 1..N, n - 1 \in G PROVE \E g : Solves(g, n)
    OBVIOUS
  <2>1. PICK g : Solves(g, n - 1)
    OBVIOUS
  <2> DEFINE h == [k \in 0..n |-> IF k = n THEN Extend(d, g[n - 1]) ELSE g[k]]
  <2>2. \A k \in 0..n : h[k] = IF k = 0 THEN first ELSE Extend(d, h[k - 1])
    <3> TAKE k \in 0..n
    <3>1. CASE k = n
      BY <3>1
    <3>2. CASE k # n
      <4>1. k \in 0..(n - 1) /\ (k # 0 => k - 1 \in 0..n /\ k - 1 # n)
        BY <3>2
      <4>2. g[k] = IF k = 0 THEN first ELSE Extend(d, g[k - 1])
        BY <2>1, <4>1
      <4> QED
        BY <3>2, <4>1, <4>2
    <3> QED
      BY <3>1, <3>2
  <2>3. Solves(h, n)
    BY <2>2
  <2> QED
    BY <2>3
<1>3. N \in G
  <2>1. N \in 0..N
    OBVIOUS
  <2> HIDE DEF G
  <2> QED
    BY <1>1, <1>2, <2>1, Induct
<1>4. \E g : Solves(g, N)
  BY <1>3
<1>5. Extension(d) = CHOOSE g : Solves(g, N)
  BY DEF Extension, first
<1> QED
  BY <1>4, <1>5 DEF first

\* Read one by one.
LEMMA ExtensionRounds ==
    ASSUME NEW d, Len(StateNames) \in Nat
    PROVE  /\ Extension(d)[0] = [paths |-> [s \in {d.initial} |-> <<>>], pending |-> <<d.initial>>]
           /\ \A n \in 1..Len(StateNames) : Extension(d)[n] = Extend(d, Extension(d)[n - 1])
<1> DEFINE N == Len(StateNames)
           x == Extension(d)
           first == [paths |-> [s \in {d.initial} |-> <<>>], pending |-> <<d.initial>>]
<1>1. x = [n \in 0..N |-> IF n = 0 THEN first ELSE Extend(d, x[n - 1])]
  BY ExtensionIsSolved
<1> HIDE DEF x
<1>2. ASSUME NEW n \in 0..N PROVE x[n] = IF n = 0 THEN first ELSE Extend(d, x[n - 1])
  BY <1>1, Zenon
<1>3. 0 \in 0..N /\ \A n \in 1..N : n \in 0..N /\ n # 0
  OBVIOUS
<1> QED
  BY <1>2, <1>3 DEF x

\* The states that the handlers of a state lead to.
Leads(d, s) == {h.next : h \in Transitions(d, s)}

\* The states a walk reaches are found step by step.
LEMMA WalkIsSolved ==
    ASSUME NEW d, NEW n \in Nat
    PROVE  \E g : /\ g = [k \in 0..n |-> IF k = 0 THEN {d.initial}
                                         ELSE UNION {Leads(d, s) : s \in g[k - 1]}]
                  /\ Walked(d, n) = g[n]
<1> DEFINE Step(x) == UNION {Leads(d, s) : s \in x}
           Solves(g, m) == g = [k \in 0..m |-> IF k = 0 THEN {d.initial} ELSE Step(g[k - 1])]
           G == {m \in 0..n : \E g : Solves(g, m)}
<1>0. Walked(d, n) = (CHOOSE g : Solves(g, n))[n]
  BY DEF Walked, Leads
<1> HIDE DEF Step
<1>1. 0 \in G
  <2> DEFINE h == [k \in 0..0 |-> {d.initial}]
  <2>1. \A k \in 0..0 : h[k] = IF k = 0 THEN {d.initial} ELSE Step(h[k - 1])
    OBVIOUS
  <2>2. h = [k \in 0..0 |-> IF k = 0 THEN {d.initial} ELSE Step(h[k - 1])]
    <3> HIDE DEF h
    <3>1. h = [k \in 0..0 |-> h[k]]
      BY DEF h
    <3> QED
      BY <2>1, <3>1
  <2>3. Solves(h, 0)
    <3> HIDE DEF h
    <3> QED
      BY <2>2
  <2>4. \E g : Solves(g, 0)
    <3> HIDE DEF h, Solves
    <3> QED
      BY <2>3
  <2> HIDE DEF Solves
  <2> QED
    BY <2>4
<1>2. \A m \in 1..n : m - 1 \in G => m \in G
  <2> SUFFICES ASSUME NEW m \in 1..n, m - 1 \in G PROVE \E g : Solves(g, m)
    <3> HIDE DEF Solves
    <3> QED
      OBVIOUS
  <2>1. PICK g : Solves(g, m - 1)
    <3> HIDE DEF Solves
    <3> QED
      OBVIOUS
  <2> DEFINE h == [k \in 0..m |-> IF k = m THEN Step(g[m - 1]) ELSE g[k]]
  <2>2. \A k \in 0..m : h[k] = IF k = 0 THEN {d.initial} ELSE Step(h[k - 1])
    <3> TAKE k \in 0..m
    <3>1. CASE k = m
      BY <3>1
    <3>2. CASE k # m
      <4>1. k \in 0..(m - 1) /\ (k # 0 => k - 1 \in 0..m /\ k - 1 # m)
        BY <3>2
      <4>2. g[k] = IF k = 0 THEN {d.initial} ELSE Step(g[k - 1])
        BY <2>1, <4>1
      <4> QED
        BY <3>2, <4>1, <4>2
    <3> QED
      BY <3>1, <3>2
  <2>3. Solves(h, m)
    BY <2>2
  <2> QED
    BY <2>3
<1>3. n \in G
  <2>1. n \in 0..n
    OBVIOUS
  <2> HIDE DEF G
  <2> QED
    BY <1>1, <1>2, <2>1, Induct
<1>4. \E g : Solves(g, n)
  BY <1>3
<1>5. Solves(CHOOSE g : Solves(g, n), n)
  <2> HIDE DEF Solves
  <2> QED
    BY <1>4
<1> QED
  <2> DEFINE g == CHOOSE f : Solves(f, n)
  <2>1. Solves(g, n) /\ Walked(d, n) = g[n]
    BY <1>0, <1>5
  <2> HIDE DEF g
  <2> QED
    BY <2>1 DEF Step

\* A walk of no step stays at the initial state, a longer one goes on from a shorter one.
LEMMA WalksGoOn ==
    ASSUME NEW d, NEW n \in Nat
    PROVE  /\ Walked(d, 0) = {d.initial}
           /\ Walked(d, n + 1) = UNION {Leads(d, s) : s \in Walked(d, n)}
<1> DEFINE Step(x) == UNION {Leads(d, s) : s \in x}
           Solves(g, m) == g = [k \in 0..m |-> IF k = 0 THEN {d.initial} ELSE Step(g[k - 1])]
<1>1. \A m \in Nat : \E g : Solves(g, m) /\ Walked(d, m) = g[m]
  BY WalkIsSolved
<1> HIDE DEF Step
<1>0. ASSUME NEW g, NEW m \in Nat, Solves(g, m), NEW k \in 0..m
      PROVE  g[k] = IF k = 0 THEN {d.initial} ELSE Step(g[k - 1])
  BY <1>0
<1>2. Walked(d, 0) = {d.initial}
  <2>1. PICK g : Solves(g, 0) /\ Walked(d, 0) = g[0]
    BY <1>1
  <2> QED
    BY <2>1
<1>3. PICK f : Solves(f, n) /\ Walked(d, n) = f[n]
  <2> HIDE DEF Solves
  <2> QED
    BY <1>1
<1>4. PICK g : Solves(g, n + 1) /\ Walked(d, n + 1) = g[n + 1]
  <2>1. n + 1 \in Nat
    OBVIOUS
  <2> HIDE DEF Solves
  <2> QED
    BY <1>1, <2>1
<1> HIDE DEF Solves
<1> DEFINE G == {k \in 0..n : f[k] = g[k]}
<1>5. /\ f[0] = {d.initial} /\ \A k \in 1..n : f[k] = Step(f[k - 1])
      /\ g[0] = {d.initial} /\ \A k \in 1..(n + 1) : g[k] = Step(g[k - 1])
  <2>1. 0 \in 0..n /\ 0 \in 0..(n + 1)
    OBVIOUS
  <2>2. f[0] = {d.initial} /\ \A k \in 1..n : f[k] = Step(f[k - 1])
    <3>1. \A k \in 0..n : f[k] = IF k = 0 THEN {d.initial} ELSE Step(f[k - 1])
      BY <1>0, <1>3
    <3>2. \A k \in 1..n : k \in 0..n /\ k # 0
      OBVIOUS
    <3> QED
      BY <2>1, <3>1, <3>2
  <2>3. g[0] = {d.initial} /\ \A k \in 1..(n + 1) : g[k] = Step(g[k - 1])
    <3>1. \A k \in 0..(n + 1) : g[k] = IF k = 0 THEN {d.initial} ELSE Step(g[k - 1])
      BY <1>0, <1>4
    <3>2. \A k \in 1..(n + 1) : k \in 0..(n + 1) /\ k # 0
      OBVIOUS
    <3> QED
      BY <2>1, <3>1, <3>2
  <2> QED
    BY <2>2, <2>3
<1>6. 0 \in G
  <2>1. 0 \in 0..n /\ f[0] = g[0]
    BY <1>5
  <2> QED
    BY <2>1
<1>7. \A k \in 1..n : k - 1 \in G => k \in G
  <2> SUFFICES ASSUME NEW k \in 1..n, k - 1 \in G PROVE f[k] = g[k]
    OBVIOUS
  <2>1. k \in 1..(n + 1) /\ f[k - 1] = g[k - 1]
    OBVIOUS
  <2> HIDE DEF G
  <2> QED
    BY <1>5, <2>1
<1>8. f[n] = g[n]
  <2>1. n \in 0..n
    OBVIOUS
  <2>2. n \in G
    <3> HIDE DEF G
    <3> QED
      BY <1>6, <1>7, <2>1, Induct
  <2> QED
    BY <2>2
<1> HIDE DEF G
<1>9. g[n + 1] = Step(g[n])
  <2>1. n + 1 \in 1..(n + 1) /\ (n + 1) - 1 = n
    OBVIOUS
  <2> QED
    BY <1>5, <2>1
<1>10. Walked(d, n + 1) = Step(Walked(d, n))
  BY <1>3, <1>4, <1>8, <1>9
<1> QED
  BY <1>2, <1>10 DEF Step

\* The rounds of the other search are those its definition asks for.
LEMMA ExplorationIsSolved ==
    ASSUME NEW d, Len(StateNames) \in Nat
    PROVE  Exploration(d) = [n \in 0..Len(StateNames) |->
                IF n = 0 THEN [reachable |-> {d.initial}, frontier |-> <<d.initial>>]
                ELSE Explore(d, Exploration(d)[n - 1])]
<1> DEFINE N == Len(StateNames)
           first == [reachable |-> {d.initial}, frontier |-> <<d.initial>>]
           Solves(g, n) == g = [k \in 0..n |-> IF k = 0 THEN first ELSE Explore(d, g[k - 1])]
           G == {n \in 0..N : \E g : Solves(g, n)}
<1> HIDE DEF first
<1>1. 0 \in G
  <2> DEFINE h == [k \in 0..0 |-> first]
  <2>1. \A k \in 0..0 : h[k] = IF k = 0 THEN first ELSE Explore(d, h[k - 1])
    OBVIOUS
  <2>2. h = [k \in 0..0 |-> IF k = 0 THEN first ELSE Explore(d, h[k - 1])]
    <3> HIDE DEF h
    <3>1. h = [k \in 0..0 |-> h[k]]
      BY DEF h
    <3> QED
      BY <2>1, <3>1
  <2>3. Solves(h, 0)
    <3> HIDE DEF h
    <3> QED
      BY <2>2
  <2>4. \E g : Solves(g, 0)
    <3> HIDE DEF h, Solves
    <3> QED
      BY <2>3
  <2> HIDE DEF Solves
  <2> QED
    BY <2>4
<1>2. \A n \in 1..N : n - 1 \in G => n \in G
  <2> SUFFICES ASSUME NEW n \in 1..N, n - 1 \in G PROVE \E g : Solves(g, n)
    OBVIOUS
  <2>1. PICK g : Solves(g, n - 1)
    OBVIOUS
  <2> DEFINE h == [k \in 0..n |-> IF k = n THEN Explore(d, g[n - 1]) ELSE g[k]]
  <2>2. \A k \in 0..n : h[k] = IF k = 0 THEN first ELSE Explore(d, h[k - 1])
    <3> TAKE k \in 0..n
    <3>1. CASE k = n
      BY <3>1
    <3>2. CASE k # n
      <4>1. k \in 0..(n - 1) /\ (k # 0 => k - 1 \in 0..n /\ k - 1 # n)
        BY <3>2
      <4>2. g[k] = IF k = 0 THEN first ELSE Explore(d, g[k - 1])
        BY <2>1, <4>1
      <4> QED
        BY <3>2, <4>1, <4>2
    <3> QED
      BY <3>1, <3>2
  <2>3. Solves(h, n)
    BY <2>2
  <2> QED
    BY <2>3
<1>3. N \in G
  <2>1. N \in 0..N
    OBVIOUS
  <2> HIDE DEF G
  <2> QED
    BY <1>1, <1>2, <2>1, Induct
<1>4. \E g : Solves(g, N)
  BY <1>3
<1>5. Exploration(d) = CHOOSE g : Solves(g, N)
  BY DEF Exploration, first
<1> QED
  BY <1>4, <1>5 DEF first

\* Read one by one.
LEMMA ExplorationRounds ==
    ASSUME NEW d, Len(StateNames) \in Nat
    PROVE  /\ Exploration(d)[0] = [reachable |-> {d.initial}, frontier |-> <<d.initial>>]
           /\ \A n \in 1..Len(StateNames) : Exploration(d)[n] = Explore(d, Exploration(d)[n - 1])
<1> DEFINE N == Len(StateNames)
           x == Exploration(d)
           first == [reachable |-> {d.initial}, frontier |-> <<d.initial>>]
<1>1. x = [n \in 0..N |-> IF n = 0 THEN first ELSE Explore(d, x[n - 1])]
  BY ExplorationIsSolved
<1> HIDE DEF x
<1>2. ASSUME NEW n \in 0..N PROVE x[n] = IF n = 0 THEN first ELSE Explore(d, x[n - 1])
  BY <1>1, Zenon
<1>3. 0 \in 0..N /\ \A n \in 1..N : n \in 0..N /\ n # 0
  OBVIOUS
<1> QED
  BY <1>2, <1>3 DEF x

-----------------------------------------------------------------------------
(* Lists joined to one.                                                    *)

\* Joining lists adds one after the other.
LEMMA JoiningIsSolved ==
    ASSUME NEW seqs, Len(seqs) \in Nat \ {0}
    PROVE  \E f : /\ \A i \in 1..Len(seqs) :
                        f[i] = IF i = 1 THEN seqs[i] ELSE f[i - 1] \o seqs[i]
                  /\ FlattenSeq(seqs) = f[Len(seqs)]
<1> DEFINE N == Len(seqs)
           Solves(g, n) == g = [i \in 1..n |-> IF i = 1 THEN seqs[i] ELSE g[i - 1] \o seqs[i]]
           G == {n \in 0..N : \E g : Solves(g, n)}
<1>1. 0 \in G
  <2> DEFINE h == [i \in 1..0 |-> seqs]
  <2>1. \A i \in 1..0 : h[i] = IF i = 1 THEN seqs[i] ELSE h[i - 1] \o seqs[i]
    OBVIOUS
  <2>2. h = [i \in 1..0 |-> IF i = 1 THEN seqs[i] ELSE h[i - 1] \o seqs[i]]
    <3> HIDE DEF h
    <3>1. h = [i \in 1..0 |-> h[i]]
      BY DEF h
    <3> QED
      BY <2>1, <3>1
  <2>3. Solves(h, 0)
    <3> HIDE DEF h
    <3> QED
      BY <2>2
  <2>4. \E g : Solves(g, 0)
    <3> HIDE DEF h, Solves
    <3> QED
      BY <2>3
  <2> HIDE DEF Solves
  <2> QED
    BY <2>4
<1>2. \A n \in 1..N : n - 1 \in G => n \in G
  <2> SUFFICES ASSUME NEW n \in 1..N, n - 1 \in G PROVE \E g : Solves(g, n)
    <3> HIDE DEF Solves
    <3> QED
      OBVIOUS
  <2>1. PICK g : Solves(g, n - 1)
    <3> HIDE DEF Solves
    <3> QED
      OBVIOUS
  <2> DEFINE h == [i \in 1..n |-> IF i = n THEN IF i = 1 THEN seqs[i] ELSE g[i - 1] \o seqs[i]
                                  ELSE g[i]]
  <2>2. \A i \in 1..n : h[i] = IF i = 1 THEN seqs[i] ELSE h[i - 1] \o seqs[i]
    <3> TAKE i \in 1..n
    <3>0. i # 1 => i - 1 \in 1..n /\ i - 1 # n
      OBVIOUS
    <3>1. CASE i = n
      BY <3>0, <3>1
    <3>2. CASE i # n
      <4>1. i \in 1..(n - 1)
        BY <3>2
      <4>2. g[i] = IF i = 1 THEN seqs[i] ELSE g[i - 1] \o seqs[i]
        BY <2>1, <4>1
      <4> QED
        BY <3>0, <3>2, <4>2
    <3> QED
      BY <3>1, <3>2
  <2>3. Solves(h, n)
    BY <2>2
  <2> QED
    BY <2>3
<1>3. N \in G
  <2>1. N \in 0..N
    OBVIOUS
  <2> HIDE DEF G
  <2> QED
    BY <1>1, <1>2, <2>1, Induct
<1>4. Solves(CHOOSE g : Solves(g, N), N)
  <2>1. \E g : Solves(g, N)
    <3> HIDE DEF Solves
    <3> QED
      BY <1>3
  <2> HIDE DEF Solves
  <2> QED
    BY <2>1
<1> DEFINE f == CHOOSE g : Solves(g, N)
<1>5. FlattenSeq(seqs) = f[N]
  BY DEF FlattenSeq
<1>6. Solves(f, N)
  BY <1>4
<1>7. ASSUME NEW i \in 1..N PROVE f[i] = IF i = 1 THEN seqs[i] ELSE f[i - 1] \o seqs[i]
  <2> HIDE DEF f
  <2> QED
    BY <1>6
<1> HIDE DEF f
<1> QED
  BY <1>5, <1>7

\* Each place of a list made of others has one place in one of the first n of them.
Places(flat, seqs, n, at) ==
    /\ at \in [1..Len(flat) -> Nat \X Nat]
    /\ \A p \in 1..Len(flat) :
        /\ at[p][1] \in 1..n /\ at[p][2] \in 1..Len(seqs[at[p][1]])
        /\ flat[p] = seqs[at[p][1]][at[p][2]]
    /\ \A p, q \in 1..Len(flat) : at[p] = at[q] => p = q
    /\ \A i \in 1..n : \A j \in 1..Len(seqs[i]) : \E p \in 1..Len(flat) : at[p] = <<i, j>>

\* One more list adds its places.
LEMMA PlacesAreAdded ==
    ASSUME NEW S, NEW seqs \in Seq(Seq(S)), NEW n \in Nat, n < Len(seqs),
           NEW flat \in Seq(S), NEW at, Places(flat, seqs, n, at)
    PROVE  \E more : Places(flat \o seqs[n + 1], seqs, n + 1, more)
<1> DEFINE new == seqs[n + 1]
           long == flat \o new
           more == [p \in 1..Len(long) |-> IF p <= Len(flat) THEN at[p]
                                           ELSE <<n + 1, p - Len(flat)>>]
<1>1. /\ new \in Seq(S) /\ Len(flat) \in Nat /\ Len(new) \in Nat
      /\ Len(long) = Len(flat) + Len(new)
      /\ \A p \in 1..Len(long) : long[p] = IF p <= Len(flat) THEN flat[p] ELSE new[p - Len(flat)]
  <2>1. n + 1 \in 1..Len(seqs)
    OBVIOUS
  <2>2. new \in Seq(S)
    BY <2>1
  <2> HIDE DEF new
  <2> QED
    BY <2>2
<1> HIDE DEF long, new
<1>2. /\ at \in [1..Len(flat) -> Nat \X Nat]
      /\ \A p \in 1..Len(flat) :
           /\ at[p][1] \in 1..n /\ at[p][2] \in 1..Len(seqs[at[p][1]])
           /\ flat[p] = seqs[at[p][1]][at[p][2]]
      /\ \A p, q \in 1..Len(flat) : at[p] = at[q] => p = q
      /\ \A i \in 1..n : \A j \in 1..Len(seqs[i]) : \E p \in 1..Len(flat) : at[p] = <<i, j>>
  BY DEF Places
<1>3. \A p \in 1..Len(flat) : p \in 1..Len(long) /\ p <= Len(flat) /\ more[p] = at[p]
  BY <1>1
<1>4. \A p \in 1..Len(long) : ~ (p <= Len(flat)) =>
        more[p] = <<n + 1, p - Len(flat)>> /\ p - Len(flat) \in 1..Len(new)
  BY <1>1
<1>5. \A p \in 1..Len(long) : p <= Len(flat) => p \in 1..Len(flat)
  BY <1>1
<1>6. more \in [1..Len(long) -> Nat \X Nat]
  <2>1. \A p \in 1..Len(long) : more[p] \in Nat \X Nat
    <3> TAKE p \in 1..Len(long)
    <3>1. CASE p <= Len(flat)
      <4>1. p \in 1..Len(flat) /\ more[p] = at[p]
        BY <1>3, <1>5, <3>1
      <4> QED
        BY <1>2, <4>1
    <3>2. CASE ~ (p <= Len(flat))
      BY <1>4, <3>2
    <3> QED
      BY <3>1, <3>2
  <2> QED
    BY <2>1
<1> HIDE DEF more
<1>7. ASSUME NEW p \in 1..Len(long)
      PROVE  /\ more[p][1] \in 1..(n + 1) /\ more[p][2] \in 1..Len(seqs[more[p][1]])
             /\ long[p] = seqs[more[p][1]][more[p][2]]
  <2>1. CASE p <= Len(flat)
    <3>1. p \in 1..Len(flat) /\ more[p] = at[p] /\ long[p] = flat[p]
      BY <1>1, <1>3, <1>5, <2>1
    <3>2. at[p][1] \in 1..(n + 1)
      BY <1>2, <3>1
    <3> QED
      BY <1>2, <3>1, <3>2
  <2>2. CASE ~ (p <= Len(flat))
    <3> DEFINE i == n + 1
               j == p - Len(flat)
    <3>1. more[p][1] = i /\ more[p][2] = j /\ long[p] = new[j]
      BY <1>1, <1>4, <2>2
    <3>2. j \in 1..Len(new) /\ new = seqs[i]
      BY <1>4, <2>2 DEF new
    <3>3. i \in 1..(n + 1)
      OBVIOUS
    <3> HIDE DEF i, j
    <3> QED
      BY <3>1, <3>2, <3>3
  <2> QED
    BY <2>1, <2>2
<1>8. ASSUME NEW p \in 1..Len(long), NEW q \in 1..Len(long), more[p] = more[q]
      PROVE  p = q
  <2>1. CASE p <= Len(flat) /\ q <= Len(flat)
    BY <1>2, <1>3, <1>5, <1>8, <2>1
  <2>2. CASE ~ (p <= Len(flat)) /\ ~ (q <= Len(flat))
    <3>1. p - Len(flat) = q - Len(flat)
      BY <1>4, <1>8, <2>2, SMTT(30)
    <3> QED
      BY <1>1, <3>1
  <2>3. CASE p <= Len(flat) /\ ~ (q <= Len(flat))
    <3>1. at[p][1] \in 1..n /\ at[p][1] = n + 1
      BY <1>2, <1>3, <1>4, <1>5, <1>8, <2>3, SMTT(30)
    <3> QED
      BY <3>1
  <2>4. CASE q <= Len(flat) /\ ~ (p <= Len(flat))
    <3>1. at[q][1] \in 1..n /\ at[q][1] = n + 1
      BY <1>2, <1>3, <1>4, <1>5, <1>8, <2>4, SMTT(30)
    <3> QED
      BY <3>1
  <2> QED
    BY <2>1, <2>2, <2>3, <2>4
<1>9. ASSUME NEW i \in 1..(n + 1), NEW j \in 1..Len(seqs[i])
      PROVE  \E p \in 1..Len(long) : more[p] = <<i, j>>
  <2>1. CASE i \in 1..n
    <3>1. PICK p \in 1..Len(flat) : at[p] = <<i, j>>
      BY <1>2, <2>1
    <3> QED
      BY <1>3, <3>1
  <2>2. CASE i = n + 1
    <3>1. j \in 1..Len(new)
      BY <2>2 DEF new
    <3>2. /\ Len(flat) + j \in 1..Len(long) /\ ~ (Len(flat) + j <= Len(flat))
          /\ Len(flat) + j - Len(flat) = j
      BY <1>1, <3>1
    <3>3. more[Len(flat) + j] = <<i, j>>
      BY <1>4, <2>2, <3>2
    <3> QED
      BY <3>2, <3>3
  <2>3. i \in 1..n \/ i = n + 1
    OBVIOUS
  <2> QED
    BY <2>1, <2>2, <2>3
<1>10. Places(long, seqs, n + 1, more)
  BY <1>6, <1>7, <1>8, <1>9 DEF Places
<1> QED
  BY <1>10 DEF long, new

\* The lists joined are all of them, each at its places.
LEMMA JoinedHasPlaces ==
    ASSUME NEW S, NEW seqs \in Seq(Seq(S))
    PROVE  /\ FlattenSeq(seqs) \in Seq(S)
           /\ \E at : Places(FlattenSeq(seqs), seqs, Len(seqs), at)
<1> DEFINE N == Len(seqs)
<1>0. N \in Nat /\ \A i \in 1..N : seqs[i] \in Seq(S)
  OBVIOUS
<1>1. Places(<<>>, seqs, 0, [p \in 1..0 |-> <<0, 0>>])
  BY DEF Places
<1>2. CASE N = 0
  <2>1. seqs = <<>> /\ FlattenSeq(seqs) = seqs
    BY <1>2 DEF FlattenSeq
  <2>2. FlattenSeq(seqs) = <<>> /\ <<>> \in Seq(S)
    BY <2>1
  <2>3. \E at : Places(<<>>, seqs, N, at)
    BY <1>1, <1>2
  <2> HIDE DEF N
  <2> QED
    BY <2>2, <2>3 DEF N
<1>3. CASE N # 0
  <2>1. PICK f : /\ \A i \in 1..N : f[i] = IF i = 1 THEN seqs[i] ELSE f[i - 1] \o seqs[i]
                 /\ FlattenSeq(seqs) = f[N]
    BY <1>0, <1>3, JoiningIsSolved
  <2> DEFINE Good(n) == f[n] \in Seq(S) /\ \E at : Places(f[n], seqs, n, at)
             G == {n \in 0..N : n = 0 \/ Good(n)}
  <2>2. ASSUME NEW n \in 1..N, n - 1 = 0 \/ Good(n - 1) PROVE Good(n)
    <3>1. PICK flat \in Seq(S) : /\ f[n] = flat \o seqs[n]
                                 /\ \E at : Places(flat, seqs, n - 1, at)
      <4>1. CASE n = 1
        <5>1. f[n] = <<>> \o seqs[n] /\ n - 1 = 0 /\ <<>> \in Seq(S)
          BY <1>0, <2>1, <4>1
        <5> QED
          BY <1>1, <5>1
      <4>2. CASE n # 1
        <5>1. f[n] = f[n - 1] \o seqs[n] /\ Good(n - 1)
          <6>1. n - 1 # 0
            BY <4>2
          <6>2. Good(n - 1)
            <7> HIDE DEF Good
            <7> QED
              BY <2>2, <6>1
          <6>3. f[n] = f[n - 1] \o seqs[n]
            BY <2>1, <4>2
          <6> QED
            BY <6>2, <6>3
        <5> QED
          BY <5>1
      <4> QED
        BY <4>1, <4>2
    <3>2. PICK at : Places(flat, seqs, n - 1, at)
      BY <3>1
    <3>3. n - 1 \in Nat /\ n - 1 < Len(seqs) /\ (n - 1) + 1 = n
      BY <1>0
    <3>4. \E more : Places(flat \o seqs[(n - 1) + 1], seqs, (n - 1) + 1, more)
      BY <3>2, <3>3, PlacesAreAdded
    <3>5. f[n] \in Seq(S)
      BY <1>0, <3>1
    <3> QED
      BY <3>1, <3>3, <3>4, <3>5
  <2> HIDE DEF Good
  <2>3. 0 \in G
    BY <1>0
  <2>4. \A n \in 1..N : n - 1 \in G => n \in G
    BY <2>2
  <2>5. N \in G
    <3>1. N \in 0..N
      BY <1>0
    <3> HIDE DEF G, N
    <3> QED
      BY <1>0, <2>3, <2>4, <3>1, Induct
  <2>6. Good(N)
    BY <1>3, <2>5
  <2> QED
    BY <2>1, <2>6 DEF Good
<1> QED
  BY <1>2, <1>3

-----------------------------------------------------------------------------
(* The handlers that lead to a state not seen before.                      *)

\* Two indices have not the same rank.
LEMMA RanksDiffer ==
    ASSUME NEW I \in SUBSET Nat, IsFiniteSet(I), NEW i \in I, NEW m \in I,
           Cardinality({j \in I : j <= i}) = Cardinality({j \in I : j <= m})
    PROVE  i = m
<1> DEFINE UpTo(x) == {j \in I : j <= x}
<1>1. ASSUME NEW x \in I, NEW y \in I, x < y PROVE Cardinality(UpTo(x)) # Cardinality(UpTo(y))
  <2>1. UpTo(x) \in SUBSET UpTo(y) /\ y \in UpTo(y) /\ y \notin UpTo(x) /\ UpTo(y) \in SUBSET I
    <3>1. x \in Nat /\ y \in Nat /\ \A j \in I : j \in Nat
      OBVIOUS
    <3>2. ~ (y <= x) /\ \A j \in I : j <= x => j <= y
      BY <1>1, <3>1
    <3>3. y <= y
      BY <3>1
    <3> QED
      BY <3>2, <3>3
  <2> HIDE DEF UpTo
  <2>2. IsFiniteSet(UpTo(y))
    BY <2>1, FS_Subset
  <2>3. Cardinality(UpTo(y)) = Cardinality(UpTo(x)) => UpTo(y) = UpTo(x)
    BY <2>1, <2>2, FS_Subset
  <2> QED
    BY <2>1, <2>3
<1>2. i < m \/ m < i \/ i = m
  OBVIOUS
<1>3. Cardinality(UpTo(i)) = Cardinality(UpTo(m))
  OBVIOUS
<1> HIDE DEF UpTo
<1> QED
  BY <1>1, <1>2, <1>3

\* When no more are chosen than are asked for, each is listed, and once.
LEMMA InOrderLists ==
    ASSUME NEW I \in SUBSET Nat, IsFiniteSet(I), NEW n \in Nat, Cardinality(I) <= n
    PROVE  /\ InOrder(I, n) \in Seq(I)
           /\ \A i \in I : \E k \in DOMAIN InOrder(I, n) : InOrder(I, n)[k] = i
           /\ \A k, l \in DOMAIN InOrder(I, n) : InOrder(I, n)[k] = InOrder(I, n)[l] => k = l
<1> DEFINE size == Cardinality(I)
           Rank(i) == Cardinality({j \in I : j <= i})
<1>1. size \in Nat /\ Smaller(Cardinality(I), n) = size
  BY FS_CardinalityType DEF Smaller
<1>2. \A k \in 1..size : \E i \in I : Rank(i) = k
  BY RanksAreTaken
<1>3. InOrder(I, n) = [k \in 1..size |-> CHOOSE i \in I : Rank(i) = k]
  BY <1>1 DEF InOrder
<1>4. \A i, m \in I : Rank(i) = Rank(m) => i = m
  BY RanksDiffer
<1>5. \A i \in I : Rank(i) \in 1..size
  <2> SUFFICES ASSUME NEW i \in I PROVE Rank(i) \in 1..size
    OBVIOUS
  <2> DEFINE upto == {j \in I : j <= i}
  <2>1. upto \in SUBSET I /\ i \in upto
    OBVIOUS
  <2> HIDE DEF upto
  <2>2. IsFiniteSet(upto) /\ Cardinality(upto) <= size /\ Cardinality(upto) \in Nat
    BY <2>1, FS_Subset, FS_CardinalityType
  <2>3. Cardinality(upto) # 0
    BY <2>1, <2>2, FS_EmptySet
  <2>4. Cardinality(upto) \in 1..size
    BY <1>1, <2>2, <2>3
  <2> QED
    BY <2>4 DEF upto
<1> HIDE DEF Rank, size
<1> DEFINE order == InOrder(I, n)
<1>6. DOMAIN order = 1..size /\ \A k \in 1..size : order[k] \in I /\ Rank(order[k]) = k
  <2>1. \A k \in 1..size : order[k] = CHOOSE i \in I : Rank(i) = k
    BY <1>3
  <2>2. \A k \in 1..size : order[k] \in I /\ Rank(order[k]) = k
    BY <1>2, <2>1
  <2>3. DOMAIN order = 1..size
    BY <1>3
  <2> QED
    BY <2>2, <2>3
<1>7. order \in Seq(I)
  BY InOrderTakes
<1> HIDE DEF order
<1>8. \A i \in I : Rank(i) \in DOMAIN order /\ order[Rank(i)] = i
  BY <1>4, <1>5, <1>6
<1>9. \A i \in I : \E k \in DOMAIN order : order[k] = i
  BY <1>8
<1>10. \A k, l \in DOMAIN order : order[k] = order[l] => k = l
  BY <1>6
<1> QED
  BY <1>7, <1>9, <1>10 DEF order

\* A set of the numbers up to n has at most n members.
LEMMA NotMoreThan ==
    ASSUME NEW n \in Nat, NEW I \in SUBSET (1..n)
    PROVE  IsFiniteSet(I) /\ Cardinality(I) <= n
<1>1. IsFiniteSet(1..n) /\ Cardinality(1..n) = n
  BY FS_Interval
<1> QED
  BY <1>1, FS_Subset

\* A list of each state that s leads to and was not seen, once.
ListsUnseen(d, s, seen, fresh) ==
    /\ fresh \in Seq(Leads(d, s) \ seen)
    /\ ToSet(fresh) = Leads(d, s) \ seen
    /\ \A t \in Leads(d, s) \ seen : \E k \in 1..Len(fresh) : fresh[k] = t
    /\ \A k, l \in 1..Len(fresh) : fresh[k] = fresh[l] => k = l

\* Such are the states found from a state.
LEMMA FreshIsUnseen ==
    ASSUME NEW d, Acceptable(d), NEW s \in Known(d), NEW seen
    PROVE  ListsUnseen(d, s, seen, Fresh(d, s, seen))
<1> DEFINE list == d.handlers[s]
           size == Len(list)
           I == Leading(d, s, seen)
           order == InOrder(I, size)
           fresh == Fresh(d, s, seen)
           new == Leads(d, s) \ seen
<1>1. /\ size \in Nat /\ DOMAIN list = 1..size
      /\ \A h \in ToSet(list) : \E i \in DOMAIN list : h = list[i]
      /\ \A i \in DOMAIN list : list[i] \in ToSet(list)
  BY HandlersAreListed
<1>2. \A t : t \in Leads(d, s) <=> t # Stay /\ \E i \in 1..size : list[i].next = t
  <2> HIDE DEF list
  <2>1. \A t : t \in Leads(d, s) <=> \E h \in ToSet(list) : h.next # Stay /\ t = h.next
    BY DEF Leads, Transitions, list
  <2> QED
    BY <1>1, <2>1
<1>3. I \in SUBSET (1..size) /\ IsFiniteSet(I) /\ Cardinality(I) <= size
  <2>1. I \in SUBSET (1..size)
    BY <1>1 DEF Leading
  <2> HIDE DEF I
  <2> QED
    BY <1>1, <2>1, NotMoreThan
<1>4. /\ order \in Seq(I)
      /\ \A i \in I : \E k \in DOMAIN order : order[k] = i
      /\ \A k, l \in DOMAIN order : order[k] = order[l] => k = l
  <2>1. I \in SUBSET Nat
    BY <1>1, <1>3
  <2> HIDE DEF I
  <2> QED
    BY <1>1, <1>3, <2>1, InOrderLists
<1>5. \A i \in 1..size : i \in I <=> /\ list[i].next \notin seen /\ list[i].next # Stay
                                    /\ \A j \in 1..(i - 1) : list[j].next # list[i].next
  BY <1>1 DEF Leading
<1>6. fresh = [k \in DOMAIN order |-> list[order[k]].next]
  BY DEF Fresh
<1>7. \A i, j \in I : list[i].next = list[j].next => i = j
  <2> SUFFICES ASSUME NEW i \in I, NEW j \in I, list[i].next = list[j].next, i < j
               PROVE  FALSE
    BY <1>1, <1>3
  <2>1. i \in 1..(j - 1) /\ j \in 1..size
    BY <1>1, <1>3
  <2> HIDE DEF I, list, size
  <2> QED
    BY <1>5, <2>1
<1>8. \A t \in new : \E i \in I : list[i].next = t
  <2> SUFFICES ASSUME NEW t \in new PROVE \E i \in I : list[i].next = t
    OBVIOUS
  <2> DEFINE all == {i \in 1..size : list[i].next = t}
  <2>1. t # Stay /\ t \notin seen /\ all # {}
    BY <1>2
  <2>2. all \in SUBSET Nat
    OBVIOUS
  <2>3. PICK i \in all : \A j \in all : i <= j
    <3> HIDE DEF all
    <3> QED
      BY <2>1, <2>2, HasLeast
  <2>4. \A j \in 1..(i - 1) : list[j].next # t
    <3> SUFFICES ASSUME NEW j \in 1..(i - 1), list[j].next = t PROVE FALSE
      OBVIOUS
    <3>1. j \in 1..size /\ ~ (i <= j)
      BY <1>1
    <3> QED
      BY <2>3, <3>1
  <2>5. i \in 1..size /\ list[i].next = t
    OBVIOUS
  <2> HIDE DEF I, list, size, all
  <2> QED
    BY <1>5, <2>1, <2>4, <2>5
<1>9. \A i \in I : list[i].next \in new
  <2> HIDE DEF I, list, size
  <2> QED
    BY <1>2, <1>3, <1>5
<1> HIDE DEF I, list, size, order, fresh, new
<1>10. \A k \in DOMAIN order : order[k] \in I
  BY <1>4
<1>11. /\ DOMAIN fresh = DOMAIN order
       /\ \A k \in DOMAIN order : fresh[k] = list[order[k]].next
  BY <1>6
<1>12. fresh \in Seq(new)
  <2>1. \A k \in DOMAIN order : fresh[k] \in new
    BY <1>9, <1>10, <1>11
  <2>2. Len(order) \in Nat /\ DOMAIN order = 1..Len(order)
    BY <1>4
  <2>3. fresh \in [1..Len(order) -> new]
    BY <1>6, <1>11, <2>1, <2>2
  <2> QED
    BY <2>2, <2>3, FirstNumbers
<1>13. ToSet(fresh) = new
  <2>1. \A t \in new : \E k \in DOMAIN fresh : fresh[k] = t
    BY <1>4, <1>8, <1>11
  <2>2. \A k \in DOMAIN fresh : fresh[k] \in new
    BY <1>12
  <2> QED
    BY <2>1, <2>2 DEF ToSet
<1>14. \A k, l \in DOMAIN fresh : fresh[k] = fresh[l] => k = l
  BY <1>4, <1>7, <1>10, <1>11
<1>15. DOMAIN fresh = 1..Len(fresh)
  BY <1>12
<1>16. \A t \in new : \E k \in 1..Len(fresh) : fresh[k] = t
  BY <1>13, <1>15 DEF ToSet
<1>17. ListsUnseen(d, s, seen, fresh)
  BY <1>12, <1>13, <1>14, <1>15, <1>16 DEF ListsUnseen, new
<1> QED
  BY <1>17 DEF fresh

-----------------------------------------------------------------------------
(* The search for paths: what is true of it after n rounds.                *)

\* What an accepted definition leads to are states it declares.
LEMMA LeadsToKnown ==
    ASSUME NEW d, Acceptable(d)
    PROVE  /\ d.initial \in Known(d)
           /\ \A s \in Known(d) : Leads(d, s) \subseteq Known(d)
<1>1. d.initial \in Known(d)
  BY DEF Acceptable, WellFormed
<1>2. ASSUME NEW s \in Known(d) PROVE Leads(d, s) \subseteq Known(d)
  <2>1. \A h \in Transitions(d, s) : h.next \in Known(d)
    BY DEF Acceptable, WellFormed
  <2> QED
    BY <2>1 DEF Leads
<1> QED
  BY <1>1, <1>2

Steps(d) == UNION {{<<s, h>> : h \in ToSet(d.handlers[s])} : s \in Known(d)}

\* A path from the initial state to t: each step leaves the state the one before led to.
IsPath(d, path, t) ==
    /\ path \in Seq(Steps(d))
    /\ path = <<>> => t = d.initial
    /\ path # <<>> => path[1][1] = d.initial /\ path[Len(path)][2].next = t
    /\ \A k \in 1..(Len(path) - 1) : path[k][2].next = path[k + 1][1]

Far(x, t) == Len(x.paths[t])

\* The states that were left: each that was found and is not pending.
Left(x) == DOMAIN x.paths \ ToSet(x.pending)

\* Found states have a path, of a length a walk has.
Found(d, x) ==
    /\ DOMAIN x.paths \subseteq Known(d)
    /\ d.initial \in DOMAIN x.paths /\ x.paths[d.initial] = <<>>
    /\ \A t \in DOMAIN x.paths :
        IsPath(d, x.paths[t], t) /\ Far(x, t) \in Nat /\ t \in Walked(d, Far(x, t))

\* Pending states are found, wait once, and the nearest first; none is more than a step
\* farther than the first.
Waiting(x) ==
    /\ x.pending \in Seq(DOMAIN x.paths)
    /\ \A i, j \in 1..Len(x.pending) : x.pending[i] = x.pending[j] => i = j
    /\ \A i, j \in 1..Len(x.pending) : i <= j => Far(x, x.pending[i]) <= Far(x, x.pending[j])
    /\ \A i \in 1..Len(x.pending) : Far(x, x.pending[i]) <= Far(x, x.pending[1]) + 1

\* All that a left state leads to is found, at most a step farther, and no left state is
\* farther than a pending one.
Done(d, x) ==
    /\ \A s \in Left(x) : \A t \in Leads(d, s) :
        t \in DOMAIN x.paths /\ Far(x, t) <= Far(x, s) + 1
    /\ \A s \in Left(x) : \A i \in 1..Len(x.pending) : Far(x, s) <= Far(x, x.pending[i])

\* In n rounds n states were left, unless none is pending, and no path is longer.
Counted(x, n) ==
    /\ \A t \in DOMAIN x.paths : Far(x, t) <= n
    /\ x.pending # <<>> => Cardinality(Left(x)) = n

SearchInv(d, x, n) == Found(d, x) /\ Waiting(x) /\ Done(d, x) /\ Counted(x, n)

\* A round that leaves s and finds the fresh ones.
Round(d, x, y, s, fresh) ==
    /\ x.pending # <<>> /\ s = x.pending[1] /\ s \in DOMAIN x.paths
    /\ ListsUnseen(d, s, DOMAIN x.paths, fresh)
    /\ DOMAIN y.paths = DOMAIN x.paths \cup Leads(d, s)
    /\ \A t \in DOMAIN x.paths : y.paths[t] = x.paths[t]
    /\ \A t \in Leads(d, s) \ DOMAIN x.paths :
        \E h \in ToSet(d.handlers[s]) : h.next = t /\ y.paths[t] = Append(x.paths[s], <<s, h>>)
    /\ y.pending = Tail(x.pending) \o fresh

\* While a state is pending, a round leaves the first.
LEMMA RoundLeavesFirst ==
    ASSUME NEW d, Acceptable(d), NEW x, Found(d, x), Waiting(x), x.pending # <<>>
    PROVE  \E s, fresh : Round(d, x, Extend(d, x), s, fresh)
<1> DEFINE s == Head(x.pending)
           fresh == Fresh(d, s, DOMAIN x.paths)
           y == Extend(d, x)
           new == Leads(d, s) \ DOMAIN x.paths
<1>1. s = x.pending[1] /\ s \in DOMAIN x.paths /\ s \in Known(d)
  <2>1. x.pending \in Seq(DOMAIN x.paths) /\ DOMAIN x.paths \subseteq Known(d)
    BY DEF Waiting, Found
  <2> QED
    BY <2>1
<1>2. ListsUnseen(d, s, DOMAIN x.paths, fresh)
  <2> DEFINE seen == DOMAIN x.paths
  <2> HIDE DEF s, seen
  <2>1. ListsUnseen(d, s, seen, Fresh(d, s, seen))
    BY <1>1, FreshIsUnseen
  <2> QED
    BY <2>1 DEF seen
<1>3. y = [paths |-> [t \in DOMAIN x.paths \cup ToSet(fresh) |->
                        IF t \in DOMAIN x.paths THEN x.paths[t]
                        ELSE PathFrom(d, s, x.paths[s], t)],
           pending |-> Tail(x.pending) \o fresh]
  BY DEF Extend
<1> HIDE DEF fresh, y, s, new
<1>4. /\ DOMAIN y.paths = DOMAIN x.paths \cup new /\ y.pending = Tail(x.pending) \o fresh
      /\ \A t \in DOMAIN x.paths : y.paths[t] = x.paths[t]
      /\ \A t \in new : y.paths[t] = PathFrom(d, s, x.paths[s], t)
  BY <1>2, <1>3 DEF new, ListsUnseen
<1>5. \A t \in new : \E h \in ToSet(d.handlers[s]) :
        h.next = t /\ PathFrom(d, s, x.paths[s], t) = Append(x.paths[s], <<s, h>>)
  <2> SUFFICES ASSUME NEW t \in new
               PROVE  \E h \in ToSet(d.handlers[s]) :
                        h.next = t /\ PathFrom(d, s, x.paths[s], t) = Append(x.paths[s], <<s, h>>)
    OBVIOUS
  <2> DEFINE list == d.handlers[s]
             First(i) == list[i].next = t /\ \A j \in 1..(i - 1) : list[j].next # t
             all == {i \in DOMAIN list : list[i].next = t}
  <2>1. /\ Len(list) \in Nat /\ DOMAIN list = 1..Len(list)
        /\ \A h \in ToSet(list) : \E i \in DOMAIN list : h = list[i]
        /\ \A i \in DOMAIN list : list[i] \in ToSet(list)
    BY <1>1, HandlersAreListed
  <2>2. all \in SUBSET Nat /\ all # {}
    <3>1. \E h \in ToSet(list) : h.next = t
      BY DEF new, Leads, Transitions
    <3> HIDE DEF list
    <3>2. \E i \in DOMAIN list : list[i].next = t
      BY <2>1, <3>1
    <3> QED
      BY <2>1, <3>2
  <2>3. PICK i \in all : \A j \in all : i <= j
    <3> HIDE DEF all
    <3> QED
      BY <2>2, HasLeast
  <2>4. First(i) /\ i \in DOMAIN list
    <3>1. \A j \in 1..(i - 1) : j \in DOMAIN list /\ ~ (i <= j)
      BY <2>1
    <3> HIDE DEF list
    <3> QED
      BY <2>3, <3>1
  <2> DEFINE m == CHOOSE k \in DOMAIN list : First(k)
  <2>5. m \in DOMAIN list /\ First(m)
    <3> HIDE DEF First, list, all
    <3> QED
      BY <2>4
  <2>6. PathFrom(d, s, x.paths[s], t) = Append(x.paths[s], <<s, list[m]>>)
    BY DEF PathFrom
  <2> HIDE DEF m, list
  <2>7. list[m] \in ToSet(list) /\ list[m].next = t
    BY <2>1, <2>5
  <2> QED
    BY <2>6, <2>7 DEF list
<1>8. DOMAIN x.paths \cup new = DOMAIN x.paths \cup Leads(d, s)
  BY DEF new
<1>9. \A t \in new : \E h \in ToSet(d.handlers[s]) :
        h.next = t /\ y.paths[t] = Append(x.paths[s], <<s, h>>)
  BY <1>4, <1>5
<1>10. Round(d, x, y, s, fresh)
  BY <1>1, <1>2, <1>4, <1>8, <1>9 DEF Round, new
<1> QED
  BY <1>10 DEF y

\* A path to s, and a handler of s.
IsReplay(d, path, s, h, long) ==
    /\ long \in Seq(Steps(d)) /\ Len(path) \in Nat /\ Len(long) = Len(path) + 1
    /\ long[1][1] = d.initial /\ long[Len(long)] = <<s, h>>
    /\ \A k \in 1..(Len(long) - 1) : long[k][2].next = long[k + 1][1]

LEMMA StepIsAdded ==
    ASSUME NEW d, NEW path, NEW s \in Known(d), IsPath(d, path, s),
           NEW h \in ToSet(d.handlers[s]), NEW long, long = Append(path, <<s, h>>)
    PROVE  IsReplay(d, path, s, h, long)
<1>1. path \in Seq(Steps(d)) /\ <<s, h>> \in Steps(d) /\ Len(path) \in Nat
  BY DEF IsPath, Steps
<1>2. /\ long \in Seq(Steps(d)) /\ Len(long) = Len(path) + 1
      /\ \A k \in 1..Len(path) : long[k] = path[k]
      /\ long[Len(path) + 1] = <<s, h>>
  BY <1>1
<1>3. path # <<>> => Len(path) >= 1
  BY <1>1
<1>4. long[1][1] = d.initial
  <2>1. CASE path = <<>>
    BY <1>2, <2>1 DEF IsPath
  <2>2. CASE path # <<>>
    <3>1. 1 \in 1..Len(path)
      BY <1>1, <1>3, <2>2
    <3> QED
      BY <1>1, <1>2, <2>2, <3>1 DEF IsPath
  <2> QED
    BY <2>1, <2>2
<1>5. ASSUME NEW k \in 1..(Len(long) - 1) PROVE long[k][2].next = long[k + 1][1]
  <2>1. k \in 1..Len(path) /\ long[k] = path[k]
    BY <1>1, <1>2
  <2>2. CASE k = Len(path)
    <3>1. path # <<>>
      BY <1>1, <2>1
    <3> QED
      BY <1>2, <2>1, <2>2, <3>1 DEF IsPath
  <2>3. CASE k # Len(path)
    <3>1. k \in 1..(Len(path) - 1) /\ k + 1 \in 1..Len(path)
      BY <1>1, <2>1, <2>3
    <3> QED
      BY <1>2, <2>1, <3>1 DEF IsPath
  <2> QED
    BY <2>2, <2>3
<1> QED
  BY <1>1, <1>2, <1>4, <1>5 DEF IsReplay

\* If the handler leads to another state, that is a path to it.
LEMMA PathGoesOn ==
    ASSUME NEW d, NEW path, NEW s \in Known(d), IsPath(d, path, s), s \in Walked(d, Len(path)),
           NEW h \in ToSet(d.handlers[s]), h.next # Stay
    PROVE  /\ IsPath(d, Append(path, <<s, h>>), h.next)
           /\ Len(Append(path, <<s, h>>)) = Len(path) + 1
           /\ h.next \in Walked(d, Len(path) + 1)
<1> DEFINE long == Append(path, <<s, h>>)
<1> HIDE DEF long
<1>0. long = Append(path, <<s, h>>)
  BY DEF long
<1>1. /\ long \in Seq(Steps(d)) /\ Len(path) \in Nat /\ Len(long) = Len(path) + 1
      /\ long[1][1] = d.initial /\ long[Len(long)] = <<s, h>>
      /\ \A k \in 1..(Len(long) - 1) : long[k][2].next = long[k + 1][1]
  <2>1. IsReplay(d, path, s, h, long)
    BY <1>0, StepIsAdded
  <2> QED
    BY <2>1, Zenon DEF IsReplay
<1>2. long # <<>>
  BY <1>1
<1>3. h.next \in Walked(d, Len(path) + 1)
  <2>1. h.next \in Leads(d, s)
    BY DEF Leads, Transitions
  <2>2. Walked(d, Len(path) + 1) = UNION {Leads(d, t) : t \in Walked(d, Len(path))}
    BY <1>1, WalksGoOn
  <2> QED
    BY <2>1, <2>2
<1>4. IsPath(d, long, h.next)
  BY <1>1, <1>2 DEF IsPath
<1> QED
  BY <1>1, <1>3, <1>4 DEF long

\* The states found in a round have a path, a step longer than the one of the state left.
LEMMA RoundFinds ==
    ASSUME NEW d, Acceptable(d), NEW x, NEW y, NEW s, NEW fresh, Round(d, x, y, s, fresh),
           Found(d, x)
    PROVE  /\ Found(d, y)
           /\ \A t \in DOMAIN x.paths : Far(y, t) = Far(x, t)
           /\ \A t \in Leads(d, s) \ DOMAIN x.paths : Far(y, t) = Far(x, s) + 1
<1> DEFINE new == Leads(d, s) \ DOMAIN x.paths
<1>1. /\ s \in DOMAIN x.paths /\ s \in Known(d)
      /\ IsPath(d, x.paths[s], s) /\ Far(x, s) \in Nat /\ s \in Walked(d, Far(x, s))
  BY DEF Round, Found
<1>2. \A t \in DOMAIN x.paths : y.paths[t] = x.paths[t] /\ Far(y, t) = Far(x, t)
  BY DEF Round, Far
<1>3. ASSUME NEW t \in new
      PROVE  IsPath(d, y.paths[t], t) /\ Far(y, t) = Far(x, s) + 1 /\ t \in Walked(d, Far(x, s) + 1)
  <2>1. PICK h \in ToSet(d.handlers[s]) :
            h.next = t /\ y.paths[t] = Append(x.paths[s], <<s, h>>)
    BY DEF Round
  <2>2. t # Stay
    BY DEF Leads, Transitions
  <2> DEFINE path == x.paths[s]
  <2>3. IsPath(d, path, s) /\ s \in Walked(d, Len(path))
    BY <1>1 DEF Far
  <2> HIDE DEF path
  <2>4. /\ IsPath(d, Append(path, <<s, h>>), h.next)
        /\ Len(Append(path, <<s, h>>)) = Len(path) + 1
        /\ h.next \in Walked(d, Len(path) + 1)
    BY <1>1, <2>1, <2>2, <2>3, PathGoesOn
  <2> QED
    BY <2>1, <2>4 DEF path, Far
<1>4. DOMAIN y.paths = DOMAIN x.paths \cup new
  BY DEF Round
<1>5. Far(x, s) + 1 \in Nat
  BY <1>1
<1>6. DOMAIN y.paths \subseteq Known(d)
  BY <1>1, <1>4, LeadsToKnown DEF Found
<1>7. d.initial \in DOMAIN y.paths /\ y.paths[d.initial] = <<>>
  BY <1>2, <1>4 DEF Found
<1>8. ASSUME NEW t \in DOMAIN y.paths
      PROVE  IsPath(d, y.paths[t], t) /\ Far(y, t) \in Nat /\ t \in Walked(d, Far(y, t))
  <2>1. CASE t \in DOMAIN x.paths
    BY <1>2, <2>1 DEF Found
  <2>2. CASE t \in new
    BY <1>3, <1>5, <2>2
  <2> QED
    BY <1>4, <2>1, <2>2
<1>9. Found(d, y)
  BY <1>6, <1>7, <1>8 DEF Found
<1> QED
  BY <1>2, <1>3, <1>9

\* The pending states after a round: the ones behind the first, then those it found.
Queued(d, x, y, s, fresh, past) ==
    /\ past \in Nat /\ Len(x.pending) = past + 1 /\ Len(fresh) \in Nat
    /\ y.pending \in Seq(DOMAIN y.paths)
    /\ Len(y.pending) = past + Len(fresh)
    /\ \A i \in 1..Len(y.pending) : i <= past =>
        i + 1 \in 1..Len(x.pending) /\ y.pending[i] = x.pending[i + 1]
    /\ \A i \in 1..Len(y.pending) : ~ (i <= past) =>
        /\ i - past \in 1..Len(fresh)
        /\ y.pending[i] = fresh[i - past]
        /\ y.pending[i] \in Leads(d, s) \ DOMAIN x.paths

LEMMA RoundWaits ==
    ASSUME NEW d, NEW x, NEW y, NEW s, NEW fresh, Round(d, x, y, s, fresh), Waiting(x)
    PROVE  Queued(d, x, y, s, fresh, Len(x.pending) - 1)
<1> DEFINE waiting == x.pending
           old == Tail(waiting)
           new == Leads(d, s) \ DOMAIN x.paths
           all == DOMAIN y.paths
           past == Len(waiting) - 1
<1>1. waiting \in Seq(DOMAIN x.paths) /\ waiting # <<>> /\ fresh \in Seq(new)
  BY DEF Waiting, Round, ListsUnseen
<1>2. /\ DOMAIN x.paths \subseteq all /\ new \subseteq all /\ y.pending = old \o fresh
  BY DEF Round
<1> HIDE DEF waiting
<1>3. /\ Len(waiting) \in Nat \ {0} /\ old \in Seq(DOMAIN x.paths)
      /\ Len(old) = past
      /\ \A i \in 1..Len(old) : old[i] = waiting[i + 1]
  BY <1>1, HeadTailProperties
<1>4. /\ Len(fresh) \in Nat /\ \A i \in 1..Len(fresh) : fresh[i] \in new
  BY <1>1
<1>5. old \in Seq(all) /\ fresh \in Seq(all)
  BY <1>1, <1>2, <1>3
<1> HIDE DEF old, new, all
<1>6. /\ old \o fresh \in Seq(all) /\ Len(old \o fresh) = Len(old) + Len(fresh)
      /\ \A i \in 1..Len(old \o fresh) :
            (old \o fresh)[i] = IF i <= Len(old) THEN old[i] ELSE fresh[i - Len(old)]
  BY <1>5
<1>7. past \in Nat /\ Len(waiting) = past + 1
  BY <1>3
<1> HIDE DEF past
<1>8. /\ y.pending \in Seq(all) /\ Len(y.pending) = past + Len(fresh)
      /\ \A i \in 1..Len(y.pending) :
            y.pending[i] = IF i <= past THEN old[i] ELSE fresh[i - past]
  BY <1>2, <1>3, <1>6
<1>9. \A i \in 1..Len(y.pending) : i <= past =>
        i + 1 \in 1..Len(waiting) /\ y.pending[i] = waiting[i + 1]
  <2> TAKE i \in 1..Len(y.pending)
  <2> HAVE i <= past
  <2>1. i \in 1..past /\ i + 1 \in 1..Len(waiting)
    BY <1>4, <1>7, <1>8
  <2> QED
    BY <1>3, <1>8, <2>1
<1>10. \A i \in 1..Len(y.pending) : ~ (i <= past) =>
        i - past \in 1..Len(fresh) /\ y.pending[i] = fresh[i - past] /\ y.pending[i] \in new
  <2> TAKE i \in 1..Len(y.pending)
  <2> HAVE ~ (i <= past)
  <2>1. i - past \in 1..Len(fresh)
    BY <1>4, <1>7, <1>8
  <2> QED
    BY <1>4, <1>8, <2>1
<1>11. Queued(d, x, y, s, fresh, past)
  BY <1>4, <1>7, <1>8, <1>9, <1>10 DEF Queued, all, new, waiting
<1> QED
  BY <1>11 DEF past, waiting

\* They are in order again.
LEMMA RoundKeepsOrder ==
    ASSUME NEW d, Acceptable(d), NEW x, NEW y, NEW s, NEW fresh, Round(d, x, y, s, fresh),
           Found(d, x), Waiting(x)
    PROVE  Waiting(y)
<1> DEFINE past == Len(x.pending) - 1
           first == Far(x, s)
<1>1. /\ s = x.pending[1] /\ s \in DOMAIN x.paths /\ first \in Nat
      /\ \A k, l \in 1..Len(fresh) : fresh[k] = fresh[l] => k = l
  BY DEF Round, Found, ListsUnseen
<1>2. /\ \A t \in DOMAIN x.paths : Far(y, t) = Far(x, t) /\ Far(x, t) \in Nat
      /\ \A t \in Leads(d, s) \ DOMAIN x.paths : Far(y, t) = first + 1
  BY RoundFinds DEF Found
<1>3. /\ past \in Nat /\ Len(fresh) \in Nat
      /\ y.pending \in Seq(DOMAIN y.paths)
      /\ Len(y.pending) = past + Len(fresh)
      /\ \A i \in 1..Len(y.pending) : i <= past =>
            i + 1 \in 1..Len(x.pending) /\ y.pending[i] = x.pending[i + 1]
      /\ \A i \in 1..Len(y.pending) : ~ (i <= past) =>
            /\ i - past \in 1..Len(fresh)
            /\ y.pending[i] = fresh[i - past]
            /\ y.pending[i] \in Leads(d, s) \ DOMAIN x.paths
  <2>1. Queued(d, x, y, s, fresh, past)
    BY RoundWaits
  <2> HIDE DEF past
  <2> QED
    BY <2>1, Zenon DEF Queued
<1>4. /\ \A i \in 1..Len(x.pending) : x.pending[i] \in DOMAIN x.paths
      /\ \A i, j \in 1..Len(x.pending) : x.pending[i] = x.pending[j] => i = j
      /\ \A i, j \in 1..Len(x.pending) : i <= j => Far(x, x.pending[i]) <= Far(x, x.pending[j])
      /\ \A i \in 1..Len(x.pending) : Far(x, x.pending[i]) <= first + 1
  BY <1>1 DEF Waiting
<1>5. \A i \in 1..Len(x.pending) : first <= Far(x, x.pending[i])
  <2>1. \A i \in 1..Len(x.pending) : 1 \in 1..Len(x.pending) /\ 1 <= i
    BY <1>3
  <2> QED
    BY <1>1, <1>4, <2>1
<1> HIDE DEF first
<1>6. ASSUME NEW i \in 1..Len(y.pending)
      PROVE  /\ first <= Far(y, y.pending[i]) /\ Far(y, y.pending[i]) <= first + 1
             /\ Far(y, y.pending[i]) \in Nat
             /\ ~ (i <= past) => Far(y, y.pending[i]) = first + 1
             /\ i <= past => /\ y.pending[i] \in DOMAIN x.paths
                             /\ Far(y, y.pending[i]) = Far(x, x.pending[i + 1])
  <2>1. CASE i <= past
    <3>1. /\ i + 1 \in 1..Len(x.pending) /\ y.pending[i] = x.pending[i + 1]
          /\ y.pending[i] \in DOMAIN x.paths
      BY <1>3, <1>4, <2>1
    <3> QED
      BY <1>2, <1>4, <1>5, <2>1, <3>1
  <2>2. CASE ~ (i <= past)
    <3>1. Far(y, y.pending[i]) = first + 1
      BY <1>2, <1>3, <2>2
    <3> QED
      BY <1>1, <2>2, <3>1 DEF first
  <2> QED
    BY <2>1, <2>2
<1>7. ASSUME NEW i \in 1..Len(y.pending), NEW j \in 1..Len(y.pending), i <= j
      PROVE  Far(y, y.pending[i]) <= Far(y, y.pending[j])
  <2>1. CASE i <= past /\ j <= past
    <3>1. i + 1 \in 1..Len(x.pending) /\ j + 1 \in 1..Len(x.pending) /\ i + 1 <= j + 1
      BY <1>3, <1>7, <2>1
    <3>2. Far(x, x.pending[i + 1]) <= Far(x, x.pending[j + 1])
      BY <1>4, <3>1
    <3> QED
      BY <1>6, <2>1, <3>2
  <2>2. CASE ~ (j <= past)
    <3>1. Far(y, y.pending[j]) = first + 1 /\ Far(y, y.pending[i]) <= first + 1
      BY <1>6, <2>2
    <3> QED
      BY <3>1
  <2>3. j <= past => i <= past
    BY <1>3, <1>7
  <2> QED
    BY <2>1, <2>2, <2>3
<1>8. ASSUME NEW i \in 1..Len(y.pending), NEW j \in 1..Len(y.pending),
             y.pending[i] = y.pending[j]
      PROVE  i = j
  <2>1. CASE i <= past /\ j <= past
    <3>1. i + 1 = j + 1
      BY <1>3, <1>4, <1>8, <2>1, SMTT(30)
    <3> QED
      BY <3>1
  <2>2. CASE ~ (i <= past) /\ ~ (j <= past)
    <3>1. /\ i - past \in 1..Len(fresh) /\ j - past \in 1..Len(fresh)
          /\ fresh[i - past] = fresh[j - past]
      BY <1>3, <1>8, <2>2
    <3>2. i - past = j - past
      BY <1>1, <3>1
    <3> QED
      BY <1>3, <3>2
  <2>3. CASE i <= past /\ ~ (j <= past)
    BY <1>3, <1>6, <1>8, <2>3
  <2>4. CASE j <= past /\ ~ (i <= past)
    BY <1>3, <1>6, <1>8, <2>4
  <2> QED
    BY <2>1, <2>2, <2>3, <2>4
<1>9. ASSUME NEW i \in 1..Len(y.pending) PROVE Far(y, y.pending[i]) <= Far(y, y.pending[1]) + 1
  <2>1. 1 \in 1..Len(y.pending)
    BY <1>3
  <2>2. /\ first <= Far(y, y.pending[1]) /\ Far(y, y.pending[1]) \in Nat
        /\ Far(y, y.pending[i]) <= first + 1 /\ Far(y, y.pending[i]) \in Nat
    BY <1>6, <2>1
  <2> QED
    BY <1>1, <2>2 DEF first
<1> QED
  BY <1>3, <1>7, <1>8, <1>9 DEF Waiting

\* A round leaves one more state.
LEMMA RoundLeavesOne ==
    ASSUME NEW d, NEW x, NEW y, NEW s, NEW fresh, Round(d, x, y, s, fresh), Waiting(x)
    PROVE  /\ s \notin Left(x)
           /\ \A t : t \in Left(y) <=> t \in Left(x) \/ t = s
<1> DEFINE past == Len(x.pending) - 1
           new == Leads(d, s) \ DOMAIN x.paths
<1>1. /\ x.pending \in Seq(DOMAIN x.paths) /\ s = x.pending[1] /\ s \in DOMAIN x.paths
      /\ \A i, j \in 1..Len(x.pending) : x.pending[i] = x.pending[j] => i = j
      /\ fresh \in Seq(new) /\ \A t \in new : \E k \in 1..Len(fresh) : fresh[k] = t
      /\ DOMAIN y.paths = DOMAIN x.paths \cup new
  BY DEF Round, Waiting, ListsUnseen
<1>2. Queued(d, x, y, s, fresh, past)
  BY RoundWaits
<1> HIDE DEF past
<1>3. /\ past \in Nat /\ Len(x.pending) = past + 1 /\ Len(fresh) \in Nat
      /\ y.pending \in Seq(DOMAIN y.paths) /\ Len(y.pending) = past + Len(fresh)
      /\ \A i \in 1..Len(y.pending) : i <= past =>
            i + 1 \in 1..Len(x.pending) /\ y.pending[i] = x.pending[i + 1]
      /\ \A i \in 1..Len(y.pending) : ~ (i <= past) =>
            /\ i - past \in 1..Len(fresh)
            /\ y.pending[i] = fresh[i - past]
            /\ y.pending[i] \in new
  BY <1>2, Zenon DEF Queued
<1> DEFINE InX(t) == \E i \in 1..Len(x.pending) : x.pending[i] = t
           InY(t) == \E i \in 1..Len(y.pending) : y.pending[i] = t
<1>4. /\ \A t : t \in Left(x) <=> t \in DOMAIN x.paths /\ ~ InX(t)
      /\ \A t : t \in Left(y) <=> t \in DOMAIN y.paths /\ ~ InY(t)
  <2>1. DOMAIN x.pending = 1..Len(x.pending) /\ DOMAIN y.pending = 1..Len(y.pending)
    BY <1>1, <1>3
  <2>2. \A t : t \in ToSet(x.pending) <=> InX(t)
    BY <2>1 DEF ToSet
  <2>3. \A t : t \in ToSet(y.pending) <=> InY(t)
    BY <2>1 DEF ToSet
  <2> HIDE DEF InX, InY
  <2> QED
    BY <2>2, <2>3 DEF Left
<1>5. 1 \in 1..Len(x.pending) /\ InX(s)
  BY <1>1, <1>3
<1>6. \A t : t \in new => t \notin DOMAIN x.paths /\ InY(t)
  <2> SUFFICES ASSUME NEW t \in new PROVE InY(t)
    OBVIOUS
  <2>1. PICK k \in 1..Len(fresh) : fresh[k] = t
    BY <1>1
  <2>2. k + past \in 1..Len(y.pending) /\ ~ (k + past <= past) /\ (k + past) - past = k
    BY <1>3
  <2>3. y.pending[k + past] = t
    BY <1>3, <2>1, <2>2
  <2> QED
    BY <2>2, <2>3
<1>7. ASSUME NEW t \in DOMAIN x.paths
      PROVE  InY(t) <=> InX(t) /\ t # s
  <2>1. ASSUME InY(t) PROVE InX(t) /\ t # s
    <3>1. PICK i \in 1..Len(y.pending) : y.pending[i] = t
      BY <2>1
    <3>2. i <= past
      <4>1. ~ (i <= past) => t \in new
        BY <1>3, <3>1
      <4> QED
        BY <4>1
    <3>3. i + 1 \in 1..Len(x.pending) /\ x.pending[i + 1] = t /\ i + 1 # 1
      BY <1>3, <3>1, <3>2
    <3> QED
      BY <1>1, <1>5, <3>3
  <2>2. ASSUME InX(t), t # s PROVE InY(t)
    <3>1. PICK j \in 1..Len(x.pending) : x.pending[j] = t
      BY <2>2
    <3>2. j # 1
      BY <1>1, <2>2, <3>1
    <3>3. j - 1 \in 1..Len(y.pending) /\ j - 1 <= past /\ (j - 1) + 1 = j
      BY <1>3, <3>2
    <3>4. y.pending[j - 1] = t
      BY <1>3, <3>1, <3>3
    <3> QED
      BY <3>3, <3>4
  <2> QED
    BY <2>1, <2>2
<1> HIDE DEF InX, InY, new
<1>8. s \notin Left(x)
  BY <1>4, <1>5
<1>9. ASSUME NEW t PROVE t \in Left(y) <=> t \in Left(x) \/ t = s
  <2>1. CASE t \in DOMAIN x.paths
    BY <1>1, <1>4, <1>5, <1>7, <2>1
  <2>2. CASE t \notin DOMAIN x.paths
    BY <1>1, <1>4, <1>6, <2>2
  <2> QED
    BY <2>1, <2>2
<1> QED
  BY <1>8, <1>9

\* All that the state left leads to is found, and it was the nearest.
LEMMA RoundIsDone ==
    ASSUME NEW d, Acceptable(d), NEW x, NEW y, NEW s, NEW fresh, Round(d, x, y, s, fresh),
           Found(d, x), Waiting(x), Done(d, x)
    PROVE  Done(d, y)
<1> DEFINE first == Far(x, s)
<1>1. /\ \A t \in DOMAIN x.paths : Far(y, t) = Far(x, t) /\ Far(x, t) \in Nat
      /\ \A t \in Leads(d, s) \ DOMAIN x.paths : Far(y, t) = first + 1
  BY RoundFinds DEF Found
<1>2. /\ s = x.pending[1] /\ s \in DOMAIN x.paths /\ first \in Nat
      /\ DOMAIN y.paths = DOMAIN x.paths \cup Leads(d, s)
  BY <1>1 DEF Round
<1>3. \A t : t \in Left(y) <=> t \in Left(x) \/ t = s
  BY RoundLeavesOne
<1>4. /\ \A i \in 1..Len(x.pending) : x.pending[i] \in DOMAIN x.paths
      /\ \A i \in 1..Len(x.pending) : Far(x, x.pending[i]) <= first + 1
      /\ \A i, j \in 1..Len(x.pending) : i <= j => Far(x, x.pending[i]) <= Far(x, x.pending[j])
      /\ 1 \in 1..Len(x.pending)
  <2>1. x.pending \in Seq(DOMAIN x.paths) /\ x.pending # <<>>
    BY DEF Waiting, Round
  <2>2. Len(x.pending) \in Nat /\ Len(x.pending) # 0
    BY <2>1
  <2> QED
    BY <1>2, <2>1, <2>2 DEF Waiting
<1>5. /\ \A r \in Left(x) : \A t \in Leads(d, r) :
            t \in DOMAIN x.paths /\ Far(x, t) <= Far(x, r) + 1
      /\ \A r \in Left(x) : \A i \in 1..Len(x.pending) : Far(x, r) <= Far(x, x.pending[i])
      /\ \A r \in Left(x) : r \in DOMAIN x.paths
  BY DEF Done, Left
<1>6. \A r \in Left(x) : Far(x, r) <= first
  BY <1>2, <1>4, <1>5
<1>7. \A t \in DOMAIN x.paths : t \in Left(x) \/ \E i \in 1..Len(x.pending) : x.pending[i] = t
  <2>1. DOMAIN x.pending = 1..Len(x.pending)
    BY DEF Waiting
  <2> QED
    BY <2>1 DEF Left, ToSet
<1>8. \A t \in DOMAIN x.paths : Far(x, t) <= first + 1
  <2> TAKE t \in DOMAIN x.paths
  <2>1. CASE t \in Left(x)
    <3>1. Far(x, t) <= first /\ Far(x, t) \in Nat
      BY <1>1, <1>6, <2>1
    <3> HIDE DEF first
    <3> QED
      BY <1>2, <3>1
  <2>2. CASE \E i \in 1..Len(x.pending) : x.pending[i] = t
    BY <1>4, <2>2
  <2> QED
    BY <1>7, <2>1, <2>2
<1> HIDE DEF first
<1>9. ASSUME NEW r \in Left(y), NEW t \in Leads(d, r)
      PROVE  t \in DOMAIN y.paths /\ Far(y, t) <= Far(y, r) + 1
  <2>1. CASE r \in Left(x)
    <3>1. /\ r \in DOMAIN x.paths /\ t \in DOMAIN x.paths /\ t \in DOMAIN y.paths
          /\ Far(x, t) <= Far(x, r) + 1
      BY <1>2, <1>5, <2>1
    <3> QED
      BY <1>1, <3>1
  <2>2. CASE r = s
    <3>1. t \in DOMAIN y.paths /\ Far(y, r) = first
      BY <1>1, <1>2, <2>2 DEF first
    <3>2. CASE t \in DOMAIN x.paths
      BY <1>1, <1>8, <3>1, <3>2
    <3>3. CASE t \notin DOMAIN x.paths
      <4>1. Far(y, t) = first + 1
        BY <1>1, <2>2, <3>3
      <4> QED
        BY <1>2, <3>1, <4>1
    <3> QED
      BY <3>2, <3>3
  <2> QED
    BY <1>3, <2>1, <2>2
<1>10. ASSUME NEW r \in Left(y), NEW i \in 1..Len(y.pending)
       PROVE  Far(y, r) <= Far(y, y.pending[i])
  <2>1. Far(y, r) <= first /\ Far(y, r) \in Nat
    <3>1. CASE r \in Left(x)
      <4>1. Far(y, r) = Far(x, r) /\ Far(x, r) \in Nat /\ Far(x, r) <= first
        BY <1>1, <1>5, <1>6, <3>1
      <4> QED
        BY <4>1
    <3>2. CASE r = s
      <4>1. Far(y, r) = first
        BY <1>1, <1>2, <3>2 DEF first
      <4> QED
        BY <1>2, <4>1
    <3> QED
      BY <1>3, <3>1, <3>2
  <2>2. first <= Far(y, y.pending[i]) /\ Far(y, y.pending[i]) \in Nat
    <3> DEFINE past == Len(x.pending) - 1
    <3>1. Queued(d, x, y, s, fresh, past)
      BY RoundWaits
    <3> HIDE DEF past
    <3>2. /\ i <= past => i + 1 \in 1..Len(x.pending) /\ y.pending[i] = x.pending[i + 1]
          /\ ~ (i <= past) => y.pending[i] \in Leads(d, s) \ DOMAIN x.paths
          /\ past \in Nat /\ Len(x.pending) = past + 1 /\ Len(fresh) \in Nat
      BY <3>1 DEF Queued
    <3>3. CASE i <= past
      <4> DEFINE p == x.pending[i + 1]
      <4>1. y.pending[i] = p /\ p \in DOMAIN x.paths /\ i + 1 \in 1..Len(x.pending) /\ 1 <= i + 1
        BY <1>4, <3>2, <3>3
      <4>2. first <= Far(x, p)
        BY <1>2, <1>4, <4>1 DEF first
      <4> HIDE DEF p
      <4> QED
        BY <1>1, <4>1, <4>2
    <3>4. CASE ~ (i <= past)
      <4>1. Far(y, y.pending[i]) = first + 1
        BY <1>1, <3>2, <3>4
      <4> QED
        BY <1>2, <4>1
    <3> QED
      BY <3>3, <3>4
  <2> DEFINE a == Far(y, r)
             b == Far(y, y.pending[i])
  <2> HIDE DEF a, b
  <2>3. a <= first /\ first <= b /\ a \in Nat /\ b \in Nat /\ first \in Nat
    BY <1>2, <2>1, <2>2 DEF a, b
  <2>4. a <= b
    BY <2>3
  <2> QED
    BY <2>4 DEF a, b
<1> QED
  BY <1>9, <1>10 DEF Done

\* There are not more states than names of states.
LEMMA KnownIsFinite ==
    ASSUME NEW d, Acceptable(d)
    PROVE  /\ Len(StateNames) \in Nat
           /\ IsFiniteSet(Known(d)) /\ Cardinality(Known(d)) <= Len(StateNames)
<1> DEFINE N == Len(StateNames)
           names == ToSet(StateNames)
           f == [i \in 1..N |-> StateNames[i]]
<1>1. N \in Nat /\ DOMAIN StateNames = 1..N /\ Known(d) \subseteq names
  BY CandidateAssumption DEF Acceptable
<1>2. f \in Surjection(1..N, names)
  <2>1. \A t \in names : \E i \in 1..N : StateNames[i] = t
    BY <1>1 DEF ToSet
  <2>2. \A i \in 1..N : StateNames[i] \in names
    BY <1>1 DEF ToSet
  <2> HIDE DEF names
  <2> QED
    BY <2>1, <2>2 DEF Surjection
<1>3. IsFiniteSet(1..N) /\ Cardinality(1..N) = N
  <2> HIDE DEF N
  <2> QED
    BY <1>1, FS_Interval
<1> HIDE DEF f, names
<1>4. IsFiniteSet(names) /\ Cardinality(names) <= N
  <2>1. IsFiniteSet(names) /\ Cardinality(names) <= Cardinality(1..N)
    BY <1>2, <1>3, FS_Surjection
  <2> QED
    BY <1>3, <2>1
<1>5. IsFiniteSet(Known(d)) /\ Cardinality(Known(d)) <= Cardinality(names)
  <2>1. Known(d) \in SUBSET names
    BY <1>1
  <2> QED
    BY <1>4, <2>1, FS_Subset
<1>6. Cardinality(Known(d)) \in Nat /\ Cardinality(names) \in Nat
  BY <1>4, <1>5, FS_CardinalityType
<1> QED
  BY <1>1, <1>4, <1>5, <1>6

\* A round counts one more.
LEMMA RoundCounts ==
    ASSUME NEW d, Acceptable(d), NEW x, NEW y, NEW s, NEW fresh, Round(d, x, y, s, fresh),
           NEW n \in Nat, SearchInv(d, x, n)
    PROVE  Counted(y, n + 1)
<1>1. Found(d, x) /\ Waiting(x) /\ Counted(x, n)
  BY DEF SearchInv
<1>2. /\ \A t \in DOMAIN x.paths : Far(y, t) = Far(x, t) /\ Far(x, t) \in Nat /\ Far(x, t) <= n
      /\ \A t \in Leads(d, s) \ DOMAIN x.paths : Far(y, t) = Far(x, s) + 1
  BY <1>1, RoundFinds DEF Found, Counted
<1>3. /\ s \in DOMAIN x.paths /\ x.pending # <<>>
      /\ DOMAIN y.paths = DOMAIN x.paths \cup Leads(d, s)
  BY DEF Round
<1>4. ASSUME NEW t \in DOMAIN y.paths PROVE Far(y, t) <= n + 1
  <2>1. CASE t \in DOMAIN x.paths
    BY <1>2, <2>1
  <2>2. CASE t \notin DOMAIN x.paths
    <3>1. Far(y, t) = Far(x, s) + 1
      BY <1>2, <1>3, <2>2
    <3> QED
      BY <1>2, <1>3, <3>1
  <2> QED
    BY <2>1, <2>2
<1>5. Cardinality(Left(y)) = n + 1
  <2>1. s \notin Left(x) /\ Left(y) = Left(x) \cup {s}
    BY <1>1, RoundLeavesOne
  <2>2. Left(x) \in SUBSET Known(d)
    BY <1>1 DEF Left, Found
  <2>3. IsFiniteSet(Left(x))
    BY <2>2, KnownIsFinite, FS_Subset
  <2>4. Cardinality(Left(x)) = n
    BY <1>1, <1>3 DEF Counted
  <2> QED
    BY <2>1, <2>3, <2>4, FS_AddElement
<1> QED
  BY <1>4, <1>5 DEF Counted

\* A round keeps what is true of the search.
LEMMA RoundKeepsInv ==
    ASSUME NEW d, Acceptable(d), NEW x, NEW n \in Nat, SearchInv(d, x, n)
    PROVE  SearchInv(d, Extend(d, x), n + 1)
<1>1. CASE x.pending = <<>>
  <2>1. Extend(d, x) = x
    BY <1>1 DEF Extend
  <2>2. Counted(x, n + 1)
    <3>1. \A t \in DOMAIN x.paths : Far(x, t) \in Nat /\ Far(x, t) <= n
      BY DEF SearchInv, Found, Counted
    <3>2. \A t \in DOMAIN x.paths : Far(x, t) <= n + 1
      BY <3>1
    <3> QED
      BY <1>1, <3>2 DEF Counted
  <2> QED
    BY <2>1, <2>2 DEF SearchInv
<1>2. CASE x.pending # <<>>
  <2> DEFINE y == Extend(d, x)
  <2>1. Found(d, x) /\ Waiting(x) /\ Done(d, x)
    BY DEF SearchInv
  <2>2. PICK s, fresh : Round(d, x, y, s, fresh)
    BY <1>2, <2>1, RoundLeavesFirst
  <2> HIDE DEF y
  <2>3. Found(d, y)
    BY <2>1, <2>2, RoundFinds
  <2>4. Waiting(y)
    BY <2>1, <2>2, RoundKeepsOrder
  <2>5. Done(d, y)
    BY <2>1, <2>2, RoundIsDone
  <2>6. Counted(y, n + 1)
    BY <2>2, RoundCounts
  <2> QED
    BY <2>3, <2>4, <2>5, <2>6 DEF SearchInv, y
<1> QED
  BY <1>1, <1>2

\* At first only the initial state is found, and it is pending.
LEMMA SearchBegins ==
    ASSUME NEW d, Acceptable(d), NEW x,
           x = [paths |-> [s \in {d.initial} |-> <<>>], pending |-> <<d.initial>>]
    PROVE  SearchInv(d, x, 0)
<1>1. /\ DOMAIN x.paths = {d.initial} /\ x.paths[d.initial] = <<>>
      /\ x.pending = <<d.initial>> /\ Len(x.pending) = 1 /\ x.pending[1] = d.initial
  OBVIOUS
<1>2. Far(x, d.initial) = 0
  BY <1>1 DEF Far
<1>3. IsPath(d, <<>>, d.initial)
  BY EmptySeq DEF IsPath
<1>4. Found(d, x)
  <2>1. d.initial \in Walked(d, 0)
    BY WalksGoOn
  <2> QED
    BY <1>1, <1>2, <1>3, <2>1, LeadsToKnown DEF Found
<1>5. Waiting(x)
  <2>1. x.pending \in Seq(DOMAIN x.paths)
    BY <1>1
  <2> QED
    BY <1>1, <1>2, <2>1 DEF Waiting
<1>6. Left(x) = {}
  <2>1. d.initial \in ToSet(x.pending)
    <3>1. 1 \in DOMAIN x.pending
      BY <1>1
    <3> QED
      BY <1>1, <3>1 DEF ToSet
  <2> QED
    BY <1>1, <2>1 DEF Left
<1>7. Done(d, x)
  BY <1>6 DEF Done
<1>8. Counted(x, 0)
  BY <1>1, <1>2, <1>6, FS_EmptySet, SMTT(30) DEF Counted
<1> QED
  BY <1>4, <1>5, <1>7, <1>8 DEF SearchInv

\* It is true after each round.
LEMMA SearchKeepsInv ==
    ASSUME NEW d, Acceptable(d)
    PROVE  \A n \in 0..Len(StateNames) : SearchInv(d, Extension(d)[n], n)
<1> DEFINE N == Len(StateNames)
           x == Extension(d)
           G == {n \in 0..N : SearchInv(d, x[n], n)}
<1>1. N \in Nat
  BY KnownIsFinite
<1>2. /\ x[0] = [paths |-> [s \in {d.initial} |-> <<>>], pending |-> <<d.initial>>]
      /\ \A n \in 1..N : x[n] = Extend(d, x[n - 1])
  BY <1>1, ExtensionRounds
<1> HIDE DEF x
<1>3. 0 \in G
  <2>1. SearchInv(d, x[0], 0)
    BY <1>2, SearchBegins
  <2> QED
    BY <1>1, <2>1
<1>4. \A n \in 1..N : n - 1 \in G => n \in G
  <2> SUFFICES ASSUME NEW n \in 1..N, SearchInv(d, x[n - 1], n - 1)
               PROVE  SearchInv(d, x[n], n)
    BY <1>1
  <2>1. n - 1 \in Nat /\ (n - 1) + 1 = n
    BY <1>1
  <2>2. SearchInv(d, Extend(d, x[n - 1]), (n - 1) + 1)
    BY <2>1, RoundKeepsInv
  <2> QED
    BY <1>2, <2>1, <2>2
<1>5. \A n \in 0..N : n \in G
  <2> HIDE DEF G, N
  <2> QED
    BY <1>1, <1>3, <1>4, Induct
<1> QED
  BY <1>5 DEF x

\* Every state that is found is left in the end: there are not more rounds than states.
LEMMA SearchEnds ==
    ASSUME NEW d, Acceptable(d)
    PROVE  Extension(d)[Len(StateNames)].pending = <<>>
<1> DEFINE N == Len(StateNames)
           x == Extension(d)[N]
<1>1. N \in Nat /\ IsFiniteSet(Known(d)) /\ Cardinality(Known(d)) <= N
  BY KnownIsFinite
<1>2. SearchInv(d, x, N)
  BY <1>1, SearchKeepsInv
<1> HIDE DEF x
<1>3. SUFFICES ASSUME x.pending # <<>> PROVE FALSE
  BY DEF x
<1>4. Cardinality(Left(x)) = N
  BY <1>2, <1>3 DEF SearchInv, Counted
<1>5. /\ Left(x) \in SUBSET Known(d) /\ x.pending[1] \in Known(d) /\ x.pending[1] \notin Left(x)
  <2>1. /\ x.pending \in Seq(DOMAIN x.paths) /\ DOMAIN x.paths \subseteq Known(d)
    BY <1>2 DEF SearchInv, Waiting, Found
  <2>2. 1 \in DOMAIN x.pending
    BY <1>3, <2>1
  <2> QED
    BY <2>1, <2>2 DEF Left, ToSet
<1> DEFINE more == Left(x) \cup {x.pending[1]}
<1>6. IsFiniteSet(Left(x))
  BY <1>1, <1>5, FS_Subset
<1>7. Cardinality(more) = N + 1 /\ more \in SUBSET Known(d)
  BY <1>4, <1>5, <1>6, FS_AddElement
<1> HIDE DEF more
<1>8. Cardinality(more) <= Cardinality(Known(d)) /\ Cardinality(Known(d)) \in Nat
  BY <1>1, <1>7, FS_Subset, FS_CardinalityType
<1> QED
  BY <1>1, <1>7, <1>8

\* The paths found are paths of states a walk reaches, and no walk is shorter.
PathsAreShortest(d) ==
    /\ DOMAIN Paths(d) \subseteq Known(d)
    /\ \A t \in DOMAIN Paths(d) :
        /\ IsPath(d, Paths(d)[t], t)
        /\ Len(Paths(d)[t]) \in 0..Len(StateNames)
        /\ t \in Walked(d, Len(Paths(d)[t]))
    /\ \A n \in Nat : \A t \in Walked(d, n) : t \in DOMAIN Paths(d) /\ Len(Paths(d)[t]) <= n

LEMMA SearchFindsShortest ==
    ASSUME NEW d, Acceptable(d)
    PROVE  PathsAreShortest(d)
<1> DEFINE N == Len(StateNames)
           x == Extension(d)[N]
<1>1. N \in Nat
  BY KnownIsFinite
<1>2. SearchInv(d, x, N) /\ x.pending = <<>> /\ Paths(d) = x.paths
  BY <1>1, SearchKeepsInv, SearchEnds DEF Paths
<1> HIDE DEF x, N
<1>3. /\ DOMAIN x.paths \subseteq Known(d)
      /\ d.initial \in DOMAIN x.paths /\ x.paths[d.initial] = <<>>
      /\ \A t \in DOMAIN x.paths :
            /\ IsPath(d, x.paths[t], t) /\ Far(x, t) \in Nat /\ t \in Walked(d, Far(x, t))
            /\ Far(x, t) <= N
  BY <1>2 DEF SearchInv, Found, Counted
<1>4. \A s \in DOMAIN x.paths : \A t \in Leads(d, s) :
        t \in DOMAIN x.paths /\ Far(x, t) <= Far(x, s) + 1
  <2>1. ToSet(x.pending) = {}
    BY <1>2 DEF ToSet
  <2>2. Left(x) = DOMAIN x.paths
    BY <2>1 DEF Left
  <2> QED
    BY <1>2, <2>2 DEF SearchInv, Done
<1> DEFINE Reached(n) == \A t \in Walked(d, n) : t \in DOMAIN x.paths /\ Far(x, t) <= n
<1>5. ASSUME NEW m \in Nat PROVE Reached(m)
  <2> DEFINE G == {n \in 0..m : Reached(n)}
  <2>1. 0 \in G
    <3>1. Far(x, d.initial) = 0
      BY <1>3 DEF Far
    <3>2. Walked(d, 0) = {d.initial}
      BY WalksGoOn
    <3>3. Reached(0)
      BY <1>3, <3>1, <3>2
    <3> HIDE DEF Reached
    <3> QED
      BY <3>3
  <2>2. \A n \in 1..m : n - 1 \in G => n \in G
    <3> SUFFICES ASSUME NEW n \in 1..m, Reached(n - 1) PROVE Reached(n)
      <4> HIDE DEF Reached
      <4> QED
        OBVIOUS
    <3>1. n - 1 \in Nat /\ (n - 1) + 1 = n
      OBVIOUS
    <3>2. Walked(d, n) = UNION {Leads(d, s) : s \in Walked(d, n - 1)}
      <4>1. Walked(d, (n - 1) + 1) = UNION {Leads(d, s) : s \in Walked(d, n - 1)}
        BY <3>1, WalksGoOn
      <4> QED
        BY <3>1, <4>1
    <3> TAKE t \in Walked(d, n)
    <3>3. PICK s \in Walked(d, n - 1) : t \in Leads(d, s)
      BY <3>2
    <3>4. s \in DOMAIN x.paths /\ Far(x, s) <= n - 1 /\ Far(x, s) \in Nat
      BY <1>3, <3>3
    <3>5. t \in DOMAIN x.paths /\ Far(x, t) <= Far(x, s) + 1 /\ Far(x, t) \in Nat
      BY <1>3, <1>4, <3>3, <3>4
    <3> QED
      BY <3>1, <3>4, <3>5
  <2>3. m \in G
    <3>1. m \in 0..m
      OBVIOUS
    <3> HIDE DEF G
    <3> QED
      BY <2>1, <2>2, <3>1, Induct
  <2> QED
    BY <2>3
<1>6. \A t \in DOMAIN x.paths : Far(x, t) \in 0..N
  BY <1>1, <1>3
<1> QED
  BY <1>2, <1>3, <1>5, <1>6 DEF PathsAreShortest, Far, N

\* The search of the diagnostics finds the same states, round by round.
LEMMA SearchesAgree ==
    ASSUME NEW d, Acceptable(d)
    PROVE  Reachable(d) = DOMAIN Paths(d)
<1> DEFINE N == Len(StateNames)
           x == Extension(d)
           e == Exploration(d)
           Same(n) == /\ e[n].reachable = DOMAIN x[n].paths
                      /\ e[n].frontier = x[n].pending
           G == {n \in 0..N : Same(n)}
<1>1. N \in Nat
  BY KnownIsFinite
<1>2. /\ x[0] = [paths |-> [s \in {d.initial} |-> <<>>], pending |-> <<d.initial>>]
      /\ \A n \in 1..N : x[n] = Extend(d, x[n - 1])
  BY <1>1, ExtensionRounds
<1>3. /\ e[0] = [reachable |-> {d.initial}, frontier |-> <<d.initial>>]
      /\ \A n \in 1..N : e[n] = Explore(d, e[n - 1])
  BY <1>1, ExplorationRounds
<1>4. Reachable(d) = e[N].reachable /\ Paths(d) = x[N].paths
  BY DEF Reachable, Paths
<1> HIDE DEF x, e
<1>5. 0 \in G
  <2>1. Same(0)
    BY <1>2, <1>3
  <2> HIDE DEF Same
  <2> QED
    BY <1>1, <2>1
<1>6. \A n \in 1..N : n - 1 \in G => n \in G
  <2> SUFFICES ASSUME NEW n \in 1..N, Same(n - 1) PROVE Same(n)
    <3> HIDE DEF Same
    <3> QED
      BY <1>1
  <2> DEFINE a == e[n - 1]
             b == x[n - 1]
  <2>1. a.reachable = DOMAIN b.paths /\ a.frontier = b.pending
    OBVIOUS
  <2>2. e[n] = Explore(d, a) /\ x[n] = Extend(d, b)
    BY <1>2, <1>3
  <2> HIDE DEF a, b
  <2>3. CASE b.pending = <<>>
    <3>1. Explore(d, a) = a /\ Extend(d, b) = b
      BY <2>1, <2>3 DEF Explore, Extend
    <3> QED
      BY <2>1, <2>2, <3>1
  <2>4. CASE b.pending # <<>>
    <3> DEFINE fresh == Fresh(d, Head(b.pending), DOMAIN b.paths)
    <3>1. Explore(d, a) = [reachable |-> a.reachable \cup ToSet(fresh),
                           frontier |-> Tail(b.pending) \o fresh]
      BY <2>1, <2>4 DEF Explore
    <3>2. Extend(d, b) = [paths |-> [t \in DOMAIN b.paths \cup ToSet(fresh) |->
                                        IF t \in DOMAIN b.paths THEN b.paths[t]
                                        ELSE PathFrom(d, Head(b.pending),
                                                      b.paths[Head(b.pending)], t)],
                          pending |-> Tail(b.pending) \o fresh]
      BY <2>4 DEF Extend
    <3> HIDE DEF fresh
    <3>3. Explore(d, a).reachable = DOMAIN Extend(d, b).paths
      BY <2>1, <3>1, <3>2
    <3>4. Explore(d, a).frontier = Extend(d, b).pending
      BY <3>1, <3>2
    <3> QED
      BY <2>2, <3>3, <3>4
  <2> QED
    BY <2>3, <2>4
<1>7. N \in G
  <2>1. N \in 0..N
    BY <1>1
  <2> HIDE DEF G, N
  <2> QED
    BY <1>1, <1>5, <1>6, <2>1, Induct
<1> QED
  BY <1>4, <1>7

-----------------------------------------------------------------------------
(* The replays.                                                            *)

\* The replays: for each handler of each state with a path, that path and the handler,
\* and no two end with the same.
Replayed(d, replays) ==
    /\ replays \in Seq(Seq(Steps(d)))
    /\ \A p \in 1..Len(replays) : \E s \in DOMAIN Paths(d) : \E j \in DOMAIN d.handlers[s] :
        replays[p] = Append(Paths(d)[s], <<s, d.handlers[s][j]>>)
    /\ \A s \in DOMAIN Paths(d) : \A j \in DOMAIN d.handlers[s] : \E p \in 1..Len(replays) :
        replays[p] = Append(Paths(d)[s], <<s, d.handlers[s][j]>>)
    /\ \A p, q \in 1..Len(replays) : Last(replays[p]) = Last(replays[q]) => p = q

LEMMA ReplaysAreListed ==
    ASSUME NEW d, Acceptable(d)
    PROVE  Replayed(d, Replays(d))
<1> DEFINE N == Len(StateNames)
           paths == Paths(d)
           S == Seq(Steps(d))
           Of(i) == LET s == StateNames[i] IN
                    IF s \notin DOMAIN paths THEN <<>>
                    ELSE [j \in DOMAIN d.handlers[s] |->
                            Append(paths[s], <<s, d.handlers[s][j]>>)]
           lists == [i \in DOMAIN StateNames |-> Of(i)]
           replays == FlattenSeq(lists)
<1>0. Replays(d) = replays
  BY DEF Replays
<1>1. /\ N \in Nat /\ DOMAIN StateNames = 1..N
      /\ \A i, j \in 1..N : StateNames[i] = StateNames[j] => i = j
      /\ \A s \in Known(d) : \E i \in 1..N : StateNames[i] = s
  BY CandidateAssumption DEF Acceptable, ToSet
<1>2. /\ DOMAIN paths \subseteq Known(d)
      /\ \A s \in DOMAIN paths : IsPath(d, paths[s], s)
  BY SearchFindsShortest DEF PathsAreShortest
<1> HIDE DEF paths
<1>3. ASSUME NEW s \in DOMAIN paths
      PROVE  /\ Len(d.handlers[s]) \in Nat /\ DOMAIN d.handlers[s] = 1..Len(d.handlers[s])
             /\ \A j \in DOMAIN d.handlers[s] :
                  /\ Append(paths[s], <<s, d.handlers[s][j]>>) \in S
                  /\ Last(Append(paths[s], <<s, d.handlers[s][j]>>)) = <<s, d.handlers[s][j]>>
             /\ \A j, k \in DOMAIN d.handlers[s] : d.handlers[s][j] = d.handlers[s][k] => j = k
  <2>1. s \in Known(d) /\ IsPath(d, paths[s], s)
    BY <1>2
  <2> DEFINE list == d.handlers[s]
  <2>2. /\ Len(list) \in Nat /\ DOMAIN list = 1..Len(list)
        /\ \A j \in DOMAIN list : list[j] \in ToSet(list)
    BY <2>1, HandlersAreListed
  <2>3. ASSUME NEW j \in DOMAIN list
        PROVE  /\ Append(paths[s], <<s, list[j]>>) \in S
               /\ Last(Append(paths[s], <<s, list[j]>>)) = <<s, list[j]>>
    <3> DEFINE long == Append(paths[s], <<s, list[j]>>)
    <3> HIDE DEF long
    <3>1. long = Append(paths[s], <<s, list[j]>>)
      BY DEF long
    <3>2. long \in S /\ long[Len(long)] = <<s, list[j]>>
      <4> DEFINE h == list[j]
      <4>1. h \in ToSet(d.handlers[s])
        BY <2>2
      <4> HIDE DEF h, list, S
      <4>2. IsReplay(d, paths[s], s, h, long)
        BY <2>1, <3>1, <4>1, StepIsAdded DEF h
      <4> QED
        BY <4>2 DEF IsReplay, h, S
    <3> QED
      BY <3>2 DEF long, Last
  <2>4. \A j, k \in DOMAIN list : list[j] = list[k] => j = k
    <3>1. \A j, k \in DOMAIN list : j # k => Trigger(list[j]) # Trigger(list[k])
      BY <2>1, Zenon DEF Acceptable, AgreesWithContract
    <3> HIDE DEF list
    <3> QED
      BY <3>1
  <2> HIDE DEF S
  <2> QED
    BY <2>2, <2>3, <2>4
<1>4. ASSUME NEW i \in 1..N
      PROVE  /\ lists[i] \in Seq(S) /\ Len(lists[i]) \in Nat
             /\ StateNames[i] \notin DOMAIN paths => Len(lists[i]) = 0
             /\ StateNames[i] \in DOMAIN paths =>
                  /\ Len(lists[i]) = Len(d.handlers[StateNames[i]])
                  /\ \A j \in 1..Len(lists[i]) :
                        lists[i][j] = Append(paths[StateNames[i]],
                                             <<StateNames[i], d.handlers[StateNames[i]][j]>>)
  <2> DEFINE s == StateNames[i]
  <2>1. lists[i] = Of(i)
    BY <1>1
  <2>2. CASE s \notin DOMAIN paths
    <3>1. lists[i] = <<>>
      BY <2>1, <2>2
    <3> HIDE DEF lists, S
    <3> QED
      BY <2>2, <3>1
  <2>3. CASE s \in DOMAIN paths
    <3> DEFINE n == Len(d.handlers[s])
               f == [j \in 1..n |-> Append(paths[s], <<s, d.handlers[s][j]>>)]
    <3>1. n \in Nat /\ DOMAIN d.handlers[s] = 1..n
      BY <1>3, <2>3
    <3>2. lists[i] = f
      BY <2>1, <2>3, <3>1
    <3>3. f \in [1..n -> S]
      BY <1>3, <2>3, <3>1
    <3>4. f \in Seq(S) /\ Len(f) = n
      <4> HIDE DEF f, n, S
      <4> QED
        BY <3>1, <3>3, FirstNumbers
    <3>5. \A j \in 1..n : f[j] = Append(paths[s], <<s, d.handlers[s][j]>>)
      OBVIOUS
    <3> HIDE DEF lists, f, S
    <3> QED
      BY <2>3, <3>1, <3>2, <3>4, <3>5 DEF n
  <2> QED
    BY <2>2, <2>3
<1>5. lists \in Seq(Seq(S)) /\ Len(lists) = N
  <2>1. DOMAIN lists = 1..N /\ \A i \in 1..N : lists[i] \in Seq(S)
    BY <1>1, <1>4
  <2>2. lists \in [1..N -> Seq(S)]
    <3>1. lists = [i \in 1..N |-> lists[i]]
      BY <1>1
    <3> HIDE DEF lists
    <3> QED
      BY <2>1, <3>1
  <2> HIDE DEF lists, S, N
  <2> QED
    BY <1>1, <2>2, FirstNumbers
<1> HIDE DEF lists, S
<1>6. replays \in Seq(S) /\ \E at : Places(replays, lists, N, at)
  BY <1>5, JoinedHasPlaces
<1> HIDE DEF replays, N
<1>7. PICK at : Places(replays, lists, N, at)
  BY <1>6
<1>8. /\ \A p \in 1..Len(replays) :
            /\ at[p] \in Nat \X Nat
            /\ at[p][1] \in 1..N /\ at[p][2] \in 1..Len(lists[at[p][1]])
            /\ replays[p] = lists[at[p][1]][at[p][2]]
      /\ \A p, q \in 1..Len(replays) : at[p] = at[q] => p = q
      /\ \A i \in 1..N : \A j \in 1..Len(lists[i]) : \E p \in 1..Len(replays) : at[p] = <<i, j>>
  BY <1>7 DEF Places
<1>9. ASSUME NEW p \in 1..Len(replays)
      PROVE  /\ StateNames[at[p][1]] \in DOMAIN paths
             /\ at[p][2] \in DOMAIN d.handlers[StateNames[at[p][1]]]
             /\ replays[p] = Append(paths[StateNames[at[p][1]]],
                        <<StateNames[at[p][1]], d.handlers[StateNames[at[p][1]]][at[p][2]]>>)
  <2> DEFINE i == at[p][1]
             j == at[p][2]
             s == StateNames[i]
  <2>1. i \in 1..N /\ j \in 1..Len(lists[i]) /\ replays[p] = lists[i][j]
    BY <1>8
  <2> HIDE DEF i, j
  <2>2. s \in DOMAIN paths
    <3>1. Len(lists[i]) # 0
      BY <1>4, <2>1
    <3> QED
      BY <1>4, <2>1, <3>1
  <2>3. /\ Len(lists[i]) = Len(d.handlers[s])
        /\ lists[i][j] = Append(paths[s], <<s, d.handlers[s][j]>>)
    BY <1>4, <2>1, <2>2
  <2>4. j \in DOMAIN d.handlers[s]
    BY <1>3, <2>1, <2>2, <2>3
  <2> QED
    BY <2>1, <2>2, <2>3, <2>4 DEF i, j
<1>10. ASSUME NEW s \in DOMAIN paths, NEW j \in DOMAIN d.handlers[s]
       PROVE  \E p \in 1..Len(replays) : replays[p] = Append(paths[s], <<s, d.handlers[s][j]>>)
  <2>1. PICK i \in 1..N : StateNames[i] = s
    BY <1>1, <1>2
  <2>2. j \in 1..Len(lists[i]) /\ lists[i][j] = Append(paths[s], <<s, d.handlers[s][j]>>)
    BY <1>3, <1>4, <2>1
  <2>3. PICK p \in 1..Len(replays) : at[p] = <<i, j>>
    BY <1>8, <2>2
  <2>4. replays[p] = lists[i][j]
    BY <1>8, <2>3
  <2> QED
    BY <2>2, <2>4
<1>11. ASSUME NEW p \in 1..Len(replays), NEW q \in 1..Len(replays),
              Last(replays[p]) = Last(replays[q])
       PROVE  p = q
  <2> DEFINE s == StateNames[at[p][1]]
             t == StateNames[at[q][1]]
  <2>1. /\ s \in DOMAIN paths /\ at[p][2] \in DOMAIN d.handlers[s]
        /\ Last(replays[p]) = <<s, d.handlers[s][at[p][2]]>>
    BY <1>3, <1>9
  <2>2. /\ t \in DOMAIN paths /\ at[q][2] \in DOMAIN d.handlers[t]
        /\ Last(replays[q]) = <<t, d.handlers[t][at[q][2]]>>
    BY <1>3, <1>9
  <2>3. s = t /\ d.handlers[s][at[p][2]] = d.handlers[s][at[q][2]]
    <3> DEFINE g == d.handlers[s][at[p][2]]
               h == d.handlers[t][at[q][2]]
    <3>1. <<s, g>> = <<t, h>>
      BY <1>11, <2>1, <2>2, Zenon
    <3>2. s = t /\ g = h
      <4> HIDE DEF s, t, g, h
      <4> QED
        BY <3>1
    <3> HIDE DEF s, t
    <3> QED
      BY <3>2
  <2>4. at[p][1] = at[q][1]
    BY <1>1, <1>8, <2>3
  <2>5. at[p][2] = at[q][2]
    <3> HIDE DEF s, t
    <3> QED
      BY <1>3, <2>1, <2>2, <2>3
  <2>6. at[p] = at[q]
    <3>1. at[p] = <<at[p][1], at[p][2]>> /\ at[q] = <<at[q][1], at[q][2]>>
      BY <1>8
    <3> QED
      BY <2>4, <2>5, <3>1
  <2> QED
    BY <1>8, <2>6
<1> QED
  BY <1>0, <1>6, <1>9, <1>10, <1>11 DEF Replayed, paths, S

\* A walk of the graph that ends with a handler of a state with a path, as short as any.
IsShortest(d, r) ==
    /\ r[1][1] = d.initial
    /\ \A k \in 1..(Len(r) - 1) : r[k][2].next = r[k + 1][1]
    /\ \A n \in 0..(Len(r) - 2) : Last(r)[1] \notin Walked(d, n)
    /\ \E s \in DOMAIN Paths(d) : \E h \in ToSet(d.handlers[s]) : Last(r) = <<s, h>>

LEMMA ReplaysAreWalks ==
    ASSUME NEW d, Acceptable(d), NEW p \in 1..Len(Replays(d))
    PROVE  IsShortest(d, Replays(d)[p])
<1> DEFINE r == Replays(d)[p]
           paths == Paths(d)
<1>0. PICK s \in DOMAIN paths : \E i \in DOMAIN d.handlers[s] :
          r = Append(paths[s], <<s, d.handlers[s][i]>>)
  BY ReplaysAreListed DEF Replayed
<1>1. PICK j \in DOMAIN d.handlers[s] : r = Append(paths[s], <<s, d.handlers[s][j]>>)
  BY <1>0
<1>2. /\ s \in Known(d) /\ IsPath(d, paths[s], s) /\ Len(paths[s]) \in Nat
      /\ \A n \in Nat : s \in Walked(d, n) => Len(paths[s]) <= n
  <2>1. Len(StateNames) \in Nat
    BY KnownIsFinite
  <2> QED
    BY <2>1, SearchFindsShortest DEF PathsAreShortest
<1> DEFINE h == d.handlers[s][j]
           path == paths[s]
<1>3. h \in ToSet(d.handlers[s])
  BY <1>2, HandlersAreListed
<1> HIDE DEF r, h, path
<1>4. IsReplay(d, path, s, h, r)
  BY <1>1, <1>2, <1>3, StepIsAdded DEF path, h
<1>5. /\ r[1][1] = d.initial /\ Len(r) = Len(path) + 1 /\ Len(path) \in Nat
      /\ \A k \in 1..(Len(r) - 1) : r[k][2].next = r[k + 1][1]
      /\ Last(r) = <<s, h>>
  BY <1>4 DEF IsReplay, Last
<1>6. \A n \in 0..(Len(r) - 2) : Last(r)[1] \notin Walked(d, n)
  <2> SUFFICES ASSUME NEW n \in 0..(Len(r) - 2), s \in Walked(d, n) PROVE FALSE
    BY <1>5
  <2>1. n \in Nat /\ ~ (Len(path) <= n)
    BY <1>5
  <2> QED
    BY <1>2, <2>1 DEF path
<1>7. \E t \in DOMAIN Paths(d) : \E g \in ToSet(d.handlers[t]) : Last(r) = <<t, g>>
  BY <1>3, <1>5
<1>8. IsShortest(d, r)
  BY <1>5, <1>6, <1>7, Zenon DEF IsShortest
<1> QED
  BY <1>8 DEF r

\* The states a walk of any allowed length reaches are those with a path.
LEMMA WalkedHavePaths ==
    ASSUME NEW d, Acceptable(d)
    PROVE  UNION {Walked(d, n) : n \in 0..Len(StateNames)} = DOMAIN Paths(d)
<1>1. Len(StateNames) \in Nat
  BY KnownIsFinite
<1>2. /\ \A t \in DOMAIN Paths(d) : \E n \in 0..Len(StateNames) : t \in Walked(d, n)
      /\ \A n \in 0..Len(StateNames) : \A t \in Walked(d, n) : t \in DOMAIN Paths(d)
  BY <1>1, SearchFindsShortest DEF PathsAreShortest
<1> QED
  BY <1>2

\* As many replays as handlers they end with.
LEMMA ReplaysEndApart ==
    ASSUME NEW d, Acceptable(d)
    PROVE  Cardinality({Last(r) : r \in ToSet(Replays(d))}) = Len(Replays(d))
<1> DEFINE replays == Replays(d)
           n == Len(replays)
           ends == {Last(r) : r \in ToSet(replays)}
           f == [p \in 1..n |-> Last(replays[p])]
<1>1. /\ n \in Nat /\ DOMAIN replays = 1..n
      /\ \A p, q \in 1..n : Last(replays[p]) = Last(replays[q]) => p = q
  <2>1. /\ replays \in Seq(Seq(Steps(d)))
        /\ \A p, q \in 1..n : Last(replays[p]) = Last(replays[q]) => p = q
    BY ReplaysAreListed DEF Replayed
  <2> HIDE DEF replays
  <2> QED
    BY <2>1
<1> HIDE DEF replays, n
<1>2. /\ \A e \in ends : \E p \in 1..n : Last(replays[p]) = e
      /\ \A p \in 1..n : Last(replays[p]) \in ends
  BY <1>1 DEF ToSet
<1> HIDE DEF ends
<1>3. f \in Surjection(1..n, ends)
  BY <1>2 DEF Surjection
<1>4. f \in Injection(1..n, ends)
  BY <1>1, <1>2 DEF Injection, IsInjective
<1>5. IsFiniteSet(1..n) /\ Cardinality(1..n) = n
  BY <1>1, FS_Interval
<1> HIDE DEF f
<1>6. Cardinality(ends) = Cardinality(1..n)
  BY <1>3, <1>4, <1>5, FS_Surjection
<1> QED
  BY <1>5, <1>6 DEF ends, replays, n

\* The diagnostics warn about the states that are not reached.
LEMMA WarnedAreUnreached ==
    ASSUME NEW d, NEW s \in Known(d)
    PROVE  s \notin Reachable(d) <=>
             \E g \in Diagnostics(d) : g.code = "unreachable-state" /\ g.state = s
<1> DEFINE unreached == {[code |-> "unreachable-state", state |-> t, handler |-> "none"] :
                            t \in Known(d) \ Reachable(d)}
           terminal == {[code |-> "terminal-state", state |-> t, handler |-> "none"] :
                            t \in {u \in Known(d) : Transitions(d, u) = {}}}
           selves == UNION {{[code |-> "self-transition", state |-> t, handler |-> h.name] :
                            h \in {g \in Transitions(d, t) : g.next = t}} : t \in Known(d)}
<1>1. Diagnostics(d) = (unreached \cup terminal) \cup selves
  BY DEF Diagnostics
<1>2. \A g \in terminal \cup selves : g.code # "unreachable-state"
  OBVIOUS
<1>3. \A g \in unreached : g.code = "unreachable-state" /\ g.state \in Known(d) \ Reachable(d)
  OBVIOUS
<1>4. s \notin Reachable(d) =>
        \E g \in unreached : g.code = "unreachable-state" /\ g.state = s
  <2> DEFINE g == [code |-> "unreachable-state", state |-> s, handler |-> "none"]
  <2>1. s \notin Reachable(d) => g \in unreached
    OBVIOUS
  <2>2. g.code = "unreachable-state" /\ g.state = s
    OBVIOUS
  <2> HIDE DEF g, unreached
  <2> QED
    BY <2>1, <2>2
<1> HIDE DEF unreached, terminal, selves
<1> QED
  BY <1>1, <1>2, <1>3, <1>4

\* The replays of an accepted definition are what ReplaysAreShortest asks for.
LEMMA ShortestOfAccepted == SavedInv => ReplaysAreShortest
<1> SUFFICES ASSUME SavedInv, NEW i \in DOMAIN revisions
             PROVE  LET d == revisions[i]
                        replays == Replays(d)
                        walked == UNION {Walked(d, n) : n \in 0..Len(StateNames)}
                    IN  /\ \A r \in ToSet(replays) :
                            /\ r[1][1] = d.initial
                            /\ \A k \in 1..(Len(r) - 1) : r[k][2].next = r[k + 1][1]
                            /\ \A n \in 0..(Len(r) - 2) : Last(r)[1] \notin Walked(d, n)
                        /\ {Last(r) : r \in ToSet(replays)}
                            = UNION {{<<s, h>> : h \in ToSet(d.handlers[s])} : s \in walked}
                        /\ Cardinality({Last(r) : r \in ToSet(replays)}) = Len(replays)
                        /\ \A s \in Known(d) :
                            s \notin walked <=> \E g \in Diagnostics(d) :
                                g.code = "unreachable-state" /\ g.state = s
  BY Zenon DEF ReplaysAreShortest
<1> DEFINE d == revisions[i]
           replays == Replays(d)
           walked == UNION {Walked(d, n) : n \in 0..Len(StateNames)}
<1>1. Acceptable(d)
  BY DEF SavedInv
<1> HIDE DEF d
<1>2. walked = DOMAIN Paths(d) /\ walked = Reachable(d)
  BY <1>1, WalkedHavePaths, SearchesAgree
<1>3. \A s \in walked : s \in Known(d)
  BY <1>1, <1>2, SearchFindsShortest DEF PathsAreShortest
<1> HIDE DEF walked
<1>4. DOMAIN replays = 1..Len(replays)
  <2>1. replays \in Seq(Seq(Steps(d)))
    BY <1>1, ReplaysAreListed DEF Replayed
  <2> QED
    BY <2>1
<1>5. ASSUME NEW r \in ToSet(replays)
      PROVE  /\ r[1][1] = d.initial
             /\ \A k \in 1..(Len(r) - 1) : r[k][2].next = r[k + 1][1]
             /\ \A n \in 0..(Len(r) - 2) : Last(r)[1] \notin Walked(d, n)
             /\ \E s \in walked : \E h \in ToSet(d.handlers[s]) : Last(r) = <<s, h>>
  <2>1. PICK p \in 1..Len(replays) : r = replays[p]
    BY <1>4 DEF ToSet
  <2>2. IsShortest(d, r)
    BY <1>1, <2>1, ReplaysAreWalks
  <2> QED
    BY <1>2, <2>2, Zenon DEF IsShortest
<1>6. ASSUME NEW s \in walked, NEW h \in ToSet(d.handlers[s])
      PROVE  \E r \in ToSet(replays) : Last(r) = <<s, h>>
  <2>1. PICK j \in DOMAIN d.handlers[s] : h = d.handlers[s][j]
    BY <1>1, <1>3, HandlersAreListed
  <2>2. PICK p \in 1..Len(replays) : replays[p] = Append(Paths(d)[s], <<s, h>>)
    <3>1. \A t \in DOMAIN Paths(d) : \A k \in DOMAIN d.handlers[t] : \E p \in 1..Len(replays) :
            replays[p] = Append(Paths(d)[t], <<t, d.handlers[t][k]>>)
      BY <1>1, ReplaysAreListed DEF Replayed
    <3> HIDE DEF replays
    <3> QED
      BY <1>2, <2>1, <3>1
  <2> DEFINE path == Paths(d)[s]
             r == replays[p]
  <2>3. IsPath(d, path, s) /\ s \in Known(d)
    BY <1>1, <1>2, <1>3, SearchFindsShortest DEF PathsAreShortest
  <2>4. r = Append(path, <<s, h>>) /\ r \in ToSet(replays)
    BY <1>4, <2>2 DEF ToSet
  <2> HIDE DEF path, r
  <2>5. IsReplay(d, path, s, h, r)
    BY <2>3, <2>4, StepIsAdded
  <2>6. Last(r) = <<s, h>>
    BY <2>5 DEF IsReplay, Last
  <2> QED
    BY <2>4, <2>6
<1>7. {Last(r) : r \in ToSet(replays)}
        = UNION {{<<s, h>> : h \in ToSet(d.handlers[s])} : s \in walked}
  <2> DEFINE ends == {Last(r) : r \in ToSet(replays)}
             all == UNION {{<<s, h>> : h \in ToSet(d.handlers[s])} : s \in walked}
  <2> HIDE DEF replays
  <2>1. ASSUME NEW e PROVE e \in ends <=> \E r \in ToSet(replays) : e = Last(r)
    OBVIOUS
  <2>2. ASSUME NEW e
        PROVE  e \in all <=> \E s \in walked : \E h \in ToSet(d.handlers[s]) : e = <<s, h>>
    OBVIOUS
  <2> HIDE DEF ends, all
  <2>3. \A e : e \in ends => e \in all
    BY <1>5, <2>1, <2>2, ZenonT(30)
  <2>4. \A e : e \in all => e \in ends
    <3> SUFFICES ASSUME NEW e \in all PROVE e \in ends
      OBVIOUS
    <3>1. PICK s \in walked : \E h \in ToSet(d.handlers[s]) : e = <<s, h>>
      BY <2>2
    <3>2. PICK h \in ToSet(d.handlers[s]) : e = <<s, h>>
      BY <3>1
    <3>3. PICK r \in ToSet(replays) : Last(r) = <<s, h>>
      BY <1>6
    <3> QED
      BY <2>1, <3>2, <3>3
  <2>5. ends = all
    BY <2>3, <2>4
  <2> QED
    BY <2>5 DEF ends, all
<1>8. Cardinality({Last(r) : r \in ToSet(replays)}) = Len(replays)
  BY <1>1, ReplaysEndApart
<1>9. \A s \in Known(d) :
        s \notin walked <=> \E g \in Diagnostics(d) : g.code = "unreachable-state" /\ g.state = s
  BY <1>2, WarnedAreUnreached
<1> QED
  BY <1>5, <1>7, <1>8, <1>9, Zenon DEF d, replays, walked

\* For any definitions a user may submit, the requests planned for a saved one are walks
\* of its graph from the initial state, end with each handler of each state a walk
\* reaches, once, and are as short as any; the diagnostics warn about the other states.
THEOREM SavedReplaysAreShortest == DesignSpec => []ReplaysAreShortest
<1>1. SavedInv => ReplaysAreShortest
  BY ShortestOfAccepted
<1> QED
  BY <1>1, InitSavedInv, NextSavedInv, PTL DEF DesignSpec
=============================================================================
