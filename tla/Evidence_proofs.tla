--------------------------- MODULE Evidence_proofs --------------------------
(***************************************************************************)
(* The reports of validation runs, for any workspaces and any caps: one    *)
(* that passed undisturbed tells the truth about every configured          *)
(* scenario, and what is generated from a contract validates against       *)
(* itself, in every profile.                                               *)
(***************************************************************************)
EXTENDS Evidence, Design_proofs

-----------------------------------------------------------------------------
(* Lists.                                                                  *)

\* The places of a list.
LEMMA ListHasPlaces ==
    ASSUME NEW s, Listed(s)
    PROVE  /\ Len(s) \in Nat /\ DOMAIN s = 1..Len(s)
           /\ \A i \in DOMAIN s : s[i] \in ToSet(s)
           /\ \A x \in ToSet(s) : \E i \in DOMAIN s : s[i] = x
<1>1. s \in Seq(ToSet(s))
  BY DEF Listed
<1>2. DOMAIN s = 1..Len(s) /\ Len(s) \in Nat
  BY <1>1
<1> QED
  BY <1>1, <1>2 DEF ToSet

\* A sequence of anything is a list.
LEMMA SeqIsListed ==
    ASSUME NEW S, NEW s \in Seq(S)
    PROVE  Listed(s)
<1>1. Len(s) \in Nat /\ s \in [1..Len(s) -> S] /\ DOMAIN s = 1..Len(s)
  OBVIOUS
<1>2. s \in [1..Len(s) -> ToSet(s)]
  <2>1. \A i \in 1..Len(s) : s[i] \in ToSet(s)
    BY <1>1 DEF ToSet
  <2>2. s = [i \in 1..Len(s) |-> s[i]]
    BY <1>1
  <2> QED
    BY <2>1, <2>2
<1>3. s \in Seq(ToSet(s))
  BY <1>1, <1>2, FirstNumbers
<1> QED
  BY <1>3 DEF Listed

\* So is a function on the first numbers.
LEMMA FunctionIsListed ==
    ASSUME NEW n \in Nat, NEW f, DOMAIN f = 1..n, f = [i \in 1..n |-> f[i]]
    PROVE  Listed(f) /\ Len(f) = n
<1> DEFINE S == {f[i] : i \in 1..n}
<1>1. \A i \in 1..n : f[i] \in S
  OBVIOUS
<1>2. f \in [1..n -> S]
  <2> HIDE DEF S
  <2> QED
    BY <1>1
<1> HIDE DEF S
<1>3. f \in Seq(S) /\ Len(f) = n
  BY <1>2, FirstNumbers
<1> QED
  BY <1>3, SeqIsListed

\* The lists that make a list, and the places of their members in it.
Joins(flat, seqs) ==
    /\ Listed(flat)
    /\ \A p \in DOMAIN flat : \E i \in DOMAIN seqs : \E j \in DOMAIN seqs[i] :
        flat[p] = seqs[i][j]
    /\ \A i \in DOMAIN seqs : \A j \in DOMAIN seqs[i] : \E p \in DOMAIN flat :
        flat[p] = seqs[i][j]

\* Lists are joined to a list.
LEMMA ListsAreJoined ==
    ASSUME NEW seqs, Listed(seqs), \A i \in DOMAIN seqs : Listed(seqs[i])
    PROVE  Joins(FlattenSeq(seqs), seqs)
<1> DEFINE n == Len(seqs)
           S == UNION {ToSet(seqs[i]) : i \in DOMAIN seqs}
           flat == FlattenSeq(seqs)
<1>1. n \in Nat /\ DOMAIN seqs = 1..n
  BY ListHasPlaces
<1>2. ASSUME NEW i \in 1..n
      PROVE  /\ seqs[i] \in Seq(S)
             /\ Len(seqs[i]) \in Nat /\ DOMAIN seqs[i] = 1..Len(seqs[i])
  <2> DEFINE s == seqs[i]
  <2>1. Listed(s) /\ i \in DOMAIN seqs
    BY <1>1
  <2>2. /\ Len(s) \in Nat /\ DOMAIN s = 1..Len(s)
        /\ \A j \in DOMAIN s : s[j] \in ToSet(s)
    <3> HIDE DEF s
    <3> QED
      BY <2>1, ListHasPlaces
  <2>3. \A j \in DOMAIN s : s[j] \in S
    BY <2>1, <2>2
  <2>4. s \in Seq(ToSet(s))
    BY <2>1 DEF Listed
  <2> HIDE DEF s, S
  <2>5. s = [j \in 1..Len(s) |-> s[j]]
    BY <2>2, <2>4
  <2>6. s \in [1..Len(s) -> S]
    BY <2>2, <2>3, <2>5
  <2>7. s \in Seq(S)
    BY <2>2, <2>6, FirstNumbers
  <2> QED
    BY <2>2, <2>7 DEF s
<1>3. seqs \in Seq(Seq(S))
  <2> HIDE DEF S
  <2>1. seqs = [i \in 1..n |-> seqs[i]]
    BY <1>1 DEF Listed
  <2>2. seqs \in [1..n -> Seq(S)]
    BY <1>2, <2>1
  <2> HIDE DEF n
  <2> QED
    BY <1>1, <2>2, FirstNumbers
<1> HIDE DEF S
<1>4. flat \in Seq(S) /\ \E at : Places(flat, seqs, n, at)
  BY <1>3, JoinedHasPlaces
<1> HIDE DEF flat
<1>5. PICK at : Places(flat, seqs, n, at)
  BY <1>4
<1>6. Listed(flat) /\ DOMAIN flat = 1..Len(flat)
  BY <1>4, SeqIsListed
<1> HIDE DEF n
<1>7. ASSUME NEW p \in DOMAIN flat
      PROVE  \E i \in DOMAIN seqs : \E j \in DOMAIN seqs[i] : flat[p] = seqs[i][j]
  <2>1. /\ at[p][1] \in 1..n /\ at[p][2] \in 1..Len(seqs[at[p][1]])
        /\ flat[p] = seqs[at[p][1]][at[p][2]]
    BY <1>5, <1>6 DEF Places
  <2> QED
    BY <1>1, <1>2, <2>1
<1>8. ASSUME NEW i \in DOMAIN seqs, NEW j \in DOMAIN seqs[i]
      PROVE  \E p \in DOMAIN flat : flat[p] = seqs[i][j]
  <2>1. i \in 1..n /\ j \in 1..Len(seqs[i])
    BY <1>1, <1>2
  <2>2. PICK p \in 1..Len(flat) : at[p] = <<i, j>>
    BY <1>5, <2>1 DEF Places
  <2>3. flat[p] = seqs[at[p][1]][at[p][2]]
    BY <1>5 DEF Places
  <2> QED
    BY <1>6, <2>2, <2>3
<1> QED
  BY <1>6, <1>7, <1>8 DEF Joins, flat

\* Two lists one after the other.
LEMMA ListsAreAppended ==
    ASSUME NEW s, NEW t, Listed(s), Listed(t)
    PROVE  /\ Listed(s \o t) /\ Len(s \o t) = Len(s) + Len(t)
           /\ \A i \in DOMAIN (s \o t) : (s \o t)[i] = IF i <= Len(s) THEN s[i] ELSE t[i - Len(s)]
<1> DEFINE S == ToSet(s) \cup ToSet(t)
           u == s \o t
<1>1. s \in Seq(ToSet(s)) /\ t \in Seq(ToSet(t))
  BY DEF Listed
<1>2. s \in Seq(S) /\ t \in Seq(S)
  BY <1>1
<1> HIDE DEF S
<1>3. u \in Seq(S) /\ Len(u) = Len(s) + Len(t) /\ DOMAIN u = 1..Len(u)
  BY <1>2
<1>4. \A i \in 1..Len(u) : u[i] = IF i <= Len(s) THEN s[i] ELSE t[i - Len(s)]
  BY <1>2
<1> HIDE DEF u
<1>5. Listed(u)
  BY <1>3, SeqIsListed
<1> QED
  BY <1>3, <1>4, <1>5 DEF u

\* The first members of a list.
LEMMA FirstAreListed ==
    ASSUME NEW s, Listed(s), NEW n \in Nat
    PROVE  LET m == IF Len(s) < n THEN Len(s) ELSE n IN
           /\ Listed(SubSeq(s, 1, m)) /\ Len(SubSeq(s, 1, m)) = m
           /\ \A i \in 1..m : SubSeq(s, 1, m)[i] = s[i]
<1> DEFINE m == IF Len(s) < n THEN Len(s) ELSE n
           u == SubSeq(s, 1, m)
<1>1. Len(s) \in Nat /\ m \in Nat /\ m <= Len(s)
  BY ListHasPlaces
<1>2. s \in Seq(ToSet(s))
  BY DEF Listed
<1> HIDE DEF m
<1>3. u \in Seq(ToSet(s)) /\ Len(u) = m /\ \A i \in 1..m : u[i] = s[i]
  BY <1>1, <1>2
<1> HIDE DEF u
<1>4. Listed(u)
  BY <1>3, SeqIsListed
<1> QED
  BY <1>3, <1>4 DEF u, m

\* Choosing from a list gives a list of the chosen ones.
LEMMA SelectedAreListed ==
    ASSUME NEW s, Listed(s), NEW kept
    PROVE  /\ Listed(Selected(s, kept))
           /\ \A k \in DOMAIN Selected(s, kept) : Selected(s, kept)[k] \in ToSet(s) \cap kept
           /\ \A x \in ToSet(s) \cap kept : \E k \in DOMAIN Selected(s, kept) :
                Selected(s, kept)[k] = x
<1> DEFINE n == Len(s)
           I == {i \in DOMAIN s : s[i] \in kept}
           order == InOrder(I, n)
           chosen == [k \in DOMAIN order |-> s[order[k]]]
<1>1. /\ n \in Nat /\ DOMAIN s = 1..n
      /\ \A i \in DOMAIN s : s[i] \in ToSet(s)
      /\ \A x \in ToSet(s) : \E i \in DOMAIN s : s[i] = x
  BY ListHasPlaces
<1>2. /\ I \in SUBSET (1..n) /\ \A i \in I : s[i] \in kept
      /\ \A i \in DOMAIN s : s[i] \in kept => i \in I
  BY <1>1
<1> HIDE DEF n, I
<1>3. IsFiniteSet(I) /\ Cardinality(I) <= n /\ I \in SUBSET Nat
  BY <1>1, <1>2, NotMoreThan
<1>4. order \in Seq(I) /\ \A i \in I : \E k \in DOMAIN order : order[k] = i
  BY <1>1, <1>3, InOrderLists
<1>5. Selected(s, kept) = chosen
  BY DEF Selected, n, I
<1> HIDE DEF order
<1>6. Len(order) \in Nat /\ DOMAIN order = 1..Len(order) /\ \A k \in DOMAIN order : order[k] \in I
  BY <1>4
<1>7. Listed(chosen) /\ DOMAIN chosen = DOMAIN order
  <2>1. DOMAIN chosen = 1..Len(order) /\ chosen = [k \in 1..Len(order) |-> chosen[k]]
    BY <1>6
  <2> HIDE DEF chosen
  <2> QED
    BY <1>6, <2>1, FunctionIsListed
<1>8. \A k \in DOMAIN chosen : chosen[k] \in ToSet(s) \cap kept
  BY <1>1, <1>2, <1>6
<1>9. ASSUME NEW x \in ToSet(s) \cap kept PROVE \E k \in DOMAIN chosen : chosen[k] = x
  <2>1. PICK i \in DOMAIN s : s[i] = x
    BY <1>1
  <2>2. PICK k \in DOMAIN order : order[k] = i
    BY <1>2, <1>4, <2>1
  <2> QED
    BY <2>1, <2>2
<1> QED
  BY <1>5, <1>7, <1>8, <1>9

-----------------------------------------------------------------------------
(* The planned cases of configured scenarios.                              *)

\* What leaves a state with a path leads to a state with a path.
LEMMA PathsLeadToPaths ==
    ASSUME NEW d, Acceptable(d), NEW s \in DOMAIN Paths(d), NEW h \in ToSet(d.handlers[s]),
           h.next # Stay
    PROVE  h.next \in DOMAIN Paths(d)
<1>1. PICK n \in Nat : s \in Walked(d, n)
  <2>1. Len(StateNames) \in Nat
    BY KnownIsFinite
  <2> QED
    BY <2>1, SearchFindsShortest DEF PathsAreShortest
<1>2. h.next \in Leads(d, s)
  BY DEF Leads, Transitions
<1>3. h.next \in Walked(d, n + 1)
  BY <1>1, <1>2, WalksGoOn
<1> QED
  BY <1>3, SearchFindsShortest DEF PathsAreShortest

\* Every step of a replay leaves a state with a path.
LEMMA ReplaysStayOnPaths ==
    ASSUME NEW d, Acceptable(d), NEW p \in 1..Len(Replays(d))
    PROVE  LET r == Replays(d)[p] IN
           /\ Listed(r)
           /\ \A k \in DOMAIN r : /\ r[k][1] \in DOMAIN Paths(d)
                                  /\ r[k][2] \in ToSet(d.handlers[r[k][1]])
<1> DEFINE r == Replays(d)[p]
           n == Len(r)
           G == {k \in 0..n : k = 0 \/ r[k][1] \in DOMAIN Paths(d)}
<1>1. r \in Seq(Steps(d))
  BY ReplaysAreListed DEF Replayed
<1>2. /\ r[1][1] = d.initial
      /\ \A k \in 1..(n - 1) : r[k][2].next = r[k + 1][1]
  <2>1. IsShortest(d, r)
    BY ReplaysAreWalks
  <2> QED
    BY <2>1, Zenon DEF IsShortest
<1> HIDE DEF r
<1>3. n \in Nat /\ DOMAIN r = 1..n /\ \A k \in 1..n : r[k] \in Steps(d)
  BY <1>1
<1>4. \A k \in 1..n : r[k][1] \in Known(d) /\ r[k][2] \in ToSet(d.handlers[r[k][1]])
  BY <1>3 DEF Steps
<1> HIDE DEF n
<1>5. d.initial \in DOMAIN Paths(d)
  BY SearchFindsShortest, WalksGoOn DEF PathsAreShortest
<1>6. \A k \in 1..n : k - 1 \in G => k \in G
  <2> SUFFICES ASSUME NEW k \in 1..n, k - 1 \in G PROVE r[k][1] \in DOMAIN Paths(d)
    BY <1>3
  <2>1. CASE k = 1
    BY <1>2, <1>5, <2>1
  <2>2. CASE k # 1
    <3>1. k - 1 \in 1..(n - 1) /\ k - 1 \in 1..n /\ (k - 1) + 1 = k
      BY <1>3, <2>2
    <3>2. r[k - 1][1] \in DOMAIN Paths(d) /\ r[k - 1][2].next = r[k][1]
      BY <1>2, <2>2, <3>1
    <3>3. r[k - 1][2].next # Stay
      <4>1. r[k][1] \in ToSet(StateNames)
        BY <1>4, CandidateAssumption DEF Acceptable
      <4> QED
        BY <3>2, <4>1, CandidateAssumption
    <3>4. r[k - 1][2].next \in DOMAIN Paths(d)
      BY <1>4, <3>1, <3>2, <3>3, PathsLeadToPaths
    <3> QED
      BY <3>2, <3>4
  <2> QED
    BY <2>1, <2>2
<1>7. \A k \in 0..n : k \in G
  <2>1. 0 \in G
    BY <1>3
  <2> HIDE DEF G
  <2> QED
    BY <1>3, <1>6, <2>1, Induct
<1>8. \A k \in 1..n : r[k][1] \in DOMAIN Paths(d)
  BY <1>3, <1>7
<1>9. Listed(r)
  BY <1>1, SeqIsListed
<1> QED
  BY <1>3, <1>4, <1>8, <1>9 DEF r

\* The case of a step of a replay.
IsStep(d, c) ==
    /\ c.state \in DOMAIN Paths(d) /\ c.handler \in ToSet(d.handlers[c.state])
    /\ c.reset \in BOOLEAN

\* The cases of all replays: each is a step between states with a path, and each handler of
\* each of them has one.
StepsOf(d, cases) ==
    /\ Listed(cases)
    /\ \A k \in DOMAIN cases : IsStep(d, cases[k])
    /\ \A s \in DOMAIN Paths(d) : \A h \in ToSet(d.handlers[s]) : \E k \in DOMAIN cases :
        cases[k].state = s /\ cases[k].handler = h

\* The replay of a definition has a step for each handler of each state with a path.
LEMMA CasesAreSteps ==
    ASSUME NEW d, Acceptable(d)
    PROVE  StepsOf(d, ReplayCases(d))
<1> DEFINE replays == Replays(d)
           Of(r) == [j \in DOMAIN r |->
                        [state |-> r[j][1], handler |-> r[j][2], reset |-> j = 1]]
           lists == [i \in DOMAIN replays |-> Of(replays[i])]
           cases == FlattenSeq(lists)
<1>0. ReplayCases(d) = cases
  BY DEF ReplayCases
<1>1. Listed(replays) /\ DOMAIN replays = 1..Len(replays) /\ Len(replays) \in Nat
  <2>1. replays \in Seq(Seq(Steps(d)))
    BY ReplaysAreListed DEF Replayed
  <2> HIDE DEF replays
  <2> QED
    BY <2>1, SeqIsListed
<1>2. ASSUME NEW i \in DOMAIN replays
      PROVE  /\ Listed(replays[i])
             /\ \A k \in DOMAIN replays[i] :
                 /\ replays[i][k][1] \in DOMAIN Paths(d)
                 /\ replays[i][k][2] \in ToSet(d.handlers[replays[i][k][1]])
  BY <1>1, ReplaysStayOnPaths
<1>3. \A s \in DOMAIN Paths(d) : \A h \in ToSet(d.handlers[s]) : \E i \in DOMAIN replays :
        \E k \in DOMAIN replays[i] : replays[i][k][1] = s /\ replays[i][k][2] = h
  <2> SUFFICES ASSUME NEW s \in DOMAIN Paths(d), NEW h \in ToSet(d.handlers[s])
               PROVE  \E i \in DOMAIN replays : \E k \in DOMAIN replays[i] :
                        replays[i][k][1] = s /\ replays[i][k][2] = h
    OBVIOUS
  <2>1. s \in Known(d) /\ IsPath(d, Paths(d)[s], s)
    BY SearchFindsShortest DEF PathsAreShortest
  <2>2. PICK j \in DOMAIN d.handlers[s] : h = d.handlers[s][j]
    BY <2>1, HandlersAreListed
  <2>3. PICK i \in 1..Len(replays) : replays[i] = Append(Paths(d)[s], <<s, h>>)
    <3>1. \A t \in DOMAIN Paths(d) : \A k \in DOMAIN d.handlers[t] : \E p \in 1..Len(replays) :
            replays[p] = Append(Paths(d)[t], <<t, d.handlers[t][k]>>)
      BY ReplaysAreListed DEF Replayed
    <3> HIDE DEF replays
    <3> QED
      BY <2>2, <3>1
  <2> DEFINE path == Paths(d)[s]
             r == replays[i]
  <2>4. r = Append(path, <<s, h>>)
    BY <2>3
  <2>5. Listed(r)
    BY <1>1, <1>2
  <2>6. path \in Seq(Steps(d))
    BY <2>1 DEF IsPath
  <2> HIDE DEF path, r
  <2>7. Len(path) + 1 \in DOMAIN r /\ r[Len(path) + 1] = <<s, h>>
    BY <2>4, <2>6
  <2> QED
    BY <1>1, <2>7 DEF r
<1> HIDE DEF replays
<1>4. ASSUME NEW i \in DOMAIN replays
      PROVE  /\ Listed(lists[i]) /\ DOMAIN lists[i] = DOMAIN replays[i]
             /\ \A k \in DOMAIN replays[i] :
                 lists[i][k] = [state |-> replays[i][k][1], handler |-> replays[i][k][2],
                                reset |-> k = 1]
  <2> DEFINE r == replays[i]
             f == Of(r)
  <2>1. lists[i] = f
    OBVIOUS
  <2>2. Len(r) \in Nat /\ DOMAIN r = 1..Len(r)
    BY <1>2, ListHasPlaces
  <2> HIDE DEF r
  <2>3. /\ DOMAIN f = 1..Len(r) /\ f = [j \in 1..Len(r) |-> f[j]]
        /\ \A k \in DOMAIN r : f[k] = [state |-> r[k][1], handler |-> r[k][2], reset |-> k = 1]
    BY <2>2
  <2> HIDE DEF f
  <2>4. Listed(f)
    BY <2>2, <2>3, FunctionIsListed
  <2> HIDE DEF lists
  <2> QED
    BY <2>1, <2>2, <2>3, <2>4 DEF r
<1>5. Listed(lists) /\ DOMAIN lists = DOMAIN replays
  <2>1. DOMAIN lists = 1..Len(replays) /\ lists = [i \in 1..Len(replays) |-> lists[i]]
    BY <1>1
  <2> HIDE DEF lists
  <2> QED
    BY <1>1, <2>1, FunctionIsListed
<1> HIDE DEF lists
<1>6. Joins(cases, lists)
  BY <1>4, <1>5, ListsAreJoined
<1> HIDE DEF cases
<1>7. ASSUME NEW k \in DOMAIN cases PROVE IsStep(d, cases[k])
  <2>1. PICK i \in DOMAIN lists : \E j \in DOMAIN lists[i] : cases[k] = lists[i][j]
    BY <1>6 DEF Joins
  <2>2. PICK j \in DOMAIN lists[i] : cases[k] = lists[i][j]
    BY <2>1
  <2>3. cases[k] = [state |-> replays[i][j][1], handler |-> replays[i][j][2], reset |-> j = 1]
    <3>1. i \in DOMAIN replays
      BY <1>5
    <3>2. j \in DOMAIN replays[i]
      BY <1>4, <2>2, <3>1
    <3> QED
      BY <1>4, <2>2, <3>1, <3>2, Zenon
  <2> QED
    BY <1>2, <1>4, <1>5, <2>3 DEF IsStep
<1>8. ASSUME NEW s \in DOMAIN Paths(d), NEW h \in ToSet(d.handlers[s])
      PROVE  \E k \in DOMAIN cases : cases[k].state = s /\ cases[k].handler = h
  <2>1. PICK i \in DOMAIN replays :
            \E k \in DOMAIN replays[i] : replays[i][k][1] = s /\ replays[i][k][2] = h
    BY <1>3
  <2>2. PICK j \in DOMAIN replays[i] : replays[i][j][1] = s /\ replays[i][j][2] = h
    BY <2>1
  <2>3. PICK k \in DOMAIN cases : cases[k] = lists[i][j]
    BY <1>4, <1>5, <1>6 DEF Joins
  <2>4. cases[k].state = s /\ cases[k].handler = h
    <3>1. cases[k] = [state |-> replays[i][j][1], handler |-> replays[i][j][2], reset |-> j = 1]
      BY <1>4, <2>1, <2>2, <2>3
    <3>2. cases[k].state = replays[i][j][1] /\ cases[k].handler = replays[i][j][2]
      BY <3>1
    <3> QED
      BY <2>2, <3>2
  <2> QED
    BY <2>3, <2>4
<1>9. StepsOf(d, cases)
  BY <1>6, <1>7, <1>8, Zenon DEF StepsOf, Joins
<1> QED
  BY <1>0, <1>9 DEF cases

\* A case sends the request of a handler of a state and expects what the handler says.
Asks(c, id, s, h) ==
    /\ c.scenario = id /\ c.required = s
    /\ c.request = RequestOf(h) /\ c.status = h.status /\ c.next = h.next

\* The cases of the configured scenarios: each is asked in a state with a path, and each
\* handler of each of them is asked.
ScenarioPlan(w, cases) ==
    /\ Listed(cases)
    /\ \A k \in DOMAIN cases : \E id \in DOMAIN w.scenarios :
        \E s \in DOMAIN Paths(w.scenarios[id]) :
            \E h \in ToSet(w.scenarios[id].handlers[s]) : Asks(cases[k], id, s, h)
    /\ \A id \in DOMAIN w.scenarios : \A s \in DOMAIN Paths(w.scenarios[id]) :
        \A h \in ToSet(w.scenarios[id].handlers[s]) :
            \E k \in DOMAIN cases : Asks(cases[k], id, s, h)

\* The definitions of a workspace are accepted ones of known ids.
LEMMA ConfiguredAreAccepted ==
    ASSUME NEW w \in Workspaces, NEW id \in DOMAIN w.scenarios
    PROVE  /\ Acceptable(w.scenarios[id]) /\ id # "none" /\ id \in ScenarioNames
           /\ \E i \in DOMAIN Ids : Ids[i] = id
<1>1. /\ id \in ToSet(Ids) /\ "none" \notin ToSet(Ids) /\ Listed(Ids)
      /\ w.scenarios[id] \in Candidates
      /\ WellFormed(w.scenarios[id]) /\ AgreesWithContract(w.scenarios[id])
  BY WorkspaceAssumption
<1>2. \E i \in DOMAIN Ids : Ids[i] = id
  BY <1>1, ListHasPlaces
<1> QED
  BY <1>1, <1>2 DEF Acceptable, ScenarioNames

\* ScenarioCases asks each handler of each state with a path, and nothing else.
LEMMA ScenarioCasesArePlanned ==
    ASSUME NEW w \in Workspaces
    PROVE  ScenarioPlan(w, ScenarioCases(w))
<1> DEFINE CaseOf(id, c) ==
                [op |-> "none", request |-> RequestOf(c.handler), status |-> c.handler.status,
                 schema |-> <<c.handler.path, c.handler.status>>,
                 scenario |-> id, required |-> c.state, handler |-> c.handler.name,
                 next |-> c.handler.next, reset |-> c.reset, pairs |-> {}]
           steps(id) == ReplayCases(w.scenarios[id])
           Of(id) == IF id \notin DOMAIN w.scenarios THEN <<>>
                     ELSE [k \in DOMAIN steps(id) |-> CaseOf(id, steps(id)[k])]
           lists == [i \in DOMAIN Ids |-> Of(Ids[i])]
           cases == FlattenSeq(lists)
<1>0. ScenarioCases(w) = cases
  BY DEF ScenarioCases, Concat, Each
<1>1. Len(Ids) \in Nat /\ DOMAIN Ids = 1..Len(Ids)
  BY WorkspaceAssumption, ListHasPlaces
<1>2. ASSUME NEW id \in DOMAIN w.scenarios PROVE StepsOf(w.scenarios[id], steps(id))
  BY ConfiguredAreAccepted, CasesAreSteps
<1> HIDE DEF steps
<1>3. ASSUME NEW i \in DOMAIN Ids
      PROVE  /\ Listed(lists[i])
             /\ Ids[i] \notin DOMAIN w.scenarios => DOMAIN lists[i] = {}
             /\ Ids[i] \in DOMAIN w.scenarios =>
                    /\ DOMAIN lists[i] = DOMAIN steps(Ids[i])
                    /\ \A k \in DOMAIN lists[i] : lists[i][k] = CaseOf(Ids[i], steps(Ids[i])[k])
  <2> DEFINE id == Ids[i]
  <2>0. lists[i] = Of(id)
    OBVIOUS
  <2>1. CASE id \notin DOMAIN w.scenarios
    <3>1. lists[i] = <<>>
      BY <2>0, <2>1
    <3>2. Listed(<<>>) /\ DOMAIN <<>> = {}
      BY DEF Listed
    <3> QED
      BY <2>1, <3>1, <3>2
  <2>2. CASE id \in DOMAIN w.scenarios
    <3> DEFINE f == [k \in DOMAIN steps(id) |-> CaseOf(id, steps(id)[k])]
               n == Len(steps(id))
    <3>1. n \in Nat /\ DOMAIN steps(id) = 1..n
      BY <1>2, <2>2, ListHasPlaces DEF StepsOf
    <3>2. /\ DOMAIN f = 1..n /\ f = [k \in 1..n |-> f[k]]
          /\ \A k \in DOMAIN f : f[k] = CaseOf(id, steps(id)[k])
      BY <3>1
    <3>3. lists[i] = f
      BY <2>0, <2>2
    <3> HIDE DEF f, n
    <3>4. Listed(f)
      BY <3>1, <3>2, FunctionIsListed
    <3> HIDE DEF lists, CaseOf
    <3> QED
      BY <2>2, <3>1, <3>2, <3>3, <3>4
  <2> QED
    BY <2>1, <2>2
<1>4. Listed(lists) /\ DOMAIN lists = DOMAIN Ids
  <2>1. DOMAIN lists = 1..Len(Ids) /\ lists = [i \in 1..Len(Ids) |-> lists[i]]
    BY <1>1
  <2> HIDE DEF lists
  <2> QED
    BY <1>1, <2>1, FunctionIsListed
<1> HIDE DEF lists
<1>5. Joins(cases, lists)
  BY <1>3, <1>4, ListsAreJoined
<1> HIDE DEF cases
<1>6. ASSUME NEW k \in DOMAIN cases
      PROVE  \E id \in DOMAIN w.scenarios : \E s \in DOMAIN Paths(w.scenarios[id]) :
                \E h \in ToSet(w.scenarios[id].handlers[s]) : Asks(cases[k], id, s, h)
  <2>1. PICK i \in DOMAIN lists : \E j \in DOMAIN lists[i] : cases[k] = lists[i][j]
    BY <1>5 DEF Joins
  <2>2. PICK j \in DOMAIN lists[i] : cases[k] = lists[i][j]
    BY <2>1
  <2> DEFINE id == Ids[i]
             c == steps(id)[j]
  <2>3. id \in DOMAIN w.scenarios
    BY <1>3, <1>4, <2>2
  <2>4. j \in DOMAIN steps(id) /\ cases[k] = CaseOf(id, c)
    BY <1>3, <1>4, <2>2, <2>3
  <2>5. IsStep(w.scenarios[id], c)
    BY <1>2, <2>3, <2>4 DEF StepsOf
  <2> HIDE DEF id, c
  <2>6. Asks(cases[k], id, c.state, c.handler)
    BY <2>4 DEF Asks
  <2> QED
    BY <2>3, <2>5, <2>6 DEF IsStep
<1>7. ASSUME NEW id \in DOMAIN w.scenarios, NEW s \in DOMAIN Paths(w.scenarios[id]),
             NEW h \in ToSet(w.scenarios[id].handlers[s])
      PROVE  \E k \in DOMAIN cases : Asks(cases[k], id, s, h)
  <2>1. PICK i \in DOMAIN Ids : Ids[i] = id
    BY ConfiguredAreAccepted
  <2>2. PICK j \in DOMAIN steps(id) : steps(id)[j].state = s /\ steps(id)[j].handler = h
    BY <1>2 DEF StepsOf
  <2>3. j \in DOMAIN lists[i] /\ lists[i][j] = CaseOf(id, steps(id)[j])
    BY <1>3, <2>1, <2>2
  <2>4. PICK k \in DOMAIN cases : cases[k] = lists[i][j]
    BY <1>4, <1>5, <2>3 DEF Joins
  <2>5. cases[k] = CaseOf(id, steps(id)[j])
    BY <2>3, <2>4
  <2>6. Asks(cases[k], id, s, h)
    BY <2>2, <2>5 DEF Asks
  <2> QED
    BY <2>4, <2>6
<1>8. ScenarioPlan(w, cases)
  <2>1. Listed(cases)
    BY <1>5 DEF Joins
  <2> QED
    BY <1>6, <1>7, <2>1, Zenon DEF ScenarioPlan
<1> QED
  BY <1>0, <1>8

-----------------------------------------------------------------------------
(* The other cases.                                                        *)

\* A list of cases outside the configured scenarios.
Outside(cases) ==
    /\ Listed(cases)
    /\ \A k \in DOMAIN cases : cases[k].scenario = "none" /\ ~ cases[k].reset

\* No cases are cases outside.
LEMMA NothingIsOutside == Outside(<<>>)
<1>1. Listed(<<>>) /\ DOMAIN <<>> = {}
  BY DEF Listed
<1> QED
  BY <1>1 DEF Outside

\* Two lists of cases outside, one after the other.
LEMMA OutsideAppended ==
    ASSUME NEW s, NEW t, Outside(s), Outside(t)
    PROVE  Outside(s \o t)
<1> DEFINE u == s \o t
<1>1. Listed(s) /\ Listed(t)
  BY DEF Outside
<1>2. /\ Listed(u) /\ Len(u) = Len(s) + Len(t)
      /\ \A i \in DOMAIN u : u[i] = IF i <= Len(s) THEN s[i] ELSE t[i - Len(s)]
  BY <1>1, ListsAreAppended
<1>3. /\ Len(s) \in Nat /\ DOMAIN s = 1..Len(s)
      /\ Len(t) \in Nat /\ DOMAIN t = 1..Len(t)
  BY <1>1, ListHasPlaces
<1> HIDE DEF u
<1>4. DOMAIN u = 1..Len(u)
  BY <1>2, ListHasPlaces
<1>5. ASSUME NEW i \in DOMAIN u PROVE u[i].scenario = "none" /\ ~ u[i].reset
  <2>1. CASE i <= Len(s)
    <3>1. i \in DOMAIN s /\ u[i] = s[i]
      BY <1>2, <1>3, <1>4, <2>1
    <3> QED
      BY <3>1 DEF Outside
  <2>2. CASE ~ (i <= Len(s))
    <3>1. i - Len(s) \in DOMAIN t /\ u[i] = t[i - Len(s)]
      BY <1>2, <1>3, <1>4, <2>2
    <3> QED
      BY <3>1 DEF Outside
  <2> QED
    BY <2>1, <2>2
<1>6. Outside(u)
  BY <1>2, <1>5, Zenon DEF Outside
<1> QED
  BY <1>6 DEF u

\* Any number of them.
LEMMA OutsideJoined ==
    ASSUME NEW seqs, Listed(seqs), \A i \in DOMAIN seqs : Outside(seqs[i])
    PROVE  Outside(FlattenSeq(seqs))
<1> DEFINE flat == FlattenSeq(seqs)
<1>1. \A i \in DOMAIN seqs : Listed(seqs[i])
  BY DEF Outside
<1>2. Joins(flat, seqs)
  BY <1>1, ListsAreJoined
<1> HIDE DEF flat
<1>3. ASSUME NEW p \in DOMAIN flat PROVE flat[p].scenario = "none" /\ ~ flat[p].reset
  <2>1. PICK i \in DOMAIN seqs : \E j \in DOMAIN seqs[i] : flat[p] = seqs[i][j]
    BY <1>2 DEF Joins
  <2>2. PICK j \in DOMAIN seqs[i] : flat[p] = seqs[i][j]
    BY <2>1
  <2> QED
    BY <2>2 DEF Outside
<1>4. Listed(flat)
  BY <1>2 DEF Joins
<1>5. Outside(flat)
  BY <1>3, <1>4, Zenon DEF Outside
<1> QED
  BY <1>5 DEF flat

\* A plain case is one outside.
LEMMA CaseIsOutside ==
    ASSUME NEW op, NEW request, NEW status, NEW schema
    PROVE  /\ Case(op, request, status, schema).scenario = "none"
           /\ ~ Case(op, request, status, schema).reset
  BY DEF Case

\* The cases of one request in each profile.
LEMMA ProfileIsOutside ==
    ASSUME NEW w, NEW op, NEW request, NEW status, NEW schema
    PROVE  Outside(InProfile(w, op, request, status, schema))
<1> DEFINE a == Case(op, request, status, schema)
           b == Failing(op, request)
           planned == InProfile(w, op, request, status, schema)
<1>0. a.scenario = "none" /\ ~ a.reset /\ b.scenario = "none" /\ ~ b.reset
  BY CaseIsOutside DEF Failing
<1> HIDE DEF a, b
<1>1. Listed(<<a>>) /\ Listed(<<b>>) /\ Listed(<<a, b>>)
  <2>1. /\ <<a>> \in Seq({a, b}) /\ <<b>> \in Seq({a, b})
        /\ <<a, b>> \in Seq({a, b})
    OBVIOUS
  <2> QED
    BY <2>1, SeqIsListed
<1>2. Outside(<<a>>) /\ Outside(<<b>>) /\ Outside(<<a, b>>)
  BY <1>0, <1>1 DEF Outside
<1>3. planned = <<a>> \/ planned = <<b>> \/ planned = <<a, b>>
  BY DEF InProfile, a, b
<1> QED
  BY <1>2, <1>3

\* The prefix of a list is one.
LEMMA PrefixIsListed ==
    ASSUME NEW s, Listed(s), NEW n \in Nat
    PROVE  /\ Listed(Prefix(s, n)) /\ Len(Prefix(s, n)) = Smaller(Len(s), n)
           /\ \A i \in DOMAIN Prefix(s, n) : i \in DOMAIN s /\ Prefix(s, n)[i] = s[i]
<1> DEFINE m == IF Len(s) < n THEN Len(s) ELSE n
           u == Prefix(s, n)
<1>1. u = SubSeq(s, 1, m)
  BY DEF Prefix
<1>2. Listed(u) /\ Len(u) = m /\ \A i \in 1..m : u[i] = s[i]
  BY <1>1, FirstAreListed
<1>3. Len(s) \in Nat /\ DOMAIN s = 1..Len(s)
  BY ListHasPlaces
<1> HIDE DEF u
<1>4. DOMAIN u = 1..m
  BY <1>2, ListHasPlaces
<1>5. \A i \in 1..m : i \in DOMAIN s
  BY <1>3
<1>6. m = Smaller(Len(s), n)
  BY <1>3 DEF Smaller
<1> HIDE DEF m
<1> QED
  BY <1>2, <1>4, <1>5, <1>6 DEF u

\* What is made of each member of a list.
LEMMA EachIsListed ==
    ASSUME NEW s, Listed(s), NEW f, DOMAIN f = DOMAIN s, f = [i \in DOMAIN s |-> f[i]]
    PROVE  Listed(f) /\ Len(f) = Len(s)
  BY ListHasPlaces, FunctionIsListed

\* The eligibility cases.
LEMMA EligibilityIsOutside ==
    ASSUME NEW w \in Workspaces
    PROVE  Outside(EligibilityCases(w))
<1> DEFINE members == IF w.dataset = <<>> THEN <<[lookup |-> DefaultPath]>>
                      ELSE Prefix(w.dataset, MaxDataset)
           step(op, request, status) == IF w.profile = "unavailable" THEN Failing(op, request)
                                        ELSE Checked(op, request, status)
           lists == [i \in DOMAIN members |->
                        InProfile(w, "check", Lookup(members[i].lookup), 200, <<"check", 200>>)]
           unknown == InProfile(w, "check", Lookup(UnknownPath), 404, NoSchema)
           a == step("begin", BeginRequest, 202)
           b == step("get", Lookup(StatusPath), 200)
           journey == <<a, b, b>>
<1>1. EligibilityCases(w) = (FlattenSeq(lists) \o unknown) \o journey
  BY DEF EligibilityCases, Concat
<1>2. Listed(members)
  <2>1. CASE w.dataset = <<>>
    <3>1. <<[lookup |-> DefaultPath]>> \in Seq({[lookup |-> DefaultPath]})
      OBVIOUS
    <3> QED
      BY <2>1, <3>1, SeqIsListed
  <2>2. CASE w.dataset # <<>>
    <3>1. Listed(w.dataset) /\ MaxDataset \in Nat
      BY WorkspaceAssumption
    <3> QED
      BY <2>2, <3>1, PrefixIsListed
  <2> QED
    BY <2>1, <2>2
<1> HIDE DEF members
<1>3. Listed(lists) /\ \A i \in DOMAIN lists : Outside(lists[i])
  <2>1. DOMAIN lists = DOMAIN members /\ lists = [i \in DOMAIN members |-> lists[i]]
    OBVIOUS
  <2>2. \A i \in DOMAIN lists : Outside(lists[i])
    BY ProfileIsOutside
  <2> HIDE DEF lists
  <2> QED
    BY <1>2, <2>1, <2>2, EachIsListed
<1>4. Outside(journey)
  <2>1. a.scenario = "none" /\ ~ a.reset /\ b.scenario = "none" /\ ~ b.reset
    BY CaseIsOutside DEF Failing, Checked
  <2> HIDE DEF a, b
  <2>2. journey \in Seq({a, b})
    OBVIOUS
  <2>3. Listed(journey)
    BY <2>2, SeqIsListed
  <2>4. DOMAIN journey = 1..3 /\ \A k \in 1..3 : journey[k] \in {a, b}
    OBVIOUS
  <2> HIDE DEF journey
  <2> QED
    BY <2>1, <2>3, <2>4 DEF Outside
<1> HIDE DEF lists, journey
<1>5. Outside(FlattenSeq(lists))
  BY <1>3, OutsideJoined
<1>6. Outside(FlattenSeq(lists) \o unknown)
  BY <1>5, ProfileIsOutside, OutsideAppended
<1>7. Outside((FlattenSeq(lists) \o unknown) \o journey)
  BY <1>4, <1>6, OutsideAppended
<1> QED
  BY <1>1, <1>7

\* The cases of stored and baseline requests.
LEMMA GenericIsOutside ==
    ASSUME NEW w \in Workspaces
    PROVE  Outside(GenericCases(w))
<1> DEFINE selected == Prefix(w.dataset, MaxDataset)
           covered == {c.op : c \in ToSet(selected)}
           rest == Selected(w.operations, ToSet(w.operations) \ covered)
           planned(op, request) == InProfile(w, op, request, Success[op], <<op, Success[op]>>)
           stored == [i \in DOMAIN selected |-> planned(selected[i].op, Sent(selected[i]))]
           base == [i \in DOMAIN rest |-> planned(rest[i], Baseline[rest[i]])]
<1>1. GenericCases(w) = FlattenSeq(stored) \o FlattenSeq(base)
  BY DEF GenericCases, Concat
<1>2. Listed(selected) /\ Listed(rest)
  <2>1. Listed(w.dataset) /\ MaxDataset \in Nat /\ Listed(w.operations)
    BY WorkspaceAssumption
  <2> QED
    BY <2>1, PrefixIsListed, SelectedAreListed
<1> HIDE DEF selected, rest
<1>3. Listed(stored) /\ \A i \in DOMAIN stored : Outside(stored[i])
  <2>1. DOMAIN stored = DOMAIN selected /\ stored = [i \in DOMAIN selected |-> stored[i]]
    OBVIOUS
  <2>2. \A i \in DOMAIN stored : Outside(stored[i])
    BY ProfileIsOutside
  <2> HIDE DEF stored
  <2> QED
    BY <1>2, <2>1, <2>2, EachIsListed
<1>4. Listed(base) /\ \A i \in DOMAIN base : Outside(base[i])
  <2>1. DOMAIN base = DOMAIN rest /\ base = [i \in DOMAIN rest |-> base[i]]
    OBVIOUS
  <2>2. \A i \in DOMAIN base : Outside(base[i])
    BY ProfileIsOutside
  <2> HIDE DEF base
  <2> QED
    BY <1>2, <2>1, <2>2, EachIsListed
<1> HIDE DEF stored, base
<1>5. Outside(FlattenSeq(stored)) /\ Outside(FlattenSeq(base))
  BY <1>3, <1>4, OutsideJoined
<1> QED
  BY <1>1, <1>5, OutsideAppended

\* The chosen candidates of edge cases.
LEMMA EdgesAreListed ==
    ASSUME NEW w \in Workspaces, NEW polarities, NEW n \in Nat
    PROVE  /\ Listed(EdgeCases(w, polarities, n))
           /\ \A k \in DOMAIN EdgeCases(w, polarities, n) :
                LET e == EdgeCases(w, polarities, n)[k] IN
                e \in ToSet(w.edges) /\ e.op \in ToSet(w.operations) /\ e.polarity \in polarities
<1> DEFINE kept(op) == {e \in ToSet(w.edges) : e.op = op /\ e.polarity \in polarities}
           of(op) == Selected(w.edges, kept(op))
           lists == [i \in DOMAIN w.operations |-> Prefix(of(w.operations[i]), n)]
           all == FlattenSeq(lists)
           edges == Prefix(all, MaxEdges)
<1>1. EdgeCases(w, polarities, n) = edges
  BY DEF EdgeCases, Concat
<1>2. Listed(w.operations) /\ Listed(w.edges) /\ MaxEdges \in Nat
  BY WorkspaceAssumption
<1>3. \A i \in DOMAIN w.operations : w.operations[i] \in ToSet(w.operations)
  BY <1>2, ListHasPlaces
<1>4. ASSUME NEW i \in DOMAIN w.operations
      PROVE  /\ Listed(lists[i])
             /\ \A k \in DOMAIN lists[i] : lists[i][k] \in kept(w.operations[i])
  <2> DEFINE op == w.operations[i]
             chosen == of(op)
  <2>1. lists[i] = Prefix(chosen, n)
    OBVIOUS
  <2>2. Listed(chosen) /\ \A k \in DOMAIN chosen : chosen[k] \in kept(op)
    BY <1>2, SelectedAreListed
  <2> HIDE DEF chosen, kept, lists
  <2>3. /\ Listed(Prefix(chosen, n))
        /\ \A k \in DOMAIN Prefix(chosen, n) :
                k \in DOMAIN chosen /\ Prefix(chosen, n)[k] = chosen[k]
    BY <2>2, PrefixIsListed
  <2> QED
    BY <2>1, <2>2, <2>3
<1>5. Listed(lists) /\ DOMAIN lists = DOMAIN w.operations
  <2>1. DOMAIN lists = DOMAIN w.operations /\ lists = [i \in DOMAIN w.operations |-> lists[i]]
    OBVIOUS
  <2> HIDE DEF lists
  <2> QED
    BY <1>2, <2>1, EachIsListed
<1> HIDE DEF lists
<1>6. Joins(all, lists)
  BY <1>4, <1>5, ListsAreJoined
<1> HIDE DEF all
<1>7. /\ Listed(edges)
      /\ \A k \in DOMAIN edges : k \in DOMAIN all /\ edges[k] = all[k]
  <2>1. Listed(all)
    BY <1>6 DEF Joins
  <2> QED
    BY <1>2, <2>1, PrefixIsListed
<1> HIDE DEF edges
<1>8. ASSUME NEW k \in DOMAIN edges
      PROVE  /\ edges[k] \in ToSet(w.edges) /\ edges[k].op \in ToSet(w.operations)
             /\ edges[k].polarity \in polarities
  <2>1. PICK i \in DOMAIN lists : \E j \in DOMAIN lists[i] : all[k] = lists[i][j]
    BY <1>6, <1>7 DEF Joins
  <2>2. PICK j \in DOMAIN lists[i] : all[k] = lists[i][j]
    BY <2>1
  <2>3. edges[k] \in kept(w.operations[i])
    BY <1>4, <1>5, <1>7, <2>2
  <2> QED
    BY <1>3, <1>5, <2>3
<1> QED
  BY <1>1, <1>7, <1>8

-----------------------------------------------------------------------------
(* The plan.                                                               *)

\* The cases of the configured scenarios are in one piece of the plan; the others are
\* outside them.
PlanShape(w, plan) ==
    /\ Listed(plan)
    /\ \E n \in Nat :
        /\ \A j \in DOMAIN ScenarioCases(w) :
            n + j \in DOMAIN plan /\ plan[n + j] = ScenarioCases(w)[j]
        /\ \A k \in DOMAIN plan :
            \/ plan[k].scenario = "none" /\ ~ plan[k].reset
            \/ \E j \in DOMAIN ScenarioCases(w) : k = n + j

\* The plan of a workspace, with any options, has this shape.
LEMMA PlanHasShape ==
    ASSUME NEW w \in Workspaces, NEW options
    PROVE  PlanShape(w, Plan(w, options))
<1> DEFINE base == IF w.eligibility THEN EligibilityCases(w) ELSE GenericCases(w)
           middle == ScenarioCases(w)
           candidates == EdgeCases(w, Polarities(options), PlannedEdges)
           edges == [k \in DOMAIN candidates |->
                        Checked(candidates[k].op, Sent(candidates[k]), EdgeStatus(candidates[k]))]
           rowCases == [k \in DOMAIN w.rows |->
                        [Checked(w.rows[k].op, Sent(w.rows[k]), Success[w.rows[k].op])
                            EXCEPT !.pairs = w.rows[k].ids]]
           last == IF options.pairwise THEN rowCases ELSE <<>>
           plan == ((base \o middle) \o edges) \o last
<1>1. Plan(w, options) = plan
  BY DEF Plan, Each
<1>2. Outside(base)
  BY EligibilityIsOutside, GenericIsOutside
<1>3. Listed(middle)
  BY ScenarioCasesArePlanned DEF ScenarioPlan
<1>4. Outside(edges)
  <2>1. Listed(candidates)
    BY WorkspaceAssumption, EdgesAreListed
  <2> HIDE DEF candidates
  <2>2. DOMAIN edges = DOMAIN candidates /\ edges = [k \in DOMAIN candidates |-> edges[k]]
    OBVIOUS
  <2>3. \A k \in DOMAIN edges : edges[k].scenario = "none" /\ ~ edges[k].reset
    BY CaseIsOutside DEF Checked
  <2> HIDE DEF edges
  <2>4. Listed(edges)
    BY <2>1, <2>2, EachIsListed
  <2> QED
    BY <2>3, <2>4 DEF Outside
<1>5. Outside(last)
  <2>1. Listed(w.rows)
    BY WorkspaceAssumption
  <2>2. DOMAIN rowCases = DOMAIN w.rows /\ rowCases = [k \in DOMAIN w.rows |-> rowCases[k]]
    OBVIOUS
  <2>3. \A k \in DOMAIN rowCases : rowCases[k].scenario = "none" /\ ~ rowCases[k].reset
    BY CaseIsOutside DEF Checked
  <2> HIDE DEF rowCases
  <2>4. Outside(rowCases)
    BY <2>1, <2>2, <2>3, EachIsListed DEF Outside
  <2> QED
    BY <2>4, NothingIsOutside
<1> HIDE DEF base, edges, last
<1> DEFINE front == base \o middle
           tail == edges \o last
           n == Len(base)
<1>6. /\ Listed(base) /\ Listed(edges) /\ Listed(last)
      /\ n \in Nat /\ DOMAIN base = 1..n
      /\ Len(middle) \in Nat /\ DOMAIN middle = 1..Len(middle)
  BY <1>2, <1>3, <1>4, <1>5, ListHasPlaces DEF Outside
<1> HIDE DEF middle
<1>7. /\ Listed(front) /\ Len(front) = n + Len(middle) /\ DOMAIN front = 1..Len(front)
      /\ \A i \in DOMAIN front : front[i] = IF i <= n THEN base[i] ELSE middle[i - n]
  <2>1. /\ Listed(front) /\ Len(front) = n + Len(middle)
        /\ \A i \in DOMAIN front : front[i] = IF i <= n THEN base[i] ELSE middle[i - n]
    BY <1>3, <1>6, ListsAreAppended
  <2> HIDE DEF front
  <2> QED
    BY <2>1, ListHasPlaces
<1> HIDE DEF front
<1>8. Outside(tail) /\ Listed(tail) /\ Len(tail) \in Nat /\ DOMAIN tail = 1..Len(tail)
  <2>1. Outside(tail)
    BY <1>4, <1>5, OutsideAppended
  <2> HIDE DEF tail
  <2> QED
    BY <2>1, ListHasPlaces DEF Outside
<1>9. plan = front \o tail
  <2> DEFINE S == (ToSet(front) \cup ToSet(edges)) \cup ToSet(last)
  <2>1. front \in Seq(ToSet(front)) /\ edges \in Seq(ToSet(edges)) /\ last \in Seq(ToSet(last))
    BY <1>6, <1>7 DEF Listed
  <2>2. front \in Seq(S) /\ edges \in Seq(S) /\ last \in Seq(S)
    BY <2>1
  <2> HIDE DEF S
  <2>3. (front \o edges) \o last = front \o (edges \o last)
    BY <2>2
  <2> QED
    BY <2>3 DEF front
<1> HIDE DEF tail, plan
<1>10. /\ Listed(plan) /\ Len(plan) = Len(front) + Len(tail) /\ DOMAIN plan = 1..Len(plan)
       /\ \A i \in DOMAIN plan :
            plan[i] = IF i <= Len(front) THEN front[i] ELSE tail[i - Len(front)]
  <2>1. /\ Listed(front \o tail) /\ Len(front \o tail) = Len(front) + Len(tail)
        /\ \A i \in DOMAIN (front \o tail) :
            (front \o tail)[i] = IF i <= Len(front) THEN front[i] ELSE tail[i - Len(front)]
    BY <1>7, <1>8, ListsAreAppended
  <2> QED
    BY <1>9, <2>1, ListHasPlaces
<1> HIDE DEF n
<1>11. ASSUME NEW j \in DOMAIN middle PROVE n + j \in DOMAIN plan /\ plan[n + j] = middle[j]
  <2>1. n \in Nat /\ j \in 1..Len(middle)
    BY <1>6 DEF n
  <2>2. /\ n + j \in DOMAIN plan /\ n + j \in DOMAIN front /\ n + j <= Len(front)
        /\ ~ (n + j <= n) /\ (n + j) - n = j
    BY <1>6, <1>7, <1>8, <1>10, <2>1 DEF n
  <2>3. plan[n + j] = front[n + j]
    BY <1>10, <2>2
  <2>4. front[n + j] = middle[j]
    BY <1>7, <2>2 DEF n
  <2> QED
    BY <2>2, <2>3, <2>4
<1>12. ASSUME NEW k \in DOMAIN plan
       PROVE  \/ plan[k].scenario = "none" /\ ~ plan[k].reset
              \/ \E j \in DOMAIN middle : k = n + j
  <2>1. CASE ~ (k <= Len(front))
    <3>1. k - Len(front) \in DOMAIN tail /\ plan[k] = tail[k - Len(front)]
      BY <1>6, <1>7, <1>8, <1>10, <2>1 DEF n
    <3> QED
      BY <1>8, <3>1 DEF Outside
  <2>2. CASE k <= n
    <3>1. k \in DOMAIN base /\ k \in DOMAIN front /\ k <= Len(front)
      BY <1>6, <1>7, <1>10, <2>2 DEF n
    <3>2. plan[k] = base[k]
      BY <1>7, <1>10, <2>2, <3>1 DEF n
    <3> QED
      BY <1>2, <3>1, <3>2 DEF Outside
  <2>3. CASE ~ (k <= n) /\ k <= Len(front)
    <3>1. k - n \in DOMAIN middle /\ k = n + (k - n)
      BY <1>6, <1>7, <1>10, <2>3 DEF n
    <3> QED
      BY <3>1
  <2> QED
    BY <2>1, <2>2, <2>3
<1>13. PlanShape(w, plan)
  <2>1. n \in Nat
    BY <1>6 DEF n
  <2> QED
    BY <1>10, <1>11, <1>12, <2>1, Zenon DEF PlanShape, middle
<1> QED
  BY <1>1, <1>13 DEF plan

-----------------------------------------------------------------------------
(* The states of the runtime.                                              *)

\* A mapping that moves its scenario name, if at all, to a state of such names.
IsMove(m) == "next" \in DOMAIN m /\ m.next \in Conditions \cup {Stay}

\* A list of mappings that move scenario names to states they may have.
Moves(mappings) ==
    /\ Listed(mappings)
    /\ \A i \in DOMAIN mappings : IsMove(mappings[i])

\* No mappings move nothing.
LEMMA NoMappingsMove == Moves(<<>>)
<1>1. Listed(<<>>) /\ DOMAIN <<>> = {}
  BY DEF Listed
<1> QED
  BY <1>1 DEF Moves

\* Two lists of such mappings, one after the other.
LEMMA AppendedMove ==
    ASSUME NEW s, NEW t, Moves(s), Moves(t)
    PROVE  Moves(s \o t)
<1> DEFINE u == s \o t
<1>1. Listed(s) /\ Listed(t)
  BY DEF Moves
<1>2. /\ Listed(u) /\ Len(u) = Len(s) + Len(t)
      /\ \A i \in DOMAIN u : u[i] = IF i <= Len(s) THEN s[i] ELSE t[i - Len(s)]
  BY <1>1, ListsAreAppended
<1>3. /\ Len(s) \in Nat /\ DOMAIN s = 1..Len(s)
      /\ Len(t) \in Nat /\ DOMAIN t = 1..Len(t)
  BY <1>1, ListHasPlaces
<1> HIDE DEF u
<1>4. DOMAIN u = 1..Len(u)
  BY <1>2, ListHasPlaces
<1>5. ASSUME NEW i \in DOMAIN u PROVE IsMove(u[i])
  <2>1. CASE i <= Len(s)
    <3>1. i \in DOMAIN s /\ u[i] = s[i]
      BY <1>2, <1>3, <1>4, <2>1
    <3> QED
      BY <3>1 DEF Moves
  <2>2. CASE ~ (i <= Len(s))
    <3>1. i - Len(s) \in DOMAIN t /\ u[i] = t[i - Len(s)]
      BY <1>2, <1>3, <1>4, <2>2
    <3> QED
      BY <3>1 DEF Moves
  <2> QED
    BY <2>1, <2>2
<1>6. Moves(u)
  BY <1>2, <1>5, Zenon DEF Moves
<1> QED
  BY <1>6 DEF u

\* Any number of them.
LEMMA JoinedMove ==
    ASSUME NEW seqs, Listed(seqs), \A i \in DOMAIN seqs : Moves(seqs[i])
    PROVE  Moves(FlattenSeq(seqs))
<1> DEFINE flat == FlattenSeq(seqs)
<1>1. \A i \in DOMAIN seqs : Listed(seqs[i])
  BY DEF Moves
<1>2. Joins(flat, seqs)
  BY <1>1, ListsAreJoined
<1> HIDE DEF flat
<1>3. ASSUME NEW p \in DOMAIN flat PROVE IsMove(flat[p])
  <2>1. PICK i \in DOMAIN seqs : \E j \in DOMAIN seqs[i] : flat[p] = seqs[i][j]
    BY <1>2 DEF Joins
  <2>2. PICK j \in DOMAIN seqs[i] : flat[p] = seqs[i][j]
    BY <2>1
  <2> QED
    BY <2>2 DEF Moves
<1>4. Listed(flat)
  BY <1>2 DEF Joins
<1>5. Moves(flat)
  BY <1>3, <1>4, Zenon DEF Moves
<1> QED
  BY <1>5 DEF flat

\* What is made of each member of a list.
LEMMA EachMoves ==
    ASSUME NEW s, Listed(s), NEW f, DOMAIN f = DOMAIN s, f = [i \in DOMAIN s |-> f[i]],
           \A i \in DOMAIN s : IsMove(f[i])
    PROVE  Moves(f)
<1>1. Listed(f)
  BY EachIsListed
<1> QED
  BY <1>1 DEF Moves

\* A mapping without a scenario moves nothing.
LEMMA PlainStays ==
    ASSUME NEW priority, NEW op, NEW takes, NEW status, NEW says
    PROVE  /\ Plain(priority, op, takes, status, says).next = Stay
           /\ IsMove(Plain(priority, op, takes, status, says))
  BY DEF Plain, IsMove

\* A mapping of a scenario moves it to the state it names.
LEMMA StatefulMoves ==
    ASSUME NEW op, NEW takes, NEW status, NEW says, NEW name, NEW required, NEW next
    PROVE  /\ Stateful(op, takes, status, says, name, required, next).next = next
           /\ "next" \in DOMAIN Stateful(op, takes, status, says, name, required, next)
  BY DEF Stateful, Plain

\* The mappings of the stored cases.
LEMMA DatasetMoves ==
    ASSUME NEW w \in Workspaces
    PROVE  Moves(DatasetMappings(w))
<1> DEFINE data == w.dataset
           members == [i \in DOMAIN data |->
                            Plain(1, "check", AnyOf({data[i].path}), 200, data[i].says)]
           other == Plain(100, "check", AnyOf(Template["check"]), 404, "MEMBER_NOT_FOUND")
           stored == [i \in DOMAIN data |-> Plain(1, data[i].op, Exactly(data[i]),
                                                   Success[data[i].op], data[i].says)]
<1>1. \/ DatasetMappings(w) = <<>> \/ DatasetMappings(w) = Append(members, other)
      \/ DatasetMappings(w) = stored
  BY DEF DatasetMappings, Each
<1>2. Listed(data)
  BY WorkspaceAssumption
<1> HIDE DEF data
<1>3. Moves(members)
  <2>1. /\ DOMAIN members = DOMAIN data /\ members = [i \in DOMAIN data |-> members[i]]
        /\ \A i \in DOMAIN data : IsMove(members[i])
    BY PlainStays
  <2> HIDE DEF members
  <2> QED
    BY <1>2, <2>1, EachMoves
<1>4. Moves(stored)
  <2>1. /\ DOMAIN stored = DOMAIN data /\ stored = [i \in DOMAIN data |-> stored[i]]
        /\ \A i \in DOMAIN data : IsMove(stored[i])
    BY PlainStays
  <2> HIDE DEF stored
  <2> QED
    BY <1>2, <2>1, EachMoves
<1>5. Moves(Append(members, other))
  <2>1. IsMove(other)
    BY PlainStays
  <2> HIDE DEF other
  <2>2. <<other>> \in Seq({other}) /\ \A i \in DOMAIN <<other>> : <<other>>[i] = other
    OBVIOUS
  <2>3. Moves(<<other>>)
    BY <2>1, <2>2, SeqIsListed, Zenon DEF Moves
  <2>4. members \in Seq(ToSet(members))
    BY <1>3 DEF Moves, Listed
  <2> HIDE DEF members
  <2>5. Append(members, other) = members \o <<other>>
    BY <2>4
  <2> QED
    BY <1>3, <2>3, <2>5, AppendedMove
<1> QED
  BY <1>1, <1>3, <1>4, <1>5, NoMappingsMove

\* Those of the eligibility journey.
LEMMA JourneyMoves ==
    ASSUME NEW w \in Workspaces
    PROVE  Moves(JourneyMappings(w))
<1> DEFINE begin == AnyOf({w.journey.begin})
           get == AnyOf({w.journey.get})
           a == Stateful("begin", begin, 202, "SUBMITTED", Journey, "any", "PROCESSING")
           b == Stateful("get", get, 200, "PROCESSING", Journey, "PROCESSING", "COMPLETED")
           c == Stateful("get", get, 200, "COMPLETED", Journey, "COMPLETED", Stay)
<1>1. JourneyMappings(w) = <<>> \/ JourneyMappings(w) = <<a, b, c>>
  BY DEF JourneyMappings
<1>2. \A m \in {a, b, c} : IsMove(m)
  <2>1. /\ a.next = "PROCESSING" /\ b.next = "COMPLETED" /\ c.next = Stay
        /\ \A m \in {a, b, c} : "next" \in DOMAIN m
    BY StatefulMoves
  <2> HIDE DEF a, b, c
  <2>2. \A m \in {a, b, c} : m.next \in Conditions \cup {Stay}
    BY <2>1 DEF Conditions
  <2> QED
    BY <2>1, <2>2 DEF IsMove
<1> HIDE DEF a, b, c
<1>3. Moves(<<a, b, c>>)
  <2>1. /\ <<a, b, c>> \in Seq({a, b, c})
        /\ \A i \in DOMAIN <<a, b, c>> : <<a, b, c>>[i] \in {a, b, c}
    OBVIOUS
  <2> QED
    BY <1>2, <2>1, SeqIsListed, Zenon DEF Moves
<1> QED
  BY <1>1, <1>3, NoMappingsMove

\* Those of a configured scenario move it to its own states.
LEMMA ScenarioMoves ==
    ASSUME NEW w \in Workspaces
    PROVE  Moves(ScenarioMappings(w))
<1> DEFINE handlers(id, s) == w.scenarios[id].handlers[s]
           OfState(id, s) == IF s \notin Known(w.scenarios[id]) THEN <<>>
                             ELSE [k \in DOMAIN handlers(id, s) |->
                                    Stateful("none", PatternOf(handlers(id, s)[k]),
                                             handlers(id, s)[k].status, handlers(id, s)[k].says,
                                             id, s, handlers(id, s)[k].next)]
           states_(id) == [j \in DOMAIN StateNames |-> OfState(id, StateNames[j])]
           Of(id) == IF id \notin DOMAIN w.scenarios THEN <<>> ELSE FlattenSeq(states_(id))
           lists == [i \in DOMAIN Ids |-> Of(Ids[i])]
<1>1. ScenarioMappings(w) = FlattenSeq(lists)
  BY DEF ScenarioMappings, Concat, Each
<1>2. Listed(Ids)
  BY WorkspaceAssumption
<1>3. Listed(StateNames)
  BY CandidateAssumption DEF Listed
<1>4. ASSUME NEW id \in DOMAIN w.scenarios, NEW s PROVE Moves(OfState(id, s))
  <2> DEFINE d == w.scenarios[id]
             list == handlers(id, s)
             f == [k \in DOMAIN list |-> Stateful("none", PatternOf(list[k]), list[k].status,
                                                  list[k].says, id, s, list[k].next)]
  <2>1. CASE s \notin Known(d)
    BY <2>1, NoMappingsMove
  <2>2. CASE s \in Known(d)
    <3>1. Acceptable(d)
      BY ConfiguredAreAccepted
    <3>2. /\ Listed(list)
          /\ \A k \in DOMAIN list : list[k].next \in Conditions \cup {Stay}
      <4>1. /\ \A k \in DOMAIN list : list[k] \in ToSet(list)
            /\ list \in Seq(ToSet(list))
        BY <2>2, <3>1, HandlersAreListed, CandidateAssumption DEF Acceptable
      <4>2. \A h \in ToSet(list) : h.next # Stay => h.next \in Known(d)
        BY <2>2, <3>1 DEF Acceptable, WellFormed, Transitions
      <4>3. Known(d) \subseteq ToSet(StateNames)
        BY <3>1, CandidateAssumption DEF Acceptable
      <4> HIDE DEF list
      <4>4. \A k \in DOMAIN list : list[k].next \in Conditions \cup {Stay}
        BY <4>1, <4>2, <4>3 DEF Conditions
      <4> QED
        BY <4>1, <4>4 DEF Listed
    <3>3. OfState(id, s) = f
      BY <2>2
    <3> HIDE DEF list
    <3>4. /\ DOMAIN f = DOMAIN list /\ f = [k \in DOMAIN list |-> f[k]]
          /\ \A k \in DOMAIN list : "next" \in DOMAIN f[k] /\ f[k].next = list[k].next
      BY StatefulMoves
    <3> HIDE DEF f
    <3>5. \A k \in DOMAIN list : IsMove(f[k])
      BY <3>2, <3>4 DEF IsMove
    <3>6. Moves(f)
      BY <3>2, <3>4, <3>5, EachMoves
    <3> QED
      BY <3>3, <3>6
  <2> QED
    BY <2>1, <2>2
<1> HIDE DEF OfState
<1>5. ASSUME NEW id PROVE Moves(Of(id))
  <2> DEFINE seqs == states_(id)
  <2>1. CASE id \in DOMAIN w.scenarios
    <3>1. /\ DOMAIN seqs = DOMAIN StateNames /\ seqs = [j \in DOMAIN StateNames |-> seqs[j]]
          /\ \A j \in DOMAIN seqs : Moves(seqs[j])
      BY <1>4, <2>1
    <3> HIDE DEF seqs
    <3>2. Moves(FlattenSeq(seqs))
      BY <1>3, <3>1, EachIsListed, JoinedMove
    <3> QED
      BY <2>1, <3>2 DEF seqs
  <2>2. CASE id \notin DOMAIN w.scenarios
    BY <2>2, NoMappingsMove
  <2> QED
    BY <2>1, <2>2
<1> HIDE DEF Of
<1>6. /\ DOMAIN lists = DOMAIN Ids /\ lists = [i \in DOMAIN Ids |-> lists[i]]
      /\ \A i \in DOMAIN lists : Moves(lists[i])
  BY <1>5
<1> HIDE DEF lists
<1> QED
  BY <1>1, <1>2, <1>6, EachIsListed, JoinedMove

\* The mappings of a workspace before its profile.
LEMMA BaseMoves ==
    ASSUME NEW w \in Workspaces
    PROVE  Moves(BaseMappings(w))
<1> DEFINE candidates == EdgeCases(w, {"boundary", "negative"}, CompiledEdges)
           rest == Selected(w.operations, ToSet(w.operations) \ Overridden(w))
           edges == [i \in DOMAIN candidates |->
                        Sampled(2, candidates[i].op, Exactly(candidates[i]),
                                EdgeStatus(candidates[i]))]
           pairs == [i \in DOMAIN w.pairs |->
                        Sampled(3, w.pairs[i].op, Exactly(w.pairs[i]), Success[w.pairs[i].op])]
           base == [i \in DOMAIN rest |->
                        Sampled(10, rest[i], AnyOf(Template[rest[i]]), Success[rest[i]])]
           all == ((((DatasetMappings(w) \o JourneyMappings(w)) \o ScenarioMappings(w))
                    \o edges) \o pairs) \o base
<1>1. BaseMappings(w) = all
  BY DEF BaseMappings, Each
<1>2. Listed(candidates) /\ Listed(w.pairs) /\ Listed(rest)
  <2>1. CompiledEdges \in Nat /\ Listed(w.operations) /\ Listed(w.pairs)
    BY WorkspaceAssumption
  <2> QED
    BY <2>1, EdgesAreListed, SelectedAreListed
<1> HIDE DEF candidates, rest
<1>3. Moves(edges)
  <2>1. /\ DOMAIN edges = DOMAIN candidates /\ edges = [i \in DOMAIN candidates |-> edges[i]]
        /\ \A i \in DOMAIN candidates : IsMove(edges[i])
    BY PlainStays DEF Sampled
  <2> HIDE DEF edges
  <2> QED
    BY <1>2, <2>1, EachMoves
<1>4. Moves(pairs)
  <2>1. /\ DOMAIN pairs = DOMAIN w.pairs /\ pairs = [i \in DOMAIN w.pairs |-> pairs[i]]
        /\ \A i \in DOMAIN w.pairs : IsMove(pairs[i])
    BY PlainStays DEF Sampled
  <2> HIDE DEF pairs
  <2> QED
    BY <1>2, <2>1, EachMoves
<1>5. Moves(base)
  <2>1. /\ DOMAIN base = DOMAIN rest /\ base = [i \in DOMAIN rest |-> base[i]]
        /\ \A i \in DOMAIN rest : IsMove(base[i])
    BY PlainStays DEF Sampled
  <2> HIDE DEF base
  <2> QED
    BY <1>2, <2>1, EachMoves
<1> HIDE DEF edges, pairs, base
<1>6. Moves(all)
  BY <1>3, <1>4, <1>5, DatasetMoves, JourneyMoves, ScenarioMoves, AppendedMove
<1> QED
  BY <1>1, <1>6

\* Whatever the profile makes of them.
LEMMA MappingsMove ==
    ASSUME NEW w \in Workspaces
    PROVE  Moves(Mappings(w))
<1> DEFINE all == BaseMappings(w)
           failing == [i \in DOMAIN all |->
                            [all[i] EXCEPT !.status = FailureStatus, !.says = FailureBody]]
           lists == [i \in DOMAIN all |-> Alternating(all[i])]
<1>0. Moves(all) /\ Listed(all)
  BY BaseMoves DEF Moves
<1>1. Mappings(w) = failing \/ Mappings(w) = FlattenSeq(lists) \/ Mappings(w) = all
  BY DEF Mappings, Each, Concat
<1> HIDE DEF all
<1>2. Moves(failing)
  <2>1. /\ DOMAIN failing = DOMAIN all /\ failing = [i \in DOMAIN all |-> failing[i]]
    OBVIOUS
  <2>2. \A i \in DOMAIN all : IsMove(failing[i])
    <3> SUFFICES ASSUME NEW i \in DOMAIN all PROVE IsMove(failing[i])
      OBVIOUS
    <3> DEFINE m == all[i]
    <3>1. IsMove(m)
      BY <1>0 DEF Moves
    <3>2. failing[i] = [m EXCEPT !.status = FailureStatus, !.says = FailureBody]
      OBVIOUS
    <3> HIDE DEF m, failing
    <3>3. DOMAIN failing[i] = DOMAIN m /\ ("next" \in DOMAIN m => failing[i].next = m.next)
      BY <3>2
    <3> QED
      BY <3>1, <3>3 DEF IsMove
  <2> HIDE DEF failing
  <2> QED
    BY <1>0, <2>1, <2>2, EachMoves
<1>3. Moves(FlattenSeq(lists))
  <2>1. DOMAIN lists = DOMAIN all /\ lists = [i \in DOMAIN all |-> lists[i]]
    OBVIOUS
  <2>2. ASSUME NEW i \in DOMAIN lists PROVE Moves(lists[i])
    <3> DEFINE m == all[i]
               a == [m EXCEPT !.scenario = Intermittent, !.required = "Started",
                              !.next = "DEGRADED"]
               b == [m EXCEPT !.scenario = Intermittent, !.required = "DEGRADED",
                              !.next = "Started", !.status = FailureStatus,
                              !.says = FailureBody]
    <3>1. lists[i] = <<m>> \/ lists[i] = <<a, b>>
      BY DEF Alternating
    <3>2. IsMove(m)
      BY <1>0 DEF Moves
    <3> HIDE DEF m
    <3>3. /\ DOMAIN a = DOMAIN m /\ ("next" \in DOMAIN m => a.next = "DEGRADED")
          /\ DOMAIN b = DOMAIN m /\ ("next" \in DOMAIN m => b.next = "Started")
      OBVIOUS
    <3>4. \A x \in {m, a, b} : IsMove(x)
      BY <3>2, <3>3 DEF IsMove, Conditions
    <3> HIDE DEF a, b
    <3>5. /\ <<m>> \in Seq({m, a, b}) /\ <<a, b>> \in Seq({m, a, b})
          /\ \A k \in DOMAIN <<m>> : <<m>>[k] \in {m, a, b}
          /\ \A k \in DOMAIN <<a, b>> : <<a, b>>[k] \in {m, a, b}
      OBVIOUS
    <3>6. Moves(<<m>>) /\ Moves(<<a, b>>)
      BY <3>4, <3>5, SeqIsListed, Zenon DEF Moves
    <3> QED
      BY <3>1, <3>6
  <2> HIDE DEF lists
  <2> QED
    BY <1>0, <2>1, <2>2, EachIsListed, JoinedMove
<1> QED
  BY <1>0, <1>1, <1>2, <1>3

\* An answer leaves states that scenario names may have.
LEMMA AnswersMove ==
    ASSUME NEW mappings, Moves(mappings), NEW current \in [ScenarioNames -> Conditions],
           NEW request
    PROVE  Execute(mappings, current, request).states \in [ScenarioNames -> Conditions]
<1> DEFINE chosen == {i \in DOMAIN mappings : Candidate(mappings, current, request, i)}
           m == mappings[CHOOSE i \in chosen : TRUE]
           answer == Execute(mappings, current, request)
<1>1. CASE chosen = {}
  <2>1. answer = [status |-> 404, says |-> "NO_MATCH", matched |-> FALSE,
                  states |-> current]
    BY <1>1 DEF Execute
  <2> QED
    BY <2>1
<1>2. CASE chosen # {}
  <2>1. answer = [status |-> m.status, says |-> m.says, matched |-> TRUE,
                  states |-> IF m.next = Stay THEN current
                             ELSE [current EXCEPT ![m.scenario] = m.next]]
    BY <1>2 DEF Execute
  <2>2. (CHOOSE i \in chosen : TRUE) \in DOMAIN mappings
    BY <1>2
  <2>3. m.next \in Conditions \cup {Stay}
    BY <2>2 DEF Moves, IsMove
  <2> HIDE DEF m, answer
  <2>4. answer.states = IF m.next = Stay THEN current
                        ELSE [current EXCEPT ![m.scenario] = m.next]
    BY <2>1
  <2>5. m.next # Stay => [current EXCEPT ![m.scenario] = m.next] \in [ScenarioNames -> Conditions]
    BY <2>3
  <2> QED
    BY <2>4, <2>5 DEF answer
<1> QED
  BY <1>1, <1>2

-----------------------------------------------------------------------------
(* What a passed report shows.                                             *)

\* A function takes no more values than it has arguments.
LEMMA ImageIsNotLarger ==
    ASSUME NEW S, IsFiniteSet(S), NEW f, NEW T, T = {f[x] : x \in S}
    PROVE  IsFiniteSet(T) /\ Cardinality(T) <= Cardinality(S)
<1> DEFINE g == [x \in S |-> f[x]]
<1>1. g \in Surjection(S, T)
  BY DEF Surjection
<1> QED
  BY <1>1, FS_Surjection

\* When few are covered, rounding hides none that is missing.
LEMMA CompleteIsAll ==
    ASSUME NEW all, IsFiniteSet(all), NEW covered \in SUBSET all,
           Resolution \in Nat, Cardinality(covered) + 1 < 2 * Resolution,
           Complete(Cardinality(covered), Cardinality(all))
    PROVE  covered = all
<1> DEFINE c == Cardinality(covered)
           t == Cardinality(all)
           r == 2 * Resolution
<1>1. c \in Nat /\ t \in Nat /\ r \in Nat /\ c <= t
  BY FS_Subset, FS_CardinalityType
<1>2. r * c + t >= r * t /\ c + 1 < r
  <2>1. 2 * Resolution * c + t >= 2 * Resolution * t
    BY DEF Complete
  <2> QED
    BY <2>1
<1> HIDE DEF c, t, r
<1>3. CASE t = c
  BY <1>3, FS_Subset DEF c, t
<1>4. CASE t # c
  <2>1. PICK k \in Nat : t = c + k /\ k >= 1
    <3>1. t - c \in Nat /\ t - c >= 1 /\ t = c + (t - c)
      BY <1>1, <1>4
    <3> QED
      BY <3>1
  <2>2. r * t = r * c + r * k
    BY <1>1, <2>1
  <2>3. r * k \in Nat /\ r * c \in Nat
    BY <1>1, <2>1
  <2>4. c + k >= r * k
    BY <1>1, <1>2, <2>1, <2>2, <2>3
  <2>5. r * k = r + r * (k - 1) /\ r * (k - 1) >= k - 1
    <3>1. k - 1 \in Nat /\ r >= 1
      BY <1>1, <1>2, <2>1
    <3>2. r * k = r + r * (k - 1)
      BY <1>1, <2>1
    <3>3. \A m \in Nat : r * m >= m
      BY <1>1, <3>1
    <3> QED
      BY <3>1, <3>2, <3>3
  <2> DEFINE x == r * (k - 1)
  <2>6. x \in Int
    BY <1>1, <2>1
  <2> HIDE DEF x
  <2>7. c + k >= r + x /\ x >= k - 1
    BY <2>4, <2>5 DEF x
  <2> QED
    BY <1>1, <1>2, <2>1, <2>6, <2>7
<1> QED
  BY <1>3, <1>4

\* The states to cover are finitely many.
LEMMA AllStatesAreFinite ==
    ASSUME NEW w \in Workspaces
    PROVE  IsFiniteSet(AllStates(w))
<1> DEFINE names == ToSet(Ids) \X ToSet(StateNames)
<1>1. ASSUME NEW s, Listed(s) PROVE IsFiniteSet(ToSet(s))
  <2>1. /\ Len(s) \in Nat /\ DOMAIN s = 1..Len(s)
    BY <1>1, ListHasPlaces
  <2>2. ToSet(s) = {s[i] : i \in 1..Len(s)}
    BY <2>1 DEF ToSet
  <2>3. IsFiniteSet(1..Len(s))
    BY <2>1, FS_Interval
  <2> QED
    BY <2>2, <2>3, ImageIsNotLarger
<1>2. Listed(Ids) /\ Listed(StateNames)
  BY WorkspaceAssumption, CandidateAssumption DEF Listed
<1>3. IsFiniteSet(names)
  BY <1>1, <1>2, FS_Product
<1>4. AllStates(w) \in SUBSET names
  <2>1. ASSUME NEW id \in DOMAIN w.scenarios, NEW s \in Known(w.scenarios[id])
        PROVE  id \in ToSet(Ids) /\ s \in ToSet(StateNames)
    BY WorkspaceAssumption, CandidateAssumption
  <2> QED
    BY <2>1 DEF AllStates
<1> HIDE DEF names
<1> QED
  BY <1>3, <1>4, FS_Subset

\* A passed case of a configured scenario was answered as it expects, in some state of the
\* scenario names, and moved its own as it says.
Shown(mappings, c, r) ==
    r.passed /\ c.scenario # "none" =>
        /\ r.before = c.required
        /\ r.after = IF c.next = Stay THEN c.required ELSE c.next
        /\ \E at \in [ScenarioNames -> Conditions] :
            LET answer == Execute(mappings, at, c.request) IN
            /\ at[c.scenario] = c.required
            /\ answer.status = c.status
            /\ answer.states[c.scenario] = IF c.next = Stay THEN c.required ELSE c.next

\* The results of a plan that have shown what they are to show.
AllShown(mappings, plan, results) ==
    /\ Listed(results) /\ Len(results) <= Len(plan)
    /\ \A k \in DOMAIN results : Shown(mappings, plan[k], results[k])

\* The covered states have paths.
LEMMA CoveredHavePaths ==
    ASSUME NEW w \in Workspaces, NEW plan, PlanShape(w, plan), NEW results,
           NEW mappings, AllShown(mappings, plan, results),
           NEW id, NEW s, <<id, s>> \in CoveredStates(plan, results)
    PROVE  id \in DOMAIN w.scenarios /\ s \in DOMAIN Paths(w.scenarios[id])
<1> DEFINE cases == ScenarioCases(w)
<1>1. PICK i \in PassedOf(plan, results) :
        /\ id = plan[i].scenario
        /\ s = results[i].before \/ s = results[i].after
  <2>1. PICK i \in PassedOf(plan, results) :
            <<id, s>> \in {<<plan[i].scenario, results[i].before>>,
                           <<plan[i].scenario, results[i].after>>}
    BY DEF CoveredStates
  <2> QED
    BY <2>1
<1>2. /\ i \in DOMAIN results /\ results[i].passed /\ plan[i].scenario # "none"
      /\ i \in DOMAIN plan
  <2>1. i \in DOMAIN results /\ results[i].passed /\ plan[i].scenario # "none"
    BY DEF PassedOf
  <2>2. /\ Len(results) \in Nat /\ DOMAIN results = 1..Len(results)
        /\ Len(plan) \in Nat /\ DOMAIN plan = 1..Len(plan)
        /\ Len(results) <= Len(plan)
    BY ListHasPlaces DEF AllShown, PlanShape
  <2> QED
    BY <2>1, <2>2
<1>3. PICK j \in DOMAIN cases : plan[i] = cases[j]
  BY <1>2 DEF PlanShape
<1>4. PICK d_ \in DOMAIN w.scenarios : \E t \in DOMAIN Paths(w.scenarios[d_]) :
        \E h \in ToSet(w.scenarios[d_].handlers[t]) : Asks(plan[i], d_, t, h)
  BY <1>3, ScenarioCasesArePlanned DEF ScenarioPlan
<1>5. PICK t \in DOMAIN Paths(w.scenarios[d_]) :
        \E h \in ToSet(w.scenarios[d_].handlers[t]) : Asks(plan[i], d_, t, h)
  BY <1>4
<1>6. PICK h \in ToSet(w.scenarios[d_].handlers[t]) : Asks(plan[i], d_, t, h)
  BY <1>5
<1>7. id = d_ /\ plan[i].required = t /\ plan[i].next = h.next
  BY <1>1, <1>6 DEF Asks
<1>8. s = t \/ s = IF h.next = Stay THEN t ELSE h.next
  <2>1. Shown(mappings, plan[i], results[i])
    BY <1>2 DEF AllShown
  <2>2. /\ results[i].before = plan[i].required
        /\ results[i].after = IF plan[i].next = Stay THEN plan[i].required ELSE plan[i].next
    BY <1>2, <2>1, Zenon DEF Shown
  <2> QED
    BY <1>1, <1>7, <2>2
<1>9. h.next # Stay => h.next \in DOMAIN Paths(w.scenarios[d_])
  BY <1>4, <1>5, <1>6, ConfiguredAreAccepted, PathsLeadToPaths
<1> QED
  BY <1>7, <1>8, <1>9

\* At most two for each case.
LEMMA CoveredAreFew ==
    ASSUME NEW w \in Workspaces, PlanFits(w), NEW plan, PlanShape(w, plan), NEW results,
           NEW mappings, AllShown(mappings, plan, results)
    PROVE  /\ IsFiniteSet(CoveredStates(plan, results))
           /\ Cardinality(CoveredStates(plan, results)) <= 2 * MaxPlan
<1> DEFINE cases == ScenarioCases(w)
           m == Len(cases)
           P == PassedOf(plan, results)
<1>1. PICK n \in Nat : \A k \in DOMAIN plan : \/ plan[k].scenario = "none" /\ ~ plan[k].reset
                                              \/ \E j \in DOMAIN cases : k = n + j
  BY DEF PlanShape
<1>2. m \in Nat /\ m <= MaxPlan /\ MaxPlan \in Nat /\ DOMAIN cases = 1..m
  BY ScenarioCasesArePlanned, ListHasPlaces, WorkspaceAssumption DEF ScenarioPlan, PlanFits
<1> HIDE DEF m, cases
<1>3. IsFiniteSet(P) /\ Cardinality(P) <= m
  <2> DEFINE shift == [j \in 1..m |-> n + j]
             Q == {shift[j] : j \in 1..m}
  <2>1. IsFiniteSet(1..m) /\ Cardinality(1..m) = m
    BY <1>2, FS_Interval
  <2>2. IsFiniteSet(Q) /\ Cardinality(Q) <= m
    <3> HIDE DEF shift
    <3> QED
      BY <2>1, ImageIsNotLarger
  <2>3. P \in SUBSET Q
    <3> SUFFICES ASSUME NEW i \in P PROVE i \in Q
      OBVIOUS
    <3>1. i \in DOMAIN results /\ plan[i].scenario # "none"
      BY DEF PassedOf
    <3>2. /\ Len(results) \in Nat /\ DOMAIN results = 1..Len(results)
          /\ Len(plan) \in Nat /\ DOMAIN plan = 1..Len(plan)
          /\ Len(results) <= Len(plan)
      BY ListHasPlaces DEF AllShown, PlanShape
    <3>3. i \in DOMAIN plan
      BY <3>1, <3>2
    <3>4. PICK j \in DOMAIN cases : i = n + j
      BY <1>1, <3>1, <3>3
    <3>5. j \in 1..m /\ shift[j] = i
      BY <1>2, <3>4
    <3> QED
      BY <3>5
  <2> HIDE DEF Q, P
  <2>4. IsFiniteSet(P) /\ Cardinality(P) <= Cardinality(Q)
    BY <2>2, <2>3, FS_Subset
  <2>5. Cardinality(P) \in Nat /\ Cardinality(Q) \in Nat
    BY <2>2, <2>4, FS_CardinalityType
  <2> QED
    BY <1>2, <2>2, <2>4, <2>5
<1> DEFINE f == [i \in P |-> <<plan[i].scenario, results[i].before>>]
           g == [i \in P |-> <<plan[i].scenario, results[i].after>>]
           F == {f[i] : i \in P}
           G == {g[i] : i \in P}
<1>4. CoveredStates(plan, results) = F \cup G
  <2>1. ASSUME NEW x
        PROVE  x \in CoveredStates(plan, results) <=>
                \E i \in P : x = <<plan[i].scenario, results[i].before>>
                             \/ x = <<plan[i].scenario, results[i].after>>
    BY DEF CoveredStates
  <2>2. ASSUME NEW x
        PROVE  x \in F \cup G <=>
                \E i \in P : x = <<plan[i].scenario, results[i].before>>
                             \/ x = <<plan[i].scenario, results[i].after>>
    OBVIOUS
  <2> HIDE DEF F, G, P
  <2> QED
    BY <2>1, <2>2
<1>5. /\ IsFiniteSet(F) /\ Cardinality(F) <= Cardinality(P)
      /\ IsFiniteSet(G) /\ Cardinality(G) <= Cardinality(P)
  <2> HIDE DEF f, g, P
  <2> QED
    BY <1>3, ImageIsNotLarger
<1> HIDE DEF F, G, P
<1>6. /\ IsFiniteSet(F \cup G)
      /\ Cardinality(F \cup G) = Cardinality(F) + Cardinality(G) - Cardinality(F \cap G)
  BY <1>5, FS_Union
<1>7. IsFiniteSet(F \cap G)
  BY <1>5, FS_Intersection
<1>8. /\ Cardinality(F) \in Nat /\ Cardinality(G) \in Nat /\ Cardinality(F \cap G) \in Nat
      /\ Cardinality(P) \in Nat
  BY <1>3, <1>5, <1>7, FS_CardinalityType
<1>9. Cardinality(F \cup G) <= 2 * MaxPlan
  BY <1>2, <1>3, <1>5, <1>6, <1>8
<1> QED
  BY <1>4, <1>6, <1>9

\* What PassedMeansServed says of a configured scenario.
IsServed(mappings, id, d) ==
    /\ Known(d) = Reachable(d)
    /\ \A s \in Known(d) : \A h \in ToSet(d.handlers[s]) :
        \E others \in [ScenarioNames \ {id} -> Conditions] :
            LET current == [n \in ScenarioNames |-> IF n = id THEN s ELSE others[n]]
                answer == Execute(mappings, current, RequestOf(h))
            IN
            /\ answer.status = h.status
            /\ answer.states[id] = IF h.next = Stay THEN s ELSE h.next

\* What a complete plan that passed has shown is what PassedMeansServed asks.
LEMMA PassedIsServed ==
    ASSUME NEW w \in Workspaces, PlanFits(w), NEW plan, PlanShape(w, plan), NEW results,
           NEW mappings, AllShown(mappings, plan, results), Len(results) = Len(plan), NEW missed,
           Passes(w, plan, results, missed), NEW id \in DOMAIN w.scenarios
    PROVE  IsServed(mappings, id, w.scenarios[id])
<1> DEFINE d == w.scenarios[id]
           cases == ScenarioCases(w)
           covered == CoveredStates(plan, results) \cap AllStates(w)
<1>0. Acceptable(d) /\ id # "none" /\ id \in ScenarioNames
  BY ConfiguredAreAccepted
<1>1. \A i \in DOMAIN results : results[i].passed
  BY DEF Passes
<1>2. covered = AllStates(w)
  <2>1. Complete(Cardinality(covered), Cardinality(AllStates(w)))
    BY DEF Passes
  <2>2. IsFiniteSet(AllStates(w)) /\ covered \in SUBSET AllStates(w)
    BY AllStatesAreFinite
  <2>3. Cardinality(covered) + 1 < 2 * Resolution
    <3> DEFINE c == CoveredStates(plan, results)
    <3>1. IsFiniteSet(c) /\ Cardinality(c) <= 2 * MaxPlan
      BY CoveredAreFew
    <3>2. covered \in SUBSET c
      OBVIOUS
    <3> HIDE DEF c, covered
    <3>3. /\ Cardinality(covered) <= Cardinality(c)
          /\ Cardinality(covered) \in Nat /\ Cardinality(c) \in Nat
      BY <3>1, <3>2, FS_Subset, FS_CardinalityType
    <3>4. MaxPlan \in Nat /\ Resolution \in Nat /\ MaxPlan < Resolution
      BY WorkspaceAssumption
    <3> QED
      BY <3>1, <3>3, <3>4
  <2> HIDE DEF covered
  <2> QED
    BY <2>1, <2>2, <2>3, CompleteIsAll, WorkspaceAssumption
<1>3. ASSUME NEW s \in Known(d) PROVE s \in DOMAIN Paths(d)
  <2>1. <<id, s>> \in AllStates(w)
    BY DEF AllStates
  <2>2. <<id, s>> \in CoveredStates(plan, results)
    BY <1>2, <2>1
  <2> QED
    BY <2>2, CoveredHavePaths
<1>4. Known(d) = Reachable(d)
  <2>1. Reachable(d) = DOMAIN Paths(d) /\ DOMAIN Paths(d) \subseteq Known(d)
    BY <1>0, SearchesAgree, SearchFindsShortest DEF PathsAreShortest
  <2> QED
    BY <1>3, <2>1
<1>5. ASSUME NEW s \in Known(d), NEW h \in ToSet(d.handlers[s])
      PROVE  \E others \in [ScenarioNames \ {id} -> Conditions] :
                LET current == [n \in ScenarioNames |-> IF n = id THEN s ELSE others[n]]
                    answer == Execute(mappings, current, RequestOf(h))
                IN
                /\ answer.status = h.status
                /\ answer.states[id] = IF h.next = Stay THEN s ELSE h.next
  <2>1. s \in DOMAIN Paths(d)
    BY <1>3
  <2>2. PICK j \in DOMAIN cases : Asks(cases[j], id, s, h)
    BY <2>1, ScenarioCasesArePlanned DEF ScenarioPlan
  <2>3. PICK k \in DOMAIN plan : plan[k] = cases[j]
    BY DEF PlanShape
  <2> DEFINE c == plan[k]
             r == results[k]
  <2>4. Shown(mappings, c, r) /\ r.passed
    <3>1. k \in DOMAIN results
      <4>1. /\ DOMAIN results = 1..Len(results) /\ DOMAIN plan = 1..Len(plan)
        BY ListHasPlaces DEF AllShown, PlanShape
      <4> QED
        BY <4>1
    <3> QED
      BY <1>1, <3>1 DEF AllShown
  <2> HIDE DEF c, r
  <2>5. /\ c.scenario = id /\ c.required = s /\ c.request = RequestOf(h)
        /\ c.status = h.status /\ c.next = h.next
    BY <2>2, <2>3 DEF Asks, c
  <2>6. c.scenario # "none"
    BY <1>0, <2>5
  <2>7. PICK at \in [ScenarioNames -> Conditions] :
            LET answer == Execute(mappings, at, c.request) IN
            /\ at[c.scenario] = c.required
            /\ answer.status = c.status
            /\ answer.states[c.scenario] = IF c.next = Stay THEN c.required ELSE c.next
    BY <2>4, <2>6, Zenon DEF Shown
  <2> DEFINE others == [n \in ScenarioNames \ {id} |-> at[n]]
             current == [n \in ScenarioNames |-> IF n = id THEN s ELSE others[n]]
  <2>8. current = at
    <3>1. \A n \in ScenarioNames : current[n] = at[n]
      BY <2>5, <2>7
    <3>2. at = [n \in ScenarioNames |-> at[n]] /\ current = [n \in ScenarioNames |-> current[n]]
      OBVIOUS
    <3> HIDE DEF current
    <3> QED
      BY <3>1, <3>2
  <2>9. others \in [ScenarioNames \ {id} -> Conditions]
    OBVIOUS
  <2>10. c.request = RequestOf(h)
    BY <2>5
  <2> DEFINE answer == Execute(mappings, current, RequestOf(h))
  <2>11. /\ answer.status = h.status
         /\ answer.states[id] = IF h.next = Stay THEN s ELSE h.next
    <3> HIDE DEF current
    <3> QED
      BY <2>5, <2>7, <2>8, <2>10
  <2> HIDE DEF others
  <2> QED
    BY <2>9, <2>11
<1>6. IsServed(mappings, id, d)
  BY <1>4, <1>5, Zenon DEF IsServed
<1> QED
  BY <1>6 DEF d

-----------------------------------------------------------------------------
(* The run.                                                                *)

\* The workspace and its mappings are fixed.
Settled ==
    /\ workspace \in Workspaces /\ deployed = Mappings(workspace)
    /\ states \in [ScenarioNames -> Conditions]

\* The plan under way is that of the workspace, and fits.
PlanStands ==
    /\ DOMAIN run = DOMAIN NoRun
    /\ run.phase \in {"idle", "next", "sent"}
    /\ run.phase # "idle" =>
        /\ run.plan = Plan(workspace, run.options) /\ PlanFits(workspace)
        /\ Listed(run.results) /\ Len(run.results) <= Len(run.plan)
        /\ run.phase = "sent" => Len(run.results) < Len(run.plan)

\* What an undisturbed run has recorded was shown.
ResultsAreShown ==
    run.phase # "idle" /\ ~ run.disturbed => AllShown(deployed, run.plan, run.results)

\* The answer under way is that of the state in which the case was sent.
AnswerStands ==
    run.phase = "sent" /\ ~ run.disturbed /\ CurrentCase.scenario # "none" =>
        \E at \in [ScenarioNames -> Conditions] :
            LET answer == Execute(deployed, at, CurrentCase.request)
            IN  /\ run.before = at[CurrentCase.scenario]
                /\ run.status = answer.status /\ states = answer.states

\* The last report, if it passed undisturbed, is true.
ReportStands ==
    report.passed /\ ~ report.disturbed =>
        \A id \in DOMAIN workspace.scenarios : IsServed(deployed, id, workspace.scenarios[id])

\* The inductive invariant of validation runs.
EvidenceInv == Settled /\ PlanStands /\ ResultsAreShown /\ AnswerStands /\ ReportStands

\* What a report stands for is the property.
LEMMA ReportIsServed == ReportStands => PassedMeansServed
  BY Zenon DEF ReportStands, IsServed, PassedMeansServed

\* Nothing runs at first.
LEMMA InitEvidenceInv == EvidenceInit => EvidenceInv
<1> SUFFICES ASSUME EvidenceInit PROVE EvidenceInv
  OBVIOUS
<1>1. /\ workspace \in Workspaces /\ deployed = Mappings(workspace)
      /\ run = NoRun /\ report = NoReport
      /\ states = [n \in ScenarioNames |->
                    IF n \in DOMAIN workspace.scenarios THEN workspace.scenarios[n].initial
                    ELSE "Started"]
  BY DEF EvidenceInit
<1>2. \A n \in DOMAIN workspace.scenarios : workspace.scenarios[n].initial \in Conditions
  <2> SUFFICES ASSUME NEW n \in DOMAIN workspace.scenarios
               PROVE  workspace.scenarios[n].initial \in Conditions
    OBVIOUS
  <2>1. Acceptable(workspace.scenarios[n])
    BY <1>1, ConfiguredAreAccepted
  <2>2. workspace.scenarios[n].initial \in ToSet(StateNames)
    BY <2>1, LeadsToKnown, CandidateAssumption DEF Acceptable
  <2> QED
    BY <2>2 DEF Conditions
<1>3. states \in [ScenarioNames -> Conditions]
  <2>1. "Started" \in Conditions
    BY DEF Conditions
  <2> QED
    BY <1>1, <1>2, <2>1
<1>4. run.phase = "idle" /\ DOMAIN run = DOMAIN NoRun
  BY <1>1 DEF NoRun
<1>5. ~ report.passed
  BY <1>1 DEF NoReport
<1>6. Settled /\ PlanStands /\ ResultsAreShown /\ AnswerStands /\ ReportStands
  BY <1>1, <1>3, <1>4, <1>5 DEF Settled, PlanStands, ResultsAreShown, AnswerStands, ReportStands
<1> QED
  BY <1>6 DEF EvidenceInv

\* A run that begins has recorded nothing.
LEMMA StartKeeps ==
    ASSUME EvidenceInv, NEW options \in Options, StartRun(options)
    PROVE  EvidenceInv'
<1>1. /\ run.phase = "idle" /\ run' = Planned(options)
      /\ UNCHANGED <<workspace, deployed, report>>
      /\ states' = [n \in ScenarioNames |-> "Started"] \/ states' = states
  BY DEF StartRun
<1>2. Settled'
  <2>1. Settled /\ "Started" \in Conditions
    BY DEF EvidenceInv, Conditions
  <2> QED
    BY <1>1, <2>1 DEF Settled
<1>3. Listed(<<>>) /\ DOMAIN <<>> = {}
  BY DEF Listed
<1>4. Len(<<>>) = 0
  OBVIOUS
<1>5. CASE ~ PlanFits(workspace)
  <2>1. run' = NoRun
    BY <1>1, <1>5 DEF Planned
  <2>2. run'.phase = "idle" /\ DOMAIN run' = DOMAIN NoRun
    BY <2>1 DEF NoRun
  <2>3. PlanStands' /\ ResultsAreShown' /\ AnswerStands'
    BY <2>2 DEF PlanStands, ResultsAreShown, AnswerStands
  <2>4. ReportStands'
    BY <1>1 DEF EvidenceInv, ReportStands
  <2> QED
    BY <1>2, <2>3, <2>4 DEF EvidenceInv
<1>6. CASE PlanFits(workspace)
  <2> DEFINE plan == Plan(workspace, options)
  <2>1. run' = [NoRun EXCEPT !.phase = "next", !.options = options, !.plan = plan]
    BY <1>1, <1>6 DEF Planned
  <2> HIDE DEF plan
  <2>2. /\ DOMAIN run' = DOMAIN NoRun /\ run'.phase = "next" /\ run'.options = options
        /\ run'.plan = plan /\ run'.results = <<>>
    BY <2>1 DEF NoRun
  <2>3. plan = Plan(workspace', run'.options) /\ PlanFits(workspace')
    BY <1>1, <1>6, <2>2 DEF plan
  <2>4. Len(plan) \in Nat
    <3>1. workspace \in Workspaces
      BY DEF EvidenceInv, Settled
    <3>2. Listed(plan)
      BY <3>1, PlanHasShape DEF PlanShape, plan
    <3> QED
      BY <3>2, ListHasPlaces
  <2>5. PlanStands'
    BY <1>3, <1>4, <2>2, <2>3, <2>4 DEF PlanStands
  <2>6. ResultsAreShown'
    BY <1>3, <1>4, <2>2, <2>4 DEF ResultsAreShown, AllShown
  <2>7. AnswerStands'
    BY <2>2 DEF AnswerStands
  <2>8. ReportStands'
    BY <1>1 DEF EvidenceInv, ReportStands
  <2> QED
    BY <1>2, <2>5, <2>6, <2>7, <2>8 DEF EvidenceInv
<1> QED
  BY <1>5, <1>6

\* A request of a client moves states, and disturbs the run.
LEMMA ClientKeeps ==
    ASSUME EvidenceInv, NEW request \in Requests, ClientRequest(request)
    PROVE  EvidenceInv'
<1>1. /\ states' = Execute(deployed, states, request).states
      /\ run' = IF run.phase = "idle" THEN run ELSE [run EXCEPT !.disturbed = TRUE]
      /\ UNCHANGED <<workspace, deployed, report>>
  BY DEF ClientRequest
<1>2. Settled'
  <2>1. Settled
    BY DEF EvidenceInv
  <2>2. Moves(deployed)
    BY <2>1, MappingsMove DEF Settled
  <2>3. states' \in [ScenarioNames -> Conditions]
    BY <1>1, <2>1, <2>2, AnswersMove DEF Settled
  <2> QED
    BY <1>1, <2>1, <2>3 DEF Settled
<1>3. ReportStands'
  BY <1>1 DEF EvidenceInv, ReportStands
<1>4. CASE run.phase = "idle"
  <2>1. run' = run
    BY <1>1, <1>4
  <2>2. PlanStands' /\ ResultsAreShown' /\ AnswerStands'
    BY <1>4, <2>1 DEF EvidenceInv, PlanStands, ResultsAreShown, AnswerStands
  <2> QED
    BY <1>2, <1>3, <2>2 DEF EvidenceInv
<1>5. CASE run.phase # "idle"
  <2>1. PlanStands
    BY DEF EvidenceInv
  <2>2. run' = [run EXCEPT !.disturbed = TRUE] /\ DOMAIN run = DOMAIN NoRun
    BY <1>1, <1>5, <2>1 DEF PlanStands
  <2>3. /\ DOMAIN run' = DOMAIN NoRun /\ run'.disturbed = TRUE /\ run'.phase = run.phase
        /\ run'.plan = run.plan /\ run'.options = run.options /\ run'.results = run.results
    BY <2>2 DEF NoRun
  <2>4. PlanStands'
    BY <1>1, <2>1, <2>3 DEF PlanStands
  <2>5. ResultsAreShown' /\ AnswerStands'
    BY <2>3 DEF ResultsAreShown, AnswerStands
  <2> QED
    BY <1>2, <1>3, <2>4, <2>5 DEF EvidenceInv
<1> QED
  BY <1>4, <1>5

\* A case is sent in a state of the scenario names.
LEMMA SendKeeps ==
    ASSUME EvidenceInv, SendCase
    PROVE  EvidenceInv'
<1> DEFINE c == CurrentCase
           at == IF c.reset
                 THEN [states EXCEPT ![c.scenario] = workspace.scenarios[c.scenario].initial]
                 ELSE states
           answer == Execute(deployed, at, c.request)
           before == IF c.scenario = "none" THEN "none" ELSE at[c.scenario]
<1>1. /\ run.phase = "next" /\ Len(run.results) < Len(run.plan)
      /\ states' = answer.states
      /\ run' = [run EXCEPT !.phase = "sent", !.status = answer.status, !.says = answer.says,
                    !.before = before]
      /\ UNCHANGED <<workspace, deployed, report>>
  BY DEF SendCase
<1>2. Settled /\ PlanStands
  BY DEF EvidenceInv
<1>3. /\ DOMAIN run = DOMAIN NoRun
      /\ run.plan = Plan(workspace, run.options) /\ PlanFits(workspace)
      /\ Listed(run.results) /\ PlanShape(workspace, run.plan)
  BY <1>1, <1>2, PlanHasShape DEF PlanStands, Settled
<1>4. c.reset => c.scenario \in DOMAIN workspace.scenarios
  <2> DEFINE k == Len(run.results) + 1
             cases == ScenarioCases(workspace)
  <2>1. k \in DOMAIN run.plan
    <3>1. /\ Len(run.results) \in Nat
          /\ Len(run.plan) \in Nat /\ DOMAIN run.plan = 1..Len(run.plan)
      BY <1>3, ListHasPlaces DEF PlanShape
    <3> QED
      BY <1>1, <3>1
  <2> HIDE DEF k
  <2>2. ASSUME run.plan[k].reset PROVE run.plan[k].scenario \in DOMAIN workspace.scenarios
    <3>1. PICK j \in DOMAIN cases : run.plan[k] = cases[j]
      <4>1. PICK n \in Nat :
                /\ \A j \in DOMAIN cases : run.plan[n + j] = cases[j]
                /\ \A i \in DOMAIN run.plan :
                    \/ run.plan[i].scenario = "none" /\ ~ run.plan[i].reset
                    \/ \E j \in DOMAIN cases : i = n + j
        BY <1>3 DEF PlanShape
      <4>2. PICK j \in DOMAIN cases : k = n + j
        BY <2>1, <2>2, <4>1
      <4> QED
        BY <4>1, <4>2
    <3>2. PICK id \in DOMAIN workspace.scenarios :
            \E s \in DOMAIN Paths(workspace.scenarios[id]) :
                \E h \in ToSet(workspace.scenarios[id].handlers[s]) : Asks(cases[j], id, s, h)
      BY <1>2, ScenarioCasesArePlanned DEF Settled, ScenarioPlan
    <3>3. cases[j].scenario = id
      BY <3>2 DEF Asks
    <3> QED
      BY <3>1, <3>2, <3>3
  <2> QED
    BY <2>2 DEF CurrentCase, k
<1> HIDE DEF c
<1>5. at \in [ScenarioNames -> Conditions]
  <2>1. CASE c.reset
    <3> DEFINE d == workspace.scenarios[c.scenario]
    <3>1. Acceptable(d)
      BY <1>2, <1>4, <2>1, ConfiguredAreAccepted DEF Settled
    <3> HIDE DEF d
    <3>2. d.initial \in Conditions
      BY <3>1, LeadsToKnown, CandidateAssumption DEF Acceptable, Conditions
    <3> QED
      BY <1>2, <2>1, <3>2 DEF Settled, d
  <2>2. CASE ~ c.reset
    BY <1>2, <2>2 DEF Settled
  <2> QED
    BY <2>1, <2>2
<1> HIDE DEF at
<1>6. answer.states \in [ScenarioNames -> Conditions]
  <2>1. Moves(deployed)
    BY <1>2, MappingsMove DEF Settled
  <2> QED
    BY <1>5, <2>1, AnswersMove
<1> DEFINE status == answer.status
           says == answer.says
<1>7. /\ DOMAIN run' = DOMAIN NoRun /\ run'.phase = "sent" /\ run'.status = status
      /\ run'.before = before /\ run'.plan = run.plan /\ run'.results = run.results
      /\ run'.options = run.options /\ run'.disturbed = run.disturbed
  <2> HIDE DEF status, says, before
  <2>1. run' = [run EXCEPT !.phase = "sent", !.status = status, !.says = says,
                    !.before = before]
    BY <1>1 DEF status, says
  <2> QED
    BY <1>3, <2>1 DEF NoRun
<1>8. Settled'
  BY <1>1, <1>2, <1>6 DEF Settled
<1>9. PlanStands'
  <2>1. Len(run.results) <= Len(run.plan)
    BY <1>1, <1>2 DEF PlanStands
  <2> QED
    BY <1>1, <1>3, <1>7, <2>1 DEF PlanStands
<1>10. ResultsAreShown'
  BY <1>1, <1>7 DEF EvidenceInv, ResultsAreShown
<1>11. AnswerStands'
  <2>1. CurrentCase' = c
    BY <1>7 DEF CurrentCase, c
  <2>2. ASSUME c.scenario # "none"
        PROVE  /\ run'.before = at[c.scenario]
               /\ run'.status = answer.status /\ states' = answer.states
    BY <1>1, <1>7, <2>2
  <2> HIDE DEF before
  <2>3. deployed' = deployed
    BY <1>1
  <2> QED
    BY <1>5, <2>1, <2>2, <2>3 DEF AnswerStands
<1>12. ReportStands'
  BY <1>1 DEF EvidenceInv, ReportStands
<1> QED
  BY <1>8, <1>9, <1>10, <1>11, <1>12 DEF EvidenceInv

\* What is recorded of a passed case was shown by its answer.
LEMMA ObserveKeeps ==
    ASSUME EvidenceInv, ObserveCase
    PROVE  EvidenceInv'
<1> DEFINE c == CurrentCase
           after == IF c.scenario = "none" THEN "none" ELSE states[c.scenario]
           passed == /\ run.status = c.status
                     /\ c.schema = NoSchema \/ <<run.says, c.schema>> \in Conforming
                     /\ run.before = c.required
                     /\ after = IF c.next = Stay THEN c.required ELSE c.next
           r == [passed |-> passed, before |-> run.before, after |-> after]
           results == Append(run.results, r)
           n == Len(run.results)
<1>1. /\ run.phase = "sent"
      /\ run' = [run EXCEPT !.phase = "next", !.results = results]
      /\ UNCHANGED <<workspace, deployed, states, report>>
  BY DEF ObserveCase
<1>2. Settled /\ PlanStands /\ DOMAIN run = DOMAIN NoRun
  BY DEF EvidenceInv, PlanStands
<1>3. /\ run.plan = Plan(workspace, run.options) /\ PlanFits(workspace)
      /\ Listed(run.results) /\ n < Len(run.plan)
  BY <1>1, <1>2 DEF PlanStands
<1>4. /\ Listed(results) /\ Len(results) = n + 1 /\ n \in Nat
      /\ DOMAIN results = 1..(n + 1) /\ DOMAIN run.results = 1..n
      /\ \A k \in 1..n : results[k] = run.results[k]
      /\ results[n + 1] = r
  <2> HIDE DEF r
  <2>1. run.results \in Seq(ToSet(run.results) \cup {r})
    <3>1. run.results \in Seq(ToSet(run.results))
      BY <1>3 DEF Listed
    <3> QED
      BY <3>1
  <2> DEFINE S == ToSet(run.results) \cup {r}
             old == run.results
  <2>2. old \in Seq(S) /\ r \in S
    BY <2>1
  <2> HIDE DEF S, old
  <2>3. /\ Append(old, r) \in Seq(S) /\ Len(Append(old, r)) = Len(old) + 1 /\ Len(old) \in Nat
        /\ DOMAIN Append(old, r) = 1..(Len(old) + 1) /\ DOMAIN old = 1..Len(old)
        /\ \A k \in 1..Len(old) : Append(old, r)[k] = old[k]
        /\ Append(old, r)[Len(old) + 1] = r
    BY <2>2
  <2>4. Listed(Append(old, r))
    BY <2>3, SeqIsListed
  <2> QED
    BY <2>3, <2>4 DEF old
<1> HIDE DEF results
<1>5. /\ DOMAIN run' = DOMAIN NoRun /\ run'.phase = "next" /\ run'.results = results
      /\ run'.plan = run.plan /\ run'.options = run.options /\ run'.disturbed = run.disturbed
  BY <1>1, <1>2 DEF NoRun
<1>6. Settled'
  BY <1>1, <1>2 DEF Settled
<1>7. PlanStands'
  <2>1. Len(run.plan) \in Nat
    <3>1. Listed(run.plan)
      BY <1>2, <1>3, PlanHasShape DEF Settled, PlanShape
    <3> QED
      BY <3>1, ListHasPlaces
  <2>2. Len(results) <= Len(run.plan)
    BY <1>3, <1>4, <2>1
  <2> QED
    BY <1>1, <1>3, <1>4, <1>5, <2>2 DEF PlanStands
<1>8. ResultsAreShown'
  <2> SUFFICES ASSUME ~ run.disturbed PROVE AllShown(deployed, run.plan, results)
    BY <1>1, <1>5 DEF ResultsAreShown
  <2>1. /\ AllShown(deployed, run.plan, run.results) /\ AnswerStands
    BY <1>1 DEF EvidenceInv, ResultsAreShown
  <2>2. c = run.plan[n + 1]
    BY DEF CurrentCase
  <2> HIDE DEF c
  <2>3. Shown(deployed, c, r)
    <3>1. ASSUME passed, c.scenario # "none"
          PROVE  /\ run.before = c.required
                 /\ after = IF c.next = Stay THEN c.required ELSE c.next
                 /\ \E at \in [ScenarioNames -> Conditions] :
                    LET answer == Execute(deployed, at, c.request) IN
                    /\ at[c.scenario] = c.required
                    /\ answer.status = c.status
                    /\ answer.states[c.scenario] = IF c.next = Stay THEN c.required
                                                   ELSE c.next
      <4>1. PICK at \in [ScenarioNames -> Conditions] :
                LET answer == Execute(deployed, at, c.request)
                IN  /\ run.before = at[c.scenario]
                    /\ run.status = answer.status /\ states = answer.states
        BY <1>1, <2>1, <3>1, Zenon DEF AnswerStands, c
      <4> QED
        BY <3>1, <4>1
    <3>2. r.passed = passed /\ r.before = run.before /\ r.after = after
      OBVIOUS
    <3> HIDE DEF r, passed, after
    <3> QED
      BY <3>1, <3>2 DEF Shown
  <2> HIDE DEF r
  <2>4. ASSUME NEW k \in DOMAIN results PROVE Shown(deployed, run.plan[k], results[k])
    <3>1. CASE k \in 1..n
      BY <1>4, <2>1, <3>1 DEF AllShown
    <3>2. CASE k = n + 1
      BY <1>4, <2>2, <2>3, <3>2
    <3> QED
      BY <1>4, <3>1, <3>2
  <2>5. Len(results) <= Len(run.plan)
    BY <1>5, <1>7 DEF PlanStands
  <2>6. AllShown(deployed, run.plan, results)
    BY <1>4, <2>4, <2>5, Zenon DEF AllShown
  <2> QED
    BY <2>6
<1>9. AnswerStands'
  BY <1>5 DEF AnswerStands
<1>10. ReportStands'
  BY <1>1 DEF EvidenceInv, ReportStands
<1> QED
  BY <1>6, <1>7, <1>8, <1>9, <1>10 DEF EvidenceInv

\* A report that passes says what was shown.
LEMMA ReportKeeps ==
    ASSUME EvidenceInv, Report
    PROVE  EvidenceInv'
<1> DEFINE passes == Passes(workspace, run.plan, run.results, unmatched)
<1>1. /\ run.phase = "next" /\ Len(run.results) = Len(run.plan)
      /\ report' = [options |-> run.options, disturbed |-> run.disturbed, passed |-> passes]
      /\ run' = NoRun
      /\ UNCHANGED <<workspace, deployed, states>>
  BY DEF Report
<1> HIDE DEF passes
<1>2. Settled'
  BY <1>1 DEF EvidenceInv, Settled
<1>3. run'.phase = "idle" /\ DOMAIN run' = DOMAIN NoRun
  BY <1>1 DEF NoRun
<1>4. PlanStands' /\ ResultsAreShown' /\ AnswerStands'
  BY <1>3 DEF PlanStands, ResultsAreShown, AnswerStands
<1>5. ReportStands'
  <2> SUFFICES ASSUME passes, ~ run.disturbed, NEW id \in DOMAIN workspace.scenarios
               PROVE  IsServed(deployed, id, workspace.scenarios[id])
    BY <1>1 DEF ReportStands
  <2>1. /\ workspace \in Workspaces /\ PlanFits(workspace)
        /\ run.plan = Plan(workspace, run.options)
    BY <1>1 DEF EvidenceInv, Settled, PlanStands
  <2>2. PlanShape(workspace, run.plan)
    BY <2>1, PlanHasShape
  <2>3. AllShown(deployed, run.plan, run.results)
    BY <1>1 DEF EvidenceInv, ResultsAreShown
  <2> QED
    BY <1>1, <2>1, <2>2, <2>3, PassedIsServed DEF passes
<1> QED
  BY <1>2, <1>4, <1>5 DEF EvidenceInv

\* Every step keeps the invariant.
LEMMA NextEvidenceInv == EvidenceInv /\ [EvidenceNext]_evidenceVars => EvidenceInv'
<1> SUFFICES ASSUME EvidenceInv, [EvidenceNext]_evidenceVars PROVE EvidenceInv'
  OBVIOUS
<1>1. CASE \E request \in Requests : ClientRequest(request)
  BY <1>1, ClientKeeps
<1>2. CASE \E options \in Options : StartRun(options)
  BY <1>2, StartKeeps
<1>3. CASE SendCase
  BY <1>3, SendKeeps
<1>4. CASE ObserveCase
  BY <1>4, ObserveKeeps
<1>5. CASE Report
  BY <1>5, ReportKeeps
<1>6. CASE UNCHANGED evidenceVars
  BY <1>6 DEF evidenceVars, EvidenceInv, Settled, PlanStands, ResultsAreShown,
              AnswerStands, CurrentCase, ReportStands
<1> QED
  BY <1>1, <1>2, <1>3, <1>4, <1>5, <1>6 DEF EvidenceNext

\* For any workspaces and any caps, with plans short enough for the rounding of the
\* report: a report that passed, of a run that no client disturbed, tells the truth about
\* each configured scenario, whatever clients and other runs did before.
THEOREM PassedReportsAreServed == EvidenceSpec => []PassedMeansServed
<1>1. EvidenceInv => PassedMeansServed
  BY ReportIsServed DEF EvidenceInv
<1> QED
  BY <1>1, InitEvidenceInv, NextEvidenceInv, PTL DEF EvidenceSpec

-----------------------------------------------------------------------------
(* The members of lists.                                                   *)

\* The empty list.
LEMMA NothingIsListed == Listed(<<>>) /\ ToSet(<<>>) = {} /\ Len(<<>>) = 0
<1>1. Listed(<<>>) /\ DOMAIN <<>> = {} /\ Len(<<>>) = 0
  BY DEF Listed
<1> QED
  BY <1>1 DEF ToSet

\* The members of two lists, one after the other.
LEMMA AppendedMembers ==
    ASSUME NEW s, NEW t, Listed(s), Listed(t)
    PROVE  /\ Listed(s \o t) /\ Len(s \o t) = Len(s) + Len(t)
           /\ ToSet(s \o t) = ToSet(s) \cup ToSet(t)
<1> DEFINE u == s \o t
<1>1. /\ Listed(u) /\ Len(u) = Len(s) + Len(t)
      /\ \A i \in DOMAIN u : u[i] = IF i <= Len(s) THEN s[i] ELSE t[i - Len(s)]
  BY ListsAreAppended
<1>2. /\ Len(s) \in Nat /\ DOMAIN s = 1..Len(s) /\ Len(t) \in Nat /\ DOMAIN t = 1..Len(t)
      /\ \A x \in ToSet(s) : \E i \in DOMAIN s : s[i] = x
      /\ \A x \in ToSet(t) : \E i \in DOMAIN t : t[i] = x
      /\ \A i \in DOMAIN s : s[i] \in ToSet(s)
      /\ \A i \in DOMAIN t : t[i] \in ToSet(t)
  BY ListHasPlaces
<1> HIDE DEF u
<1>3. /\ DOMAIN u = 1..(Len(s) + Len(t)) /\ \A i \in DOMAIN u : u[i] \in ToSet(u)
      /\ \A x \in ToSet(u) : \E i \in DOMAIN u : u[i] = x
  BY <1>1, ListHasPlaces
<1>4. ASSUME NEW x \in ToSet(u) PROVE x \in ToSet(s) \cup ToSet(t)
  <2>1. PICK i \in DOMAIN u : u[i] = x
    BY <1>3
  <2>2. \/ i \in DOMAIN s /\ i <= Len(s)
        \/ i - Len(s) \in DOMAIN t /\ ~ (i <= Len(s))
    <3> DEFINE a == Len(s)
               b == Len(t)
    <3>1. a \in Nat /\ b \in Nat /\ i \in 1..(a + b) /\ DOMAIN s = 1..a /\ DOMAIN t = 1..b
      BY <1>2, <1>3
    <3> HIDE DEF a, b
    <3>2. CASE i <= a
      BY <3>1, <3>2 DEF a
    <3>3. CASE ~ (i <= a)
      <4>1. i - a \in 1..b
        BY <3>1, <3>3
      <4> QED
        BY <3>1, <3>3, <4>1 DEF a
    <3> QED
      BY <3>2, <3>3
  <2> QED
    BY <1>1, <1>2, <1>3, <2>1, <2>2
<1>5. ASSUME NEW x \in ToSet(s) PROVE x \in ToSet(u)
  <2>1. PICK i \in DOMAIN s : s[i] = x
    BY <1>2
  <2>2. i \in DOMAIN u /\ i <= Len(s)
    BY <1>2, <1>3
  <2> QED
    BY <1>1, <1>3, <2>1, <2>2
<1>6. ASSUME NEW x \in ToSet(t) PROVE x \in ToSet(u)
  <2>1. PICK i \in DOMAIN t : t[i] = x
    BY <1>2
  <2> DEFINE k == Len(s) + i
  <2>2. k \in DOMAIN u /\ ~ (k <= Len(s)) /\ k - Len(s) = i
    BY <1>2, <1>3
  <2> HIDE DEF k
  <2>3. u[k] = t[i]
    BY <1>1, <2>2
  <2> QED
    BY <1>3, <2>1, <2>2, <2>3
<1>7. ToSet(u) = ToSet(s) \cup ToSet(t)
  BY <1>4, <1>5, <1>6
<1> QED
  BY <1>1, <1>7 DEF u

\* Those of joined lists.
LEMMA JoinedMembers ==
    ASSUME NEW seqs, Listed(seqs), \A i \in DOMAIN seqs : Listed(seqs[i])
    PROVE  /\ Listed(FlattenSeq(seqs))
           /\ ToSet(FlattenSeq(seqs)) = UNION {ToSet(seqs[i]) : i \in DOMAIN seqs}
<1> DEFINE u == FlattenSeq(seqs)
           all == UNION {ToSet(seqs[i]) : i \in DOMAIN seqs}
<1>1. Joins(u, seqs)
  BY ListsAreJoined
<1> HIDE DEF u
<1>2. /\ Listed(u) /\ \A k \in DOMAIN u : u[k] \in ToSet(u)
      /\ \A x \in ToSet(u) : \E k \in DOMAIN u : u[k] = x
  BY <1>1, ListHasPlaces DEF Joins
<1>3. ASSUME NEW x \in ToSet(u) PROVE x \in all
  <2>1. PICK k \in DOMAIN u : u[k] = x
    BY <1>2
  <2>2. PICK i \in DOMAIN seqs : \E j \in DOMAIN seqs[i] : u[k] = seqs[i][j]
    BY <1>1, <2>1 DEF Joins
  <2>3. x \in ToSet(seqs[i])
    BY <2>1, <2>2, ListHasPlaces
  <2> QED
    BY <2>3
<1>4. ASSUME NEW x \in all PROVE x \in ToSet(u)
  <2>1. PICK i \in DOMAIN seqs : x \in ToSet(seqs[i])
    OBVIOUS
  <2>2. PICK j \in DOMAIN seqs[i] : seqs[i][j] = x
    BY <2>1, ListHasPlaces
  <2>3. PICK k \in DOMAIN u : u[k] = seqs[i][j]
    BY <1>1 DEF Joins
  <2> QED
    BY <1>2, <2>2, <2>3
<1> HIDE DEF all
<1>5. ToSet(u) = all
  BY <1>3, <1>4
<1> QED
  BY <1>2, <1>5 DEF u, all

\* Those of chosen members.
LEMMA SelectedMembers ==
    ASSUME NEW s, Listed(s), NEW kept
    PROVE  Listed(Selected(s, kept)) /\ ToSet(Selected(s, kept)) = ToSet(s) \cap kept
<1> DEFINE u == Selected(s, kept)
<1>1. /\ Listed(u)
      /\ \A k \in DOMAIN u : u[k] \in ToSet(s) \cap kept
      /\ \A x \in ToSet(s) \cap kept : \E k \in DOMAIN u : u[k] = x
  BY SelectedAreListed
<1> HIDE DEF u
<1>2. /\ \A k \in DOMAIN u : u[k] \in ToSet(u)
      /\ \A x \in ToSet(u) : \E k \in DOMAIN u : u[k] = x
  BY <1>1, ListHasPlaces
<1>3. ToSet(u) = ToSet(s) \cap kept
  <2>1. \A x \in ToSet(u) : x \in ToSet(s) \cap kept
    BY <1>1, <1>2
  <2>2. \A x \in ToSet(s) \cap kept : x \in ToSet(u)
    BY <1>1, <1>2
  <2> QED
    BY <2>1, <2>2
<1> QED
  BY <1>1, <1>3 DEF u

\* A list of one.
LEMMA OneIsListed ==
    ASSUME NEW x
    PROVE  Listed(<<x>>) /\ ToSet(<<x>>) = {x} /\ Len(<<x>>) = 1
<1>1. <<x>> \in Seq({x}) /\ Len(<<x>>) = 1 /\ DOMAIN <<x>> = {1} /\ <<x>>[1] = x
  OBVIOUS
<1>2. Listed(<<x>>)
  BY <1>1, SeqIsListed
<1> QED
  BY <1>1, <1>2, Zenon DEF ToSet

\* What is made of each member by an operator that is given as a function of its places.
LEMMA MadeMembers ==
    ASSUME NEW s, Listed(s), NEW f, DOMAIN f = DOMAIN s, f = [i \in DOMAIN s |-> f[i]]
    PROVE  Listed(f) /\ Len(f) = Len(s) /\ ToSet(f) = {f[i] : i \in DOMAIN s}
  BY EachIsListed DEF ToSet

-----------------------------------------------------------------------------
(* The mappings of a workspace without configured scenarios.               *)

\* The steps of the journey.
Begin(w) ==
    Stateful("begin", AnyOf({w.journey.begin}), 202, "SUBMITTED", Journey, "any", "PROCESSING")
GetProcessing(w) ==
    Stateful("get", AnyOf({w.journey.get}), 200, "PROCESSING", Journey, "PROCESSING", "COMPLETED")
GetCompleted(w) ==
    Stateful("get", AnyOf({w.journey.get}), 200, "COMPLETED", Journey, "COMPLETED", Stay)

\* The answer for members that are not in the dataset.
UnknownMember == Plain(100, "check", AnyOf(Template["check"]), 404, "MEMBER_NOT_FOUND")

\* The mappings of each source, as sets.
MemberMapping(c) == Plain(1, "check", AnyOf({c.path}), 200, c.says)
StoredMapping(c) == Plain(1, c.op, Exactly(c), Success[c.op], c.says)

StoredSet(w) ==
    IF w.eligibility THEN {MemberMapping(c) : c \in ToSet(w.dataset)} \cup {UnknownMember}
    ELSE {StoredMapping(c) : c \in ToSet(w.dataset)}

\* Those of the journey.
JourneySet(w) == IF w.eligibility THEN {Begin(w), GetProcessing(w), GetCompleted(w)} ELSE {}

\* The edge cases that the compiler takes, and the mappings of edges, pairs and the contract.
CompiledCases(w) == ToSet(EdgeCases(w, {"boundary", "negative"}, CompiledEdges))

EdgeMapping(e) == Sampled(2, e.op, Exactly(e), EdgeStatus(e))
PairMapping(p) == Sampled(3, p.op, Exactly(p), Success[p.op])
BaseMapping(op) == Sampled(10, op, AnyOf(Template[op]), Success[op])

EdgeSet(w) == {EdgeMapping(e) : e \in CompiledCases(w)}
PairSet(w) == {PairMapping(p) : p \in ToSet(w.pairs)}
ContractSet(w) == {BaseMapping(op) : op \in ToSet(w.operations) \ Overridden(w)}

\* All of them.
AllMappings(w) ==
    StoredSet(w) \cup JourneySet(w) \cup EdgeSet(w) \cup PairSet(w) \cup ContractSet(w)

\* A workspace without configured scenarios, whose eligibility dataset is generated.
Unconfigured(w) ==
    w \in Workspaces /\ DOMAIN w.scenarios = {} /\ (w.eligibility => w.dataset # <<>>)

\* The mappings of the dataset.
LEMMA StoredMembers ==
    ASSUME NEW w, Unconfigured(w)
    PROVE  Listed(DatasetMappings(w)) /\ ToSet(DatasetMappings(w)) = StoredSet(w)
<1> DEFINE data == w.dataset
           members == [i \in DOMAIN data |-> MemberMapping(data[i])]
           stored == [i \in DOMAIN data |-> StoredMapping(data[i])]
<1>1. Listed(data)
  BY WorkspaceAssumption DEF Unconfigured
<1>2. /\ data = <<>> => ToSet(data) = {}
      /\ ToSet(data) = {data[i] : i \in DOMAIN data}
  BY NothingIsListed DEF ToSet
<1>3. CASE data = <<>>
  <2>1. ~ w.eligibility /\ DatasetMappings(w) = <<>>
    BY <1>3 DEF Unconfigured, DatasetMappings
  <2>2. StoredSet(w) = {}
    BY <1>2, <1>3, <2>1 DEF StoredSet
  <2> QED
    BY <2>1, <2>2, NothingIsListed
<1>4. CASE data # <<>> /\ w.eligibility
  <2>1. DatasetMappings(w) = Append(members, UnknownMember)
    BY <1>4 DEF DatasetMappings, Each, UnknownMember, MemberMapping
  <2>2. Listed(members) /\ ToSet(members) = {members[i] : i \in DOMAIN data}
    <3>1. DOMAIN members = DOMAIN data /\ members = [i \in DOMAIN data |-> members[i]]
      OBVIOUS
    <3> HIDE DEF members
    <3> QED
      BY <1>1, <3>1, MadeMembers
  <2>3. ToSet(members) = {MemberMapping(c) : c \in ToSet(data)}
    <3>1. ToSet(members) = {MemberMapping(data[i]) : i \in DOMAIN data}
      BY <2>2
    <3> QED
      BY <1>2, <3>1
  <2> HIDE DEF members
  <2>4. Append(members, UnknownMember) = members \o <<UnknownMember>>
    <3>1. members \in Seq(ToSet(members))
      BY <2>2 DEF Listed
    <3> QED
      BY <3>1
  <2>5. /\ Listed(members \o <<UnknownMember>>)
        /\ ToSet(members \o <<UnknownMember>>) = ToSet(members) \cup {UnknownMember}
    BY <2>2, OneIsListed, AppendedMembers
  <2>6. StoredSet(w) = ToSet(members) \cup {UnknownMember}
    BY <1>4, <2>3 DEF StoredSet
  <2> QED
    BY <2>1, <2>4, <2>5, <2>6
<1>5. CASE data # <<>> /\ ~ w.eligibility
  <2>1. DatasetMappings(w) = stored
    BY <1>5 DEF DatasetMappings, Each, StoredMapping
  <2>2. Listed(stored) /\ ToSet(stored) = {stored[i] : i \in DOMAIN data}
    <3>1. DOMAIN stored = DOMAIN data /\ stored = [i \in DOMAIN data |-> stored[i]]
      OBVIOUS
    <3> HIDE DEF stored
    <3> QED
      BY <1>1, <3>1, MadeMembers
  <2>3. ToSet(stored) = {StoredMapping(c) : c \in ToSet(data)}
    <3>1. ToSet(stored) = {StoredMapping(data[i]) : i \in DOMAIN data}
      BY <2>2
    <3> QED
      BY <1>2, <3>1
  <2> HIDE DEF stored
  <2> QED
    BY <1>5, <2>1, <2>2, <2>3 DEF StoredSet
<1> QED
  BY <1>3, <1>4, <1>5

\* Those of the journey.
LEMMA JourneyMembers ==
    ASSUME NEW w
    PROVE  Listed(JourneyMappings(w)) /\ ToSet(JourneyMappings(w)) = JourneySet(w)
<1>1. JourneyMappings(w) = IF w.eligibility
                           THEN <<Begin(w), GetProcessing(w), GetCompleted(w)>> ELSE <<>>
  BY DEF JourneyMappings, Begin, GetProcessing, GetCompleted
<1> DEFINE S == {Begin(w), GetProcessing(w), GetCompleted(w)}
           s == <<Begin(w), GetProcessing(w), GetCompleted(w)>>
<1>2. /\ s \in Seq(S) /\ DOMAIN s = {1, 2, 3}
      /\ s[1] = Begin(w) /\ s[2] = GetProcessing(w) /\ s[3] = GetCompleted(w)
  OBVIOUS
<1>3. Listed(s)
  BY <1>2, SeqIsListed
<1> HIDE DEF s
<1>4. ToSet(s) = S
  BY <1>2, Zenon DEF ToSet
<1> QED
  BY <1>1, <1>3, <1>4, NothingIsListed DEF JourneySet, s

\* There are none of scenarios that are not configured.
LEMMA NoScenarioMembers ==
    ASSUME NEW w, Unconfigured(w)
    PROVE  Listed(ScenarioMappings(w)) /\ ToSet(ScenarioMappings(w)) = {}
<1> DEFINE lists == [i \in DOMAIN Ids |-> <<>>]
<1>1. ScenarioMappings(w) = FlattenSeq(lists)
  BY Zenon DEF Unconfigured, ScenarioMappings, Concat
<1>2. Listed(lists) /\ \A i \in DOMAIN lists : lists[i] = <<>>
  <2>1. /\ DOMAIN lists = DOMAIN Ids /\ lists = [i \in DOMAIN Ids |-> lists[i]]
        /\ \A i \in DOMAIN lists : lists[i] = <<>>
    OBVIOUS
  <2> HIDE DEF lists
  <2> QED
    BY <2>1, WorkspaceAssumption, EachIsListed
<1> HIDE DEF lists
<1>3. /\ Listed(FlattenSeq(lists))
      /\ ToSet(FlattenSeq(lists)) = UNION {ToSet(lists[i]) : i \in DOMAIN lists}
  BY <1>2, NothingIsListed, JoinedMembers
<1>4. UNION {ToSet(lists[i]) : i \in DOMAIN lists} = {}
  BY <1>2, NothingIsListed
<1> QED
  BY <1>1, <1>3, <1>4

\* All mappings of the workspace before its profile.
LEMMA BaseMembers ==
    ASSUME NEW w, Unconfigured(w)
    PROVE  Listed(BaseMappings(w)) /\ ToSet(BaseMappings(w)) = AllMappings(w)
<1> DEFINE candidates == EdgeCases(w, {"boundary", "negative"}, CompiledEdges)
           rest == Selected(w.operations, ToSet(w.operations) \ Overridden(w))
           edges == [i \in DOMAIN candidates |-> EdgeMapping(candidates[i])]
           pairs == [i \in DOMAIN w.pairs |-> PairMapping(w.pairs[i])]
           base == [i \in DOMAIN rest |-> BaseMapping(rest[i])]
           all == ((((DatasetMappings(w) \o JourneyMappings(w)) \o ScenarioMappings(w))
                    \o edges) \o pairs) \o base
<1>0. w \in Workspaces
  BY DEF Unconfigured
<1>1. BaseMappings(w) = all
  BY DEF BaseMappings, Each, EdgeMapping, PairMapping, BaseMapping
<1>2. Listed(candidates) /\ Listed(w.pairs) /\ Listed(rest)
      /\ ToSet(rest) = ToSet(w.operations) \ Overridden(w)
      /\ ToSet(candidates) = CompiledCases(w)
  <2>1. CompiledEdges \in Nat /\ Listed(w.operations) /\ Listed(w.pairs)
    BY <1>0, WorkspaceAssumption
  <2>2. ToSet(rest) = ToSet(w.operations) \cap (ToSet(w.operations) \ Overridden(w))
    BY <2>1, SelectedMembers
  <2>3. Listed(rest)
    BY <2>1, SelectedMembers
  <2> HIDE DEF rest
  <2> QED
    BY <1>0, <2>1, <2>2, <2>3, EdgesAreListed DEF CompiledCases
<1> HIDE DEF candidates, rest
<1>3. Listed(edges) /\ ToSet(edges) = EdgeSet(w)
  <2>1. DOMAIN edges = DOMAIN candidates /\ edges = [i \in DOMAIN candidates |-> edges[i]]
    OBVIOUS
  <2>2. {edges[i] : i \in DOMAIN candidates} = EdgeSet(w)
    BY <1>2 DEF EdgeSet, ToSet
  <2> HIDE DEF edges
  <2> QED
    BY <1>2, <2>1, <2>2, MadeMembers
<1>4. Listed(pairs) /\ ToSet(pairs) = PairSet(w)
  <2>1. DOMAIN pairs = DOMAIN w.pairs /\ pairs = [i \in DOMAIN w.pairs |-> pairs[i]]
    OBVIOUS
  <2>2. {pairs[i] : i \in DOMAIN w.pairs} = PairSet(w)
    BY DEF PairSet, ToSet
  <2> HIDE DEF pairs
  <2> QED
    BY <1>2, <2>1, <2>2, MadeMembers
<1>5. Listed(base) /\ ToSet(base) = ContractSet(w)
  <2>1. DOMAIN base = DOMAIN rest /\ base = [i \in DOMAIN rest |-> base[i]]
    OBVIOUS
  <2>2. {base[i] : i \in DOMAIN rest} = ContractSet(w)
    <3>1. {base[i] : i \in DOMAIN rest} = {BaseMapping(op) : op \in ToSet(rest)}
      BY DEF ToSet
    <3> QED
      BY <1>2, <3>1 DEF ContractSet
  <2> HIDE DEF base
  <2> QED
    BY <1>2, <2>1, <2>2, MadeMembers
<1> HIDE DEF edges, pairs, base
<1> DEFINE d == DatasetMappings(w)
           j == JourneyMappings(w)
           c == ScenarioMappings(w)
<1>6. /\ Listed(d) /\ ToSet(d) = StoredSet(w) /\ Listed(j) /\ ToSet(j) = JourneySet(w)
      /\ Listed(c) /\ ToSet(c) = {}
  BY StoredMembers, JourneyMembers, NoScenarioMembers
<1> HIDE DEF d, j, c
<1>7. Listed(d \o j) /\ ToSet(d \o j) = StoredSet(w) \cup JourneySet(w)
  BY <1>6, AppendedMembers
<1>8. Listed((d \o j) \o c) /\ ToSet((d \o j) \o c) = StoredSet(w) \cup JourneySet(w)
  BY <1>6, <1>7, AppendedMembers
<1>9. /\ Listed(((d \o j) \o c) \o edges)
      /\ ToSet(((d \o j) \o c) \o edges) = StoredSet(w) \cup JourneySet(w) \cup EdgeSet(w)
  BY <1>3, <1>8, AppendedMembers
<1>10. /\ Listed((((d \o j) \o c) \o edges) \o pairs)
       /\ ToSet((((d \o j) \o c) \o edges) \o pairs)
            = StoredSet(w) \cup JourneySet(w) \cup EdgeSet(w) \cup PairSet(w)
  BY <1>4, <1>9, AppendedMembers
<1>11. /\ Listed(((((d \o j) \o c) \o edges) \o pairs) \o base)
       /\ ToSet(((((d \o j) \o c) \o edges) \o pairs) \o base) = AllMappings(w)
  BY <1>5, <1>10, AppendedMembers DEF AllMappings
<1> QED
  BY <1>1, <1>11 DEF d, j, c

-----------------------------------------------------------------------------
(* What answers a request.                                                 *)

\* A mapping answers a request: it matches, and none that matches is more urgent.
Answers(mappings, at, request, m) ==
    /\ m \in mappings /\ MappingMatches(m, at, request)
    /\ \A n \in mappings : MappingMatches(n, at, request) => m.priority <= n.priority

\* The answer a mapping gives.
Given(m, at) ==
    [status |-> m.status, says |-> m.says, matched |-> TRUE,
     states |-> IF m.next = Stay THEN at ELSE [at EXCEPT ![m.scenario] = m.next]]

\* A request that some mapping matches is answered by one that answers it.
LEMMA ChosenAnswers ==
    ASSUME NEW s, Listed(s), \A m \in ToSet(s) : m.priority \in Nat,
           NEW at, NEW request,
           \E m \in ToSet(s) : MappingMatches(m, at, request)
    PROVE  \E m \in ToSet(s) : Answers(ToSet(s), at, request, m)
                               /\ Execute(s, at, request) = Given(m, at)
<1> DEFINE M == {i \in DOMAIN s : MappingMatches(s[i], at, request)}
           P == {s[i].priority : i \in M}
           chosen == {i \in DOMAIN s : Candidate(s, at, request, i)}
<1>1. /\ Len(s) \in Nat /\ DOMAIN s = 1..Len(s)
      /\ \A i \in DOMAIN s : s[i] \in ToSet(s)
      /\ \A x \in ToSet(s) : \E i \in DOMAIN s : s[i] = x
  BY ListHasPlaces
<1>2. /\ M # {} /\ M \in SUBSET Nat /\ M \in SUBSET DOMAIN s
      /\ \A i \in M : s[i].priority \in Nat
      /\ \A i \in DOMAIN s : MappingMatches(s[i], at, request) => i \in M
  BY <1>1
<1>3. PICK p \in P : \A q \in P : p <= q
  <2>1. P # {} /\ P \in SUBSET Nat
    BY <1>2
  <2> HIDE DEF P
  <2> QED
    BY <2>1, HasLeast
<1> DEFINE Q == {i \in M : s[i].priority = p}
<1>4. PICK i \in Q : \A k \in Q : i <= k
  <2>1. Q # {} /\ Q \in SUBSET Nat
    BY <1>2, <1>3
  <2> HIDE DEF Q
  <2> QED
    BY <2>1, HasLeast
<1>5. /\ i \in M /\ s[i].priority = p
      /\ \A k \in M : s[k].priority = p => i <= k
      /\ \A k \in M : p <= s[k].priority
  BY <1>3, <1>4
<1>6. i \in chosen
  <2>1. i \in DOMAIN s /\ MappingMatches(s[i], at, request)
    BY <1>5
  <2>2. ASSUME NEW j \in DOMAIN s, MappingMatches(s[j], at, request)
        PROVE  \/ s[i].priority < s[j].priority
               \/ s[i].priority = s[j].priority /\ i <= j
    <3>1. j \in M
      BY <2>2
    <3> HIDE DEF M
    <3>2. s[j].priority \in Nat /\ s[i].priority \in Nat /\ p <= s[j].priority
      BY <1>2, <1>5, <3>1
    <3> QED
      BY <1>5, <3>1, <3>2
  <2> QED
    BY <2>1, <2>2 DEF Candidate
<1> DEFINE k == CHOOSE x \in chosen : TRUE
           m == s[k]
<1>7. /\ k \in DOMAIN s /\ Candidate(s, at, request, k)
      /\ Execute(s, at, request) = Given(m, at)
  <2>1. k \in chosen
    BY <1>6
  <2>2. Execute(s, at, request) = Given(m, at)
    BY <1>6 DEF Execute, Given
  <2> QED
    BY <2>1, <2>2
<1> HIDE DEF k
<1>8. m \in ToSet(s)
  BY <1>1, <1>7
<1>9. Answers(ToSet(s), at, request, m)
  <2>1. MappingMatches(m, at, request)
    BY <1>7 DEF Candidate
  <2>2. ASSUME NEW n \in ToSet(s), MappingMatches(n, at, request)
        PROVE  m.priority <= n.priority
    <3>1. PICK j \in DOMAIN s : s[j] = n
      BY <1>1
    <3>2. s[k].priority < s[j].priority \/ s[k].priority = s[j].priority
      BY <1>7, <2>2, <3>1 DEF Candidate
    <3>3. m.priority \in Nat /\ n.priority \in Nat
      BY <1>8
    <3> QED
      BY <3>1, <3>2, <3>3
  <2> HIDE DEF m
  <2> QED
    BY <1>8, <2>1, <2>2 DEF Answers
<1> HIDE DEF m
<1> QED
  BY <1>7, <1>8, <1>9

\* The form of a mapping; outside a scenario it asks for no state and moves none.
IsMapping(m) ==
    /\ m = [priority |-> m.priority, op |-> m.op, takes |-> m.takes, status |-> m.status,
            says |-> m.says, scenario |-> m.scenario, required |-> m.required, next |-> m.next]
    /\ m.priority \in Nat
    /\ \/ m.scenario = "none" /\ m.required = "any" /\ m.next = Stay
       \/ m.scenario = Journey

\* Plain mappings and those of the journey have it.
LEMMA PlainIsMapping ==
    ASSUME NEW priority \in Nat, NEW op, NEW takes, NEW status, NEW says
    PROVE  LET m == Plain(priority, op, takes, status, says) IN
           /\ IsMapping(m) /\ m.priority = priority /\ m.op = op /\ m.takes = takes
           /\ m.status = status /\ m.says = says
           /\ m.scenario = "none" /\ m.required = "any" /\ m.next = Stay
  BY DEF Plain, IsMapping

\* The fields of a mapping of the journey.
LEMMA StatefulIsMapping ==
    ASSUME NEW op, NEW takes, NEW status, NEW says, NEW required, NEW next
    PROVE  LET m == Stateful(op, takes, status, says, Journey, required, next) IN
           /\ IsMapping(m) /\ m.priority = 1 /\ m.op = op /\ m.takes = takes
           /\ m.status = status /\ m.says = says /\ m.scenario = Journey /\ m.required = required
           /\ m.next = next
<1> DEFINE m == Stateful(op, takes, status, says, Journey, required, next)
<1>1. m = [priority |-> 1, op |-> op, takes |-> takes, status |-> status, says |-> says,
           scenario |-> Journey, required |-> required, next |-> next]
  <2> DEFINE p == [priority |-> 1, op |-> op, takes |-> takes, status |-> status, says |-> says,
                   scenario |-> "none", required |-> "any", next |-> Stay]
             name == Journey
             n == [p EXCEPT !.scenario = name, !.required = required, !.next = next]
  <2>1. m = n
    BY DEF Stateful, Plain
  <2> HIDE DEF name, m
  <2>2. n = [priority |-> 1, op |-> op, takes |-> takes, status |-> status, says |-> says,
             scenario |-> name, required |-> required, next |-> next]
    <3> DEFINE D == {"priority", "op", "takes", "status", "says", "scenario", "required", "next"}
               r == [priority |-> 1, op |-> op, takes |-> takes, status |-> status, says |-> says,
                     scenario |-> name, required |-> required, next |-> next]
    <3>1. DOMAIN p = D /\ DOMAIN r = D
      OBVIOUS
    <3>2. DOMAIN n = D
      BY <3>1
    <3>3. \A f \in D : n[f] = r[f]
      <4>1. n.scenario = name
        OBVIOUS
      <4>2. n.required = required
        OBVIOUS
      <4>3. n.next = next
        OBVIOUS
      <4>4. n.priority = p.priority /\ n.op = p.op /\ n.takes = p.takes /\ n.status = p.status
              /\ n.says = p.says
        OBVIOUS
      <4> HIDE DEF n
      <4> QED
        BY <4>1, <4>2, <4>3, <4>4
    <3>4. n = [f \in D |-> n[f]]
      BY <3>2
    <3>5. r = [f \in D |-> r[f]]
      BY <3>1
    <3> HIDE DEF n, r, D
    <3>6. n = r
      BY <3>3, <3>4, <3>5
    <3> QED
      BY <3>6 DEF r
  <2> QED
    BY <2>1, <2>2 DEF name
<1> HIDE DEF m
<1>2. /\ m.priority = 1 /\ m.op = op /\ m.takes = takes /\ m.status = status
      /\ m.says = says /\ m.scenario = Journey /\ m.required = required /\ m.next = next
  BY <1>1
<1>3. IsMapping(m)
  BY <1>1, <1>2 DEF IsMapping
<1> QED
  BY <1>2, <1>3 DEF m

\* All mappings have it.
LEMMA AllAreMappings ==
    ASSUME NEW w, NEW m \in AllMappings(w)
    PROVE  IsMapping(m)
<1>1. CASE m \in StoredSet(w)
  <2>1. CASE w.eligibility
    <3>1. \A c : IsMapping(MemberMapping(c))
      BY PlainIsMapping DEF MemberMapping
    <3>2. IsMapping(UnknownMember)
      BY PlainIsMapping DEF UnknownMember
    <3> QED
      BY <1>1, <2>1, <3>1, <3>2 DEF StoredSet
  <2>2. CASE ~ w.eligibility
    <3>1. \A c : IsMapping(StoredMapping(c))
      BY PlainIsMapping DEF StoredMapping
    <3> QED
      BY <1>1, <2>2, <3>1 DEF StoredSet
  <2> QED
    BY <2>1, <2>2
<1>2. CASE m \in JourneySet(w)
  BY <1>2, StatefulIsMapping DEF JourneySet, Begin, GetProcessing, GetCompleted
<1>3. CASE m \in EdgeSet(w)
  <2>1. \A e : IsMapping(EdgeMapping(e))
    BY PlainIsMapping DEF EdgeMapping, Sampled
  <2> QED
    BY <1>3, <2>1 DEF EdgeSet
<1>4. CASE m \in PairSet(w)
  BY <1>4, PlainIsMapping DEF PairSet, PairMapping, Sampled
<1>5. CASE m \in ContractSet(w)
  BY <1>5, PlainIsMapping DEF ContractSet, BaseMapping, Sampled
<1> QED
  BY <1>1, <1>2, <1>3, <1>4, <1>5 DEF AllMappings

-----------------------------------------------------------------------------
(* What the profile makes of an answer.                                    *)

\* The mappings that a profile makes of one.
Unavailable(m) ==
    [priority |-> m.priority, op |-> m.op, takes |-> m.takes, status |-> FailureStatus,
     says |-> FailureBody, scenario |-> m.scenario, required |-> m.required, next |-> m.next]
Succeeding(m) ==
    [priority |-> m.priority, op |-> m.op, takes |-> m.takes, status |-> m.status,
     says |-> m.says, scenario |-> Intermittent, required |-> "Started", next |-> "DEGRADED"]
Degrading(m) ==
    [priority |-> m.priority, op |-> m.op, takes |-> m.takes, status |-> FailureStatus,
     says |-> FailureBody, scenario |-> Intermittent, required |-> "DEGRADED",
     next |-> "Started"]

\* Whether a mapping alternates.
Alternates(w, m) == w.profile = "intermittent" /\ m.scenario = "none"

\* What the profile makes of it.
Profiled(w, m) ==
    IF w.profile = "unavailable" THEN {Unavailable(m)}
    ELSE IF Alternates(w, m) THEN {Succeeding(m), Degrading(m)} ELSE {m}

\* The forms of a mapping that EXCEPT gives.
LEMMA ChangedMapping ==
    ASSUME NEW m, IsMapping(m)
    PROVE  /\ [m EXCEPT !.status = FailureStatus, !.says = FailureBody] = Unavailable(m)
           /\ [m EXCEPT !.scenario = Intermittent, !.required = "Started",
                        !.next = "DEGRADED"] = Succeeding(m)
           /\ [m EXCEPT !.scenario = Intermittent, !.required = "DEGRADED",
                        !.next = "Started", !.status = FailureStatus,
                        !.says = FailureBody] = Degrading(m)
<1> DEFINE D == {"priority", "op", "takes", "status", "says", "scenario", "required", "next"}
           name == Intermittent
           failed == FailureStatus
           broken == FailureBody
           u == [m EXCEPT !.status = failed, !.says = broken]
           s == [m EXCEPT !.scenario = name, !.required = "Started", !.next = "DEGRADED"]
           d == [m EXCEPT !.scenario = name, !.required = "DEGRADED",
                          !.next = "Started", !.status = failed, !.says = broken]
           r == [priority |-> m.priority, op |-> m.op, takes |-> m.takes, status |-> m.status,
                 says |-> m.says, scenario |-> m.scenario, required |-> m.required,
                 next |-> m.next]
           ru == [priority |-> m.priority, op |-> m.op, takes |-> m.takes, status |-> failed,
                  says |-> broken, scenario |-> m.scenario, required |-> m.required,
                  next |-> m.next]
           rs == [priority |-> m.priority, op |-> m.op, takes |-> m.takes, status |-> m.status,
                  says |-> m.says, scenario |-> name, required |-> "Started", next |-> "DEGRADED"]
           rd == [priority |-> m.priority, op |-> m.op, takes |-> m.takes, status |-> failed,
                  says |-> broken, scenario |-> name, required |-> "DEGRADED", next |-> "Started"]
<1> HIDE DEF name, failed, broken
<1>1. m = r
  BY DEF IsMapping
<1>2. DOMAIN r = D /\ DOMAIN ru = D /\ DOMAIN rs = D /\ DOMAIN rd = D
  OBVIOUS
<1>3. DOMAIN m = D
  <2> HIDE DEF r, D
  <2> QED
    BY <1>1, <1>2
<1>4. u = ru
  <2>1. u.status = failed
    BY <1>3
  <2>6. u.says = broken
    BY <1>3
  <2>2. /\ u.priority = m.priority /\ u.op = m.op /\ u.takes = m.takes
        /\ u.scenario = m.scenario /\ u.required = m.required /\ u.next = m.next
    BY <1>3
  <2>3. DOMAIN u = D /\ u = [f \in D |-> u[f]]
    BY <1>3
  <2>4. ru = [f \in D |-> ru[f]]
    BY <1>2
  <2>5. \A f \in D : u[f] = ru[f]
    <3> HIDE DEF u
    <3> QED
      BY <2>1, <2>2, <2>6
  <2> HIDE DEF u, ru, D
  <2> QED
    BY <2>3, <2>4, <2>5
<1>5. s = rs
  <2>1. s.scenario = name
    BY <1>3
  <2>2. s.required = "Started"
    BY <1>3
  <2>3. s.next = "DEGRADED"
    BY <1>3
  <2>4. /\ s.priority = m.priority /\ s.op = m.op /\ s.takes = m.takes /\ s.status = m.status
        /\ s.says = m.says
    BY <1>3
  <2>5. DOMAIN s = D /\ s = [f \in D |-> s[f]]
    BY <1>3
  <2>6. rs = [f \in D |-> rs[f]]
    BY <1>2
  <2>7. \A f \in D : s[f] = rs[f]
    <3> HIDE DEF s
    <3> QED
      BY <2>1, <2>2, <2>3, <2>4
  <2> HIDE DEF s, rs, D
  <2> QED
    BY <2>5, <2>6, <2>7
<1>6. d = rd
  <2>1. d.scenario = name
    BY <1>3
  <2>2. d.required = "DEGRADED"
    BY <1>3
  <2>3. d.next = "Started"
    BY <1>3
  <2>4. d.status = failed
    BY <1>3
  <2>5. /\ d.priority = m.priority /\ d.op = m.op /\ d.takes = m.takes
    BY <1>3
  <2>9. d.says = broken
    BY <1>3
  <2>6. DOMAIN d = D /\ d = [f \in D |-> d[f]]
    BY <1>3
  <2>7. rd = [f \in D |-> rd[f]]
    BY <1>2
  <2>8. \A f \in D : d[f] = rd[f]
    <3> HIDE DEF d
    <3> QED
      BY <2>1, <2>2, <2>3, <2>4, <2>5, <2>9
  <2> HIDE DEF d, rd, D
  <2> QED
    BY <2>6, <2>7, <2>8
<1> QED
  BY <1>4, <1>5, <1>6 DEF name, failed, broken, Unavailable, Succeeding, Degrading

\* The mappings of a workspace in its profile.
LEMMA ProfiledMembers ==
    ASSUME NEW w, Unconfigured(w)
    PROVE  /\ Listed(Mappings(w))
           /\ ToSet(Mappings(w)) = UNION {Profiled(w, m) : m \in AllMappings(w)}
<1> DEFINE all == BaseMappings(w)
           failing == [i \in DOMAIN all |->
                            [all[i] EXCEPT !.status = FailureStatus, !.says = FailureBody]]
           lists == [i \in DOMAIN all |-> Alternating(all[i])]
           made == UNION {Profiled(w, m) : m \in AllMappings(w)}
<1>0. Listed(all) /\ ToSet(all) = AllMappings(w)
  BY BaseMembers
<1>1. Mappings(w) = IF w.profile = "unavailable" THEN failing
                    ELSE IF w.profile = "intermittent" THEN FlattenSeq(lists) ELSE all
  BY DEF Mappings, Each, Concat
<1> HIDE DEF all
<1>2. /\ \A i \in DOMAIN all : all[i] \in AllMappings(w)
      /\ \A m \in AllMappings(w) : \E i \in DOMAIN all : all[i] = m
  BY <1>0, ListHasPlaces
<1>3. \A i \in DOMAIN all : IsMapping(all[i])
  BY <1>2, AllAreMappings
<1>4. CASE w.profile = "unavailable"
  <2>1. \A m : Profiled(w, m) = {Unavailable(m)}
    BY <1>4 DEF Profiled
  <2>2. /\ DOMAIN failing = DOMAIN all /\ failing = [i \in DOMAIN all |-> failing[i]]
        /\ \A i \in DOMAIN all : failing[i] = Unavailable(all[i])
    BY <1>3, ChangedMapping
  <2> HIDE DEF failing
  <2>3. Listed(failing) /\ ToSet(failing) = {failing[i] : i \in DOMAIN all}
    BY <1>0, <2>2, MadeMembers
  <2>4. {failing[i] : i \in DOMAIN all} = made
    <3>1. ASSUME NEW i \in DOMAIN all PROVE failing[i] \in made
      BY <1>2, <2>1, <2>2
    <3>2. ASSUME NEW x \in made PROVE \E i \in DOMAIN all : failing[i] = x
      <4>1. PICK m \in AllMappings(w) : x = Unavailable(m)
        BY <2>1
      <4> QED
        BY <1>2, <2>2, <4>1
    <3> HIDE DEF made
    <3> QED
      BY <3>1, <3>2
  <2> QED
    BY <1>1, <1>4, <2>3, <2>4
<1>5. CASE w.profile = "intermittent"
  <2>1. ASSUME NEW i \in DOMAIN all
        PROVE  Listed(lists[i]) /\ ToSet(lists[i]) = Profiled(w, all[i])
    <3> DEFINE m == all[i]
    <3>1. IsMapping(m)
      BY <1>3
    <3>2. lists[i] = Alternating(m)
      OBVIOUS
    <3> HIDE DEF m, lists
    <3>3. CASE m.scenario # "none"
      <4>1. lists[i] = <<m>> /\ Profiled(w, m) = {m}
        BY <1>5, <3>2, <3>3 DEF Alternating, Profiled, Alternates
      <4> QED
        BY <4>1, OneIsListed DEF m
    <3>4. CASE m.scenario = "none"
      <4> DEFINE a == Succeeding(m)
                 b == Degrading(m)
      <4>1. Alternating(m) = <<a, b>>
        BY <3>1, <3>4, ChangedMapping DEF Alternating
      <4>2. Profiled(w, m) = {a, b}
        BY <1>5, <3>4 DEF Profiled, Alternates
      <4> HIDE DEF a, b
      <4>3. /\ <<a, b>> \in Seq({a, b}) /\ DOMAIN <<a, b>> = {1, 2}
            /\ <<a, b>>[1] = a /\ <<a, b>>[2] = b
        OBVIOUS
      <4>4. Listed(<<a, b>>)
        BY <4>3, SeqIsListed
      <4>5. ToSet(<<a, b>>) = {a, b}
        BY <4>3, Zenon DEF ToSet
      <4> QED
        BY <3>2, <4>1, <4>2, <4>4, <4>5 DEF m
    <3> QED
      BY <3>3, <3>4
  <2>2. DOMAIN lists = DOMAIN all /\ lists = [i \in DOMAIN all |-> lists[i]]
    OBVIOUS
  <2> HIDE DEF lists
  <2>3. Listed(lists)
    BY <1>0, <2>2, EachIsListed
  <2>4. /\ Listed(FlattenSeq(lists))
        /\ ToSet(FlattenSeq(lists)) = UNION {ToSet(lists[i]) : i \in DOMAIN lists}
    BY <2>1, <2>2, <2>3, JoinedMembers
  <2>5. UNION {ToSet(lists[i]) : i \in DOMAIN lists} = made
    <3>1. UNION {ToSet(lists[i]) : i \in DOMAIN lists}
            = UNION {Profiled(w, all[i]) : i \in DOMAIN all}
      BY <2>1, <2>2
    <3>2. {Profiled(w, all[i]) : i \in DOMAIN all} = {Profiled(w, m) : m \in AllMappings(w)}
      <4>1. ASSUME NEW i \in DOMAIN all
            PROVE  Profiled(w, all[i]) \in {Profiled(w, m) : m \in AllMappings(w)}
        BY <1>2
      <4>2. ASSUME NEW m \in AllMappings(w)
            PROVE  Profiled(w, m) \in {Profiled(w, all[i]) : i \in DOMAIN all}
        BY <1>2
      <4> QED
        BY <4>1, <4>2
    <3> QED
      BY <3>1, <3>2
  <2> QED
    BY <1>1, <1>5, <2>4, <2>5
<1>6. CASE w.profile # "unavailable" /\ w.profile # "intermittent"
  <2>1. \A m : Profiled(w, m) = {m}
    BY <1>6 DEF Profiled, Alternates
  <2>2. made = AllMappings(w)
    BY <2>1
  <2> QED
    BY <1>0, <1>1, <1>6, <2>2
<1> QED
  BY <1>4, <1>5, <1>6

\* Whether the profile fails the answer of a mapping.
Failed(w, m, at) ==
    w.profile = "unavailable" \/ (Alternates(w, m) /\ at[Intermittent] = "DEGRADED")

\* What it answers, and the states it leaves.
Outcome(w, m, at) ==
    [status |-> IF Failed(w, m, at) THEN FailureStatus ELSE m.status,
     says |-> IF Failed(w, m, at) THEN FailureBody ELSE m.says,
     matched |-> TRUE,
     states |-> IF Alternates(w, m)
                THEN [at EXCEPT ![Intermittent] = IF at[Intermittent] = "Started" THEN "DEGRADED"
                                                  ELSE "Started"]
                ELSE IF m.next = Stay THEN at ELSE [at EXCEPT ![m.scenario] = m.next]]

\* What a profile makes of a mapping matches when the mapping does.
LEMMA ProfileMatches ==
    ASSUME NEW w, NEW m, IsMapping(m), NEW at, NEW request,
           Alternates(w, m) => at[Intermittent] \in {"Started", "DEGRADED"}
    PROVE  /\ \A x \in Profiled(w, m) :
                /\ x.priority = m.priority
                /\ MappingMatches(x, at, request) =>
                    MappingMatches(m, at, request) /\ Given(x, at) = Outcome(w, m, at)
           /\ MappingMatches(m, at, request) =>
                \E x \in Profiled(w, m) : MappingMatches(x, at, request)
<1>1. CASE w.profile = "unavailable"
  <2> DEFINE x == Unavailable(m)
  <2>1. /\ x.priority = m.priority /\ x.op = m.op /\ x.takes = m.takes
        /\ x.status = FailureStatus /\ x.says = FailureBody /\ x.scenario = m.scenario
        /\ x.required = m.required /\ x.next = m.next
    BY DEF Unavailable
  <2>2. Profiled(w, m) = {x} /\ ~ Alternates(w, m)
    BY <1>1 DEF Profiled, Alternates
  <2> HIDE DEF x
  <2>3. MappingMatches(x, at, request) <=> MappingMatches(m, at, request)
    BY <2>1 DEF MappingMatches
  <2>4. Given(x, at) = Outcome(w, m, at)
    BY <1>1, <2>1, <2>2 DEF Given, Outcome, Failed
  <2> QED
    BY <2>1, <2>2, <2>3, <2>4
<1>2. CASE Alternates(w, m)
  <2> DEFINE x == Succeeding(m)
             y == Degrading(m)
  <2>1. /\ x.priority = m.priority /\ x.op = m.op /\ x.takes = m.takes
        /\ x.status = m.status /\ x.says = m.says /\ x.scenario = Intermittent
        /\ x.required = "Started" /\ x.next = "DEGRADED"
    BY DEF Succeeding
  <2>2. /\ y.priority = m.priority /\ y.op = m.op /\ y.takes = m.takes
        /\ y.status = FailureStatus /\ y.says = FailureBody /\ y.scenario = Intermittent
        /\ y.required = "DEGRADED" /\ y.next = "Started"
    BY DEF Degrading
  <2>3. Profiled(w, m) = {x, y} /\ w.profile # "unavailable"
    BY <1>2 DEF Profiled, Alternates
  <2>4. m.required = "any"
    BY <1>2 DEF IsMapping, Alternates, Journey
  <2> HIDE DEF x, y
  <2>5. MappingMatches(x, at, request)
            <=> MappingMatches(m, at, request) /\ at[Intermittent] = "Started"
    BY <2>1, <2>4 DEF MappingMatches
  <2>6. MappingMatches(y, at, request)
            <=> MappingMatches(m, at, request) /\ at[Intermittent] = "DEGRADED"
    BY <2>2, <2>4 DEF MappingMatches
  <2>7. at[Intermittent] = "Started" => Given(x, at) = Outcome(w, m, at)
    BY <1>2, <2>1, <2>3 DEF Given, Outcome, Failed, Stay
  <2>8. at[Intermittent] = "DEGRADED" => Given(y, at) = Outcome(w, m, at)
    BY <1>2, <2>2, <2>3 DEF Given, Outcome, Failed, Stay
  <2> QED
    BY <1>2, <2>1, <2>2, <2>3, <2>5, <2>6, <2>7, <2>8
<1>3. CASE w.profile # "unavailable" /\ ~ Alternates(w, m)
  <2>1. Profiled(w, m) = {m}
    BY <1>3 DEF Profiled
  <2>2. Given(m, at) = Outcome(w, m, at)
    BY <1>3 DEF Given, Outcome, Failed
  <2> QED
    BY <2>1, <2>2
<1> QED
  BY <1>1, <1>2, <1>3 DEF Alternates

\* A request is answered by what the profile makes of a mapping that answers it.
LEMMA ProfiledAnswers ==
    ASSUME NEW w, Unconfigured(w), NEW at, NEW request,
           w.profile = "intermittent" => at[Intermittent] \in {"Started", "DEGRADED"},
           \E m \in AllMappings(w) : MappingMatches(m, at, request)
    PROVE  \E m \in AllMappings(w) : /\ Answers(AllMappings(w), at, request, m)
                                     /\ Execute(Mappings(w), at, request) = Outcome(w, m, at)
<1> DEFINE all == AllMappings(w)
           made == ToSet(Mappings(w))
<1>1. Listed(Mappings(w)) /\ made = UNION {Profiled(w, m) : m \in all}
  BY ProfiledMembers
<1>2. \A m \in all : IsMapping(m) /\ m.priority \in Nat
  BY AllAreMappings DEF IsMapping
<1>3. ASSUME NEW m \in all
      PROVE  /\ \A x \in Profiled(w, m) :
                /\ x.priority = m.priority
                /\ MappingMatches(x, at, request) =>
                    MappingMatches(m, at, request) /\ Given(x, at) = Outcome(w, m, at)
             /\ MappingMatches(m, at, request) =>
                \E x \in Profiled(w, m) : MappingMatches(x, at, request)
  <2>1. Alternates(w, m) => at[Intermittent] \in {"Started", "DEGRADED"}
    BY DEF Alternates
  <2> QED
    BY <1>2, <2>1, ProfileMatches
<1>4. \A x \in made : x.priority \in Nat
  BY <1>1, <1>2, <1>3
<1>5. \E x \in made : MappingMatches(x, at, request)
  BY <1>1, <1>3
<1>6. PICK x \in made : /\ Answers(made, at, request, x)
                        /\ Execute(Mappings(w), at, request) = Given(x, at)
  BY <1>1, <1>4, <1>5, ChosenAnswers
<1>7. PICK m \in all : x \in Profiled(w, m)
  BY <1>1, <1>6
<1>8. MappingMatches(x, at, request) /\ \A y \in made : MappingMatches(y, at, request)
                                                        => x.priority <= y.priority
  BY <1>6 DEF Answers
<1>9. /\ MappingMatches(m, at, request) /\ Given(x, at) = Outcome(w, m, at)
      /\ x.priority = m.priority
  BY <1>3, <1>7, <1>8
<1>10. ASSUME NEW n \in all, MappingMatches(n, at, request)
       PROVE  m.priority <= n.priority
  <2>1. PICK y \in Profiled(w, n) : MappingMatches(y, at, request)
    BY <1>3, <1>10
  <2>2. y \in made /\ y.priority = n.priority
    BY <1>1, <1>3, <2>1
  <2> QED
    BY <1>8, <1>9, <2>1, <2>2
<1> HIDE DEF all, made
<1>11. Answers(all, at, request, m)
  BY <1>7, <1>9, <1>10 DEF Answers
<1> QED
  BY <1>6, <1>7, <1>9, <1>11 DEF all

-----------------------------------------------------------------------------
(* Which mapping answers a case of the plan.                               *)

\* The fields of a mapping without a scenario.
IsPlain(m, priority, op, takes, status) ==
    /\ m.priority = priority /\ m.op = op /\ m.takes = takes /\ m.status = status
    /\ m.scenario = "none" /\ m.required = "any" /\ m.next = Stay

IsMember(m, c) == IsPlain(m, 1, "check", AnyOf({c.path}), 200)
IsUnknown(m) == IsPlain(m, 100, "check", AnyOf(Template["check"]), 404)
IsStored(m, c) == IsPlain(m, 1, c.op, Exactly(c), Success[c.op])
IsEdge(m, e) == IsPlain(m, 2, e.op, Exactly(e), EdgeStatus(e))
IsPair(m, p) == IsPlain(m, 3, p.op, Exactly(p), Success[p.op])
IsBase(m, op) == IsPlain(m, 10, op, AnyOf(Template[op]), Success[op])

\* Where a mapping comes from.
Source(w, m) ==
    \/ w.eligibility /\ \E c \in ToSet(w.dataset) : IsMember(m, c)
    \/ w.eligibility /\ IsUnknown(m)
    \/ ~ w.eligibility /\ \E c \in ToSet(w.dataset) : IsStored(m, c)
    \/ w.eligibility /\ m \in {Begin(w), GetProcessing(w), GetCompleted(w)}
    \/ \E e \in CompiledCases(w) : IsEdge(m, e)
    \/ \E p \in ToSet(w.pairs) : IsPair(m, p)
    \/ \E op \in ToSet(w.operations) \ Overridden(w) : IsBase(m, op)

\* Plain makes a plain mapping.
LEMMA PlainIsPlain ==
    ASSUME NEW priority \in Nat, NEW op, NEW takes, NEW status, NEW says
    PROVE  IsPlain(Plain(priority, op, takes, status, says), priority, op, takes, status)
  BY PlainIsMapping DEF IsPlain

\* The mapping of each of them is what it says.
LEMMA MadeArePlain ==
    /\ \A c : IsMember(MemberMapping(c), c) /\ IsStored(StoredMapping(c), c)
    /\ IsUnknown(UnknownMember)
    /\ \A e : IsEdge(EdgeMapping(e), e)
    /\ \A p : IsPair(PairMapping(p), p)
    /\ \A op : IsBase(BaseMapping(op), op)
<1>1. \A c : IsMember(MemberMapping(c), c)
  BY PlainIsPlain DEF IsMember, MemberMapping
<1>2. \A c : IsStored(StoredMapping(c), c)
  BY PlainIsPlain DEF IsStored, StoredMapping
<1>3. IsUnknown(UnknownMember)
  BY PlainIsPlain DEF IsUnknown, UnknownMember
<1>4. \A e : IsEdge(EdgeMapping(e), e)
  BY PlainIsPlain DEF IsEdge, EdgeMapping, Sampled
<1>5. \A p : IsPair(PairMapping(p), p)
  BY PlainIsPlain DEF IsPair, PairMapping, Sampled
<1>6. \A op : IsBase(BaseMapping(op), op)
  BY PlainIsPlain DEF IsBase, BaseMapping, Sampled
<1> QED
  BY <1>1, <1>2, <1>3, <1>4, <1>5, <1>6

\* Every mapping comes from one of these.
LEMMA MappingHasSource ==
    ASSUME NEW w, NEW m \in AllMappings(w)
    PROVE  Source(w, m)
<1>1. CASE m \in StoredSet(w)
  BY <1>1, MadeArePlain DEF StoredSet, Source
<1>2. CASE m \in JourneySet(w)
  BY <1>2 DEF JourneySet, Source
<1>3. CASE m \in EdgeSet(w)
  BY <1>3, MadeArePlain DEF EdgeSet, Source
<1>4. CASE m \in PairSet(w)
  BY <1>4, MadeArePlain DEF PairSet, Source
<1>5. CASE m \in ContractSet(w)
  BY <1>5, MadeArePlain DEF ContractSet, Source
<1> QED
  BY <1>1, <1>2, <1>3, <1>4, <1>5 DEF AllMappings

\* The fields of the journey's mappings.
LEMMA JourneyFields ==
    \A w :
        LET a == Begin(w)
            b == GetProcessing(w)
            c == GetCompleted(w)
        IN
        /\ a.priority = 1 /\ a.op = "begin" /\ a.status = 202
        /\ a.scenario = Journey /\ a.required = "any" /\ a.next = "PROCESSING"
        /\ b.priority = 1 /\ b.op = "get" /\ b.status = 200
        /\ b.scenario = Journey /\ b.required = "PROCESSING" /\ b.next = "COMPLETED"
        /\ c.priority = 1 /\ c.op = "get" /\ c.status = 200
        /\ c.scenario = Journey /\ c.required = "COMPLETED" /\ c.next = Stay
  BY StatefulIsMapping DEF Begin, GetProcessing, GetCompleted

\* What the patterns take.
LEMMA PatternsTake ==
    /\ \A paths, request : request.path \in paths => Takes(AnyOf(paths), request)
    /\ \A c : (\A p \in c.params : p[1] \notin c.absent) => Takes(Exactly(c), Sent(c))
    /\ \A paths, request : Takes(AnyOf(paths), request) => request.path \in paths
    /\ \A c, request : Takes(Exactly(c), request) => request.path = c.path
<1>1. ASSUME NEW paths, NEW request, request.path \in paths
      PROVE  Takes(AnyOf(paths), request)
  <2> DEFINE pattern == AnyOf(paths)
  <2>1. /\ pattern.paths = paths /\ pattern.body = "none"
        /\ pattern.params = {} /\ pattern.absent = {}
    BY DEF AnyOf
  <2> HIDE DEF pattern
  <2>2. Takes(pattern, request)
    BY <1>1, <2>1, Zenon DEF Takes
  <2> QED
    BY <2>2 DEF pattern
<1>2. ASSUME NEW c, \A p \in c.params : p[1] \notin c.absent
      PROVE  Takes(Exactly(c), Sent(c))
  <2> DEFINE pattern == Exactly(c)
             request == Sent(c)
  <2>1. /\ pattern.paths = {c.path} /\ pattern.body = c.body
        /\ pattern.params = c.params /\ pattern.absent = c.absent
        /\ request.path = c.path /\ request.body = c.body /\ request.params = c.params
    BY DEF Exactly, Sent
  <2> HIDE DEF pattern, request
  <2>2. request.path \in pattern.paths /\ pattern.body \in {"none", request.body}
    BY <2>1
  <2>3. Takes(pattern, request)
    BY <1>2, <2>1, <2>2, Zenon DEF Takes
  <2> QED
    BY <2>3 DEF pattern, request
<1>3. ASSUME NEW paths, NEW request, Takes(AnyOf(paths), request)
      PROVE  request.path \in paths
  <2>1. request.path \in AnyOf(paths).paths
    BY <1>3, Zenon DEF Takes
  <2> QED
    BY <2>1 DEF AnyOf
<1>4. ASSUME NEW c, NEW request, Takes(Exactly(c), request)
      PROVE  request.path = c.path
  <2>1. request.path \in Exactly(c).paths
    BY <1>4, Zenon DEF Takes
  <2> QED
    BY <2>1 DEF Exactly
<1> QED
  BY <1>1, <1>2, <1>3, <1>4

\* What the journey's mappings take.
LEMMA JourneyTakes ==
    ASSUME NEW w, NEW request
    PROVE  /\ Takes(Begin(w).takes, request) <=> request.path = w.journey.begin
           /\ Takes(GetProcessing(w).takes, request) <=> request.path = w.journey.get
           /\ Takes(GetCompleted(w).takes, request) <=> request.path = w.journey.get
<1>1. ASSUME NEW path
      PROVE  Takes(AnyOf({path}), request) <=> request.path = path
  <2> DEFINE paths == {path}
  <2>1. request.path \in paths <=> request.path = path
    OBVIOUS
  <2> HIDE DEF paths
  <2>2. Takes(AnyOf(paths), request) <=> request.path \in paths
    BY PatternsTake
  <2> QED
    BY <2>1, <2>2 DEF paths
<1>2. Begin(w).takes = AnyOf({w.journey.begin})
  BY StatefulIsMapping DEF Begin
<1>3. GetProcessing(w).takes = AnyOf({w.journey.get})
  BY StatefulIsMapping DEF GetProcessing
<1>4. GetCompleted(w).takes = AnyOf({w.journey.get})
  BY StatefulIsMapping DEF GetCompleted
<1> QED
  <2>1. Takes(AnyOf({w.journey.begin}), request) <=> request.path = w.journey.begin
    BY <1>1
  <2>2. Takes(AnyOf({w.journey.get}), request) <=> request.path = w.journey.get
    BY <1>1
  <2> QED
    BY <1>2, <1>3, <1>4, <2>1, <2>2, Zenon

\* A compiled edge case is one of the candidates, of one of the polarities.
LEMMA CompiledAreEdges ==
    ASSUME NEW w \in Workspaces, NEW e \in CompiledCases(w)
    PROVE  e \in ToSet(w.edges) /\ e.polarity \in {"boundary", "negative"}
<1> DEFINE cases == EdgeCases(w, {"boundary", "negative"}, CompiledEdges)
<1>1. /\ Listed(cases)
      /\ \A k \in DOMAIN cases : /\ cases[k] \in ToSet(w.edges)
                                 /\ cases[k].polarity \in {"boundary", "negative"}
  <2>1. CompiledEdges \in Nat
    BY WorkspaceAssumption
  <2> QED
    BY <2>1, EdgesAreListed
<1>2. e \in ToSet(cases)
  BY DEF CompiledCases
<1> HIDE DEF cases
<1> QED
  BY <1>1, <1>2, ListHasPlaces

\* What GeneratedCasesPass asks of a workspace.
Promising(w) ==
    /\ Unconfigured(w) /\ PathsAreApart(w) /\ SamplesConform(w)
    /\ NegativesStandOut(w) /\ JourneyIsDocumented(w)

\* The paths that a mapping takes are in the template of its operation.
LEMMA MappingsStayInTemplates ==
    ASSUME NEW w, Promising(w), NEW m \in AllMappings(w), NEW request, Takes(m.takes, request)
    PROVE  m.op \in ToSet(w.operations) /\ request.path \in Template[m.op]
<1>1. w \in Workspaces
  BY DEF Promising, Unconfigured
<1>2. Source(w, m)
  BY MappingHasSource
<1>3. /\ w.eligibility =>
            /\ {"check", "begin", "get"} \subseteq ToSet(w.operations)
            /\ \A c \in ToSet(w.dataset) : c.path \in Template["check"]
            /\ w.journey.begin \in Template["begin"] /\ w.journey.get \in Template["get"]
      /\ ~ w.eligibility => \A c \in ToSet(w.dataset) :
            c.op \in ToSet(w.operations) /\ c.path \in Template[c.op]
      /\ \A c \in ToSet(w.edges) \cup ToSet(w.pairs) :
            c.op \in ToSet(w.operations) /\ c.path \in Template[c.op]
  BY <1>1, CaseAssumption DEF Generated
<1>4. CASE w.eligibility /\ \E c \in ToSet(w.dataset) : IsMember(m, c)
  BY <1>3, <1>4, PatternsTake DEF IsMember, IsPlain
<1>5. CASE w.eligibility /\ IsUnknown(m)
  BY <1>3, <1>5, PatternsTake DEF IsUnknown, IsPlain
<1>6. CASE ~ w.eligibility /\ \E c \in ToSet(w.dataset) : IsStored(m, c)
  BY <1>3, <1>6, PatternsTake DEF IsStored, IsPlain
<1>7. CASE w.eligibility /\ m \in {Begin(w), GetProcessing(w), GetCompleted(w)}
  <2>1. m.op \in {"begin", "get"}
    BY <1>7, JourneyFields
  <2>2. /\ m = Begin(w) => request.path = w.journey.begin
        /\ m \in {GetProcessing(w), GetCompleted(w)} => request.path = w.journey.get
    BY JourneyTakes
  <2>4. /\ m.op = "begin" => m.op \in ToSet(w.operations) /\ request.path \in Template[m.op]
        /\ m.op = "get" => m.op \in ToSet(w.operations) /\ request.path \in Template[m.op]
    <3>1. CASE m = Begin(w)
      BY <1>3, <1>7, <2>2, <3>1, JourneyFields
    <3>2. CASE m \in {GetProcessing(w), GetCompleted(w)}
      BY <1>3, <1>7, <2>2, <3>2, JourneyFields
    <3> QED
      BY <1>7, <3>1, <3>2
  <2> QED
    BY <2>1, <2>4
<1>8. CASE \E e \in CompiledCases(w) : IsEdge(m, e)
  BY <1>1, <1>3, <1>8, CompiledAreEdges, PatternsTake DEF IsEdge, IsPlain
<1>9. CASE \E p \in ToSet(w.pairs) : IsPair(m, p)
  BY <1>3, <1>9, PatternsTake DEF IsPair, IsPlain
<1>10. CASE \E op \in ToSet(w.operations) \ Overridden(w) : IsBase(m, op)
  BY <1>10, PatternsTake DEF IsBase, IsPlain
<1> QED
  BY <1>2, <1>4, <1>5, <1>6, <1>7, <1>8, <1>9, <1>10 DEF Source

\* What matches a request to an operation is of that operation, and what it says, unless
\* it answers for unknown members, conforms.
LEMMA MatchingIsOfOperation ==
    ASSUME NEW w, Promising(w), NEW op \in ToSet(w.operations),
           NEW request, request.path \in Template[op],
           NEW at, NEW m \in AllMappings(w), MappingMatches(m, at, request)
    PROVE  /\ m.op = op /\ Takes(m.takes, request)
           /\ m.priority < 100 => <<m.says, <<op, m.status>>>> \in Conforming
<1>1. Takes(m.takes, request)
  BY DEF MappingMatches
<1>2. m.op \in ToSet(w.operations) /\ request.path \in Template[m.op]
  BY <1>1, MappingsStayInTemplates
<1>3. m.op = op
  BY <1>2 DEF Promising, PathsAreApart
<1>4. m \in ToSet(BaseMappings(w))
  BY BaseMembers DEF Promising
<1> QED
  BY <1>1, <1>3, <1>4 DEF Promising, SamplesConform

\* No compiled negative case takes the request.
NotNegative(w, request) ==
    \A e \in CompiledCases(w) : e.polarity = "negative" => ~ Takes(Exactly(e), request)

\* What answers a request that is no negative case answers the documented success, unless it
\* is the answer for unknown members.
LEMMA SuccessIsAnswered ==
    ASSUME NEW w, Promising(w), NEW op \in ToSet(w.operations),
           NEW request, request.path \in Template[op], NotNegative(w, request),
           NEW at, NEW m \in AllMappings(w), MappingMatches(m, at, request), m.priority <= 10
    PROVE  m.status = Success[op] /\ <<m.says, <<op, m.status>>>> \in Conforming
<1>0. m.priority < 100
  BY AllAreMappings DEF IsMapping
<1>1. /\ m.op = op /\ Takes(m.takes, request)
      /\ <<m.says, <<op, m.status>>>> \in Conforming
  BY <1>0, MatchingIsOfOperation
<1>2. Source(w, m)
  BY MappingHasSource
<1>3. w \in Workspaces
  BY DEF Promising, Unconfigured
<1>4. w.eligibility => Success["check"] = 200 /\ Success["begin"] = 202 /\ Success["get"] = 200
  BY DEF Promising, JourneyIsDocumented
<1>5. CASE w.eligibility /\ \E c \in ToSet(w.dataset) : IsMember(m, c)
  BY <1>1, <1>4, <1>5 DEF IsMember, IsPlain
<1>6. CASE w.eligibility /\ IsUnknown(m)
  BY <1>6 DEF IsUnknown, IsPlain
<1>7. CASE \E c \in ToSet(w.dataset) : IsStored(m, c)
  BY <1>1, <1>7 DEF IsStored, IsPlain
<1>8. CASE w.eligibility /\ m \in {Begin(w), GetProcessing(w), GetCompleted(w)}
  BY <1>1, <1>4, <1>8, JourneyFields
<1>9. CASE \E e \in CompiledCases(w) : IsEdge(m, e)
  <2>1. PICK e \in CompiledCases(w) : IsEdge(m, e)
    BY <1>9
  <2>2. m.op = e.op /\ m.takes = Exactly(e) /\ m.status = EdgeStatus(e)
    BY <2>1 DEF IsEdge, IsPlain
  <2>3. e.polarity # "negative"
    BY <1>1, <2>2 DEF NotNegative
  <2>4. e.polarity = "boundary"
    BY <1>3, <2>3, CompiledAreEdges
  <2> QED
    BY <1>1, <2>2, <2>4 DEF EdgeStatus
<1>10. CASE \E p \in ToSet(w.pairs) : IsPair(m, p)
  BY <1>1, <1>10 DEF IsPair, IsPlain
<1>11. CASE \E o \in ToSet(w.operations) \ Overridden(w) : IsBase(m, o)
  BY <1>1, <1>11 DEF IsBase, IsPlain
<1> QED
  BY <1>1, <1>2, <1>5, <1>6, <1>7, <1>8, <1>9, <1>10, <1>11 DEF Source

\* The mappings for whose requests a negative case is not taken.
LEMMA UrgentStandOut ==
    ASSUME NEW w, Promising(w), NEW e \in ToSet(w.edges), e.polarity = "negative",
           NEW m \in AllMappings(w), m.priority = 1
    PROVE  ~ Takes(m.takes, Sent(e))
<1>1. Unconfigured(w) /\ NegativesStandOut(w)
  BY DEF Promising
<1>2. Listed(DatasetMappings(w)) /\ ToSet(DatasetMappings(w)) = StoredSet(w)
  BY <1>1, StoredMembers
<1>3. Listed(JourneyMappings(w)) /\ ToSet(JourneyMappings(w)) = JourneySet(w)
  BY JourneyMembers
<1>4. ToSet(DatasetMappings(w) \o JourneyMappings(w)) = StoredSet(w) \cup JourneySet(w)
  BY <1>2, <1>3, AppendedMembers
<1>5. m \in StoredSet(w) \cup JourneySet(w)
  <2>1. m \notin EdgeSet(w)
    BY MadeArePlain DEF EdgeSet, IsEdge, IsPlain
  <2>2. m \notin PairSet(w)
    BY MadeArePlain DEF PairSet, IsPair, IsPlain
  <2>3. m \notin ContractSet(w)
    BY MadeArePlain DEF ContractSet, IsBase, IsPlain
  <2> QED
    BY <2>1, <2>2, <2>3 DEF AllMappings
<1> QED
  BY <1>1, <1>4, <1>5 DEF NegativesStandOut

\* The mappings of priority 2 are those of edge cases.
LEMMA OnlyEdges ==
    ASSUME NEW w, NEW m, Source(w, m), m.priority \in Nat, m.priority <= 2, m.priority # 1,
           m \notin {Begin(w), GetProcessing(w), GetCompleted(w)}
    PROVE  \E e \in CompiledCases(w) : IsEdge(m, e)
<1>1. \A c : ~ IsMember(m, c) /\ ~ IsStored(m, c)
  BY DEF IsMember, IsStored, IsPlain
<1>2. ~ IsUnknown(m)
  BY DEF IsUnknown, IsPlain
<1>3. \A p : ~ IsPair(m, p)
  BY DEF IsPair, IsPlain
<1>4. \A op : ~ IsBase(m, op)
  BY DEF IsBase, IsPlain
<1> QED
  BY <1>1, <1>2, <1>3, <1>4 DEF Source

\* An answer is as a case expects it.
Fits(schema, says) == schema = NoSchema \/ <<says, schema>> \in Conforming

\* A request is always answered, as expected.
Always(w, request, status, schema) ==
    \A at :
        /\ \E m \in AllMappings(w) : MappingMatches(m, at, request)
        /\ \A m \in AllMappings(w) : Answers(AllMappings(w), at, request, m) =>
                m.status = status /\ Fits(schema, m.says)

\* And by a mapping without a scenario.
Plainly(w, request, status, schema) ==
    /\ Always(w, request, status, schema)
    /\ \A at : \A m \in AllMappings(w) :
        Answers(AllMappings(w), at, request, m) => m.scenario = "none" /\ m.next = Stay

\* A plain mapping of a request matches in any state, and what answers is as urgent.
LEMMA PlainMatches ==
    ASSUME NEW w, NEW x \in AllMappings(w), NEW priority, NEW op, NEW takes, NEW status,
           IsPlain(x, priority, op, takes, status),
           NEW at, NEW request, Takes(takes, request)
    PROVE  /\ MappingMatches(x, at, request)
           /\ \A m \in AllMappings(w) : Answers(AllMappings(w), at, request, m) =>
                /\ m.priority <= priority /\ m.priority \in Nat
                /\ MappingMatches(m, at, request) /\ Source(w, m)
<1>1. MappingMatches(x, at, request) /\ x.priority = priority
  BY DEF IsPlain, MappingMatches
<1>2. ASSUME NEW m \in AllMappings(w), Answers(AllMappings(w), at, request, m)
      PROVE  /\ m.priority <= priority /\ m.priority \in Nat
             /\ MappingMatches(m, at, request) /\ Source(w, m)
  <2>1. m.priority \in Nat
    BY AllAreMappings DEF IsMapping
  <2>2. Source(w, m)
    BY MappingHasSource
  <2> QED
    BY <1>1, <1>2, <2>1, <2>2 DEF Answers
<1> QED
  BY <1>1, <1>2

\* The mapping of a member of a set is there.
LEMMA SourcesAreThere ==
    ASSUME NEW w
    PROVE  /\ w.eligibility => \A c \in ToSet(w.dataset) :
                \E x \in AllMappings(w) : IsMember(x, c)
           /\ w.eligibility => \E x \in AllMappings(w) : IsUnknown(x)
           /\ ~ w.eligibility => \A c \in ToSet(w.dataset) :
                \E x \in AllMappings(w) : IsStored(x, c)
           /\ \A e \in CompiledCases(w) : \E x \in AllMappings(w) : IsEdge(x, e)
           /\ \A p \in ToSet(w.pairs) : \E x \in AllMappings(w) : IsPair(x, p)
           /\ \A op \in ToSet(w.operations) \ Overridden(w) :
                \E x \in AllMappings(w) : IsBase(x, op)
<1>1. ASSUME w.eligibility, NEW c \in ToSet(w.dataset)
      PROVE  \E x \in AllMappings(w) : IsMember(x, c)
  <2>1. MemberMapping(c) \in AllMappings(w)
    BY <1>1 DEF AllMappings, StoredSet
  <2> QED
    BY <2>1, MadeArePlain
<1>2. ASSUME w.eligibility
      PROVE  \E x \in AllMappings(w) : IsUnknown(x)
  <2>1. UnknownMember \in AllMappings(w)
    BY <1>2 DEF AllMappings, StoredSet
  <2> QED
    BY <2>1, MadeArePlain
<1>3. ASSUME ~ w.eligibility, NEW c \in ToSet(w.dataset)
      PROVE  \E x \in AllMappings(w) : IsStored(x, c)
  <2>1. StoredMapping(c) \in AllMappings(w)
    BY <1>3 DEF AllMappings, StoredSet
  <2> QED
    BY <2>1, MadeArePlain
<1>4. ASSUME NEW e \in CompiledCases(w)
      PROVE  \E x \in AllMappings(w) : IsEdge(x, e)
  <2>1. EdgeMapping(e) \in AllMappings(w)
    BY DEF AllMappings, EdgeSet
  <2> QED
    BY <2>1, MadeArePlain
<1>5. ASSUME NEW p \in ToSet(w.pairs)
      PROVE  \E x \in AllMappings(w) : IsPair(x, p)
  <2>1. PairMapping(p) \in AllMappings(w)
    BY DEF AllMappings, PairSet
  <2> QED
    BY <2>1, MadeArePlain
<1>6. ASSUME NEW op \in ToSet(w.operations) \ Overridden(w)
      PROVE  \E x \in AllMappings(w) : IsBase(x, op)
  <2>1. BaseMapping(op) \in AllMappings(w)
    BY DEF AllMappings, ContractSet
  <2> QED
    BY <2>1, MadeArePlain
<1> QED
  BY <1>1, <1>2, <1>3, <1>4, <1>5, <1>6

\* A stored member is checked, and one that is not stored is unknown.
LEMMA MembersAreChecked ==
    ASSUME NEW w, Promising(w), w.eligibility
    PROVE  /\ \A c \in ToSet(w.dataset) :
                Plainly(w, Lookup(c.lookup), 200, <<"check", 200>>)
           /\ Plainly(w, Lookup(UnknownPath), 404, NoSchema)
<1>0. /\ w \in Workspaces /\ w.dataset # <<>> /\ "check" \in ToSet(w.operations)
      /\ UnknownPath \in Template["check"]
      /\ \A c \in ToSet(w.dataset) : c.lookup = c.path /\ c.path \in Template["check"]
  <2>1. w \in Workspaces /\ w.dataset # <<>>
    BY DEF Promising, Unconfigured
  <2>2. /\ UnknownPath \in Template["check"]
        /\ \A c \in ToSet(w.dataset) : c.lookup = c.path
    BY DEF Promising, JourneyIsDocumented
  <2>3. /\ "check" \in ToSet(w.operations)
        /\ \A c \in ToSet(w.dataset) : c.path \in Template["check"]
    BY <2>1, CaseAssumption
  <2> QED
    BY <2>1, <2>2, <2>3
<1>1. ASSUME NEW c \in ToSet(w.dataset), NEW at
      PROVE  LET request == Lookup(c.lookup) IN
             /\ \E m \in AllMappings(w) : MappingMatches(m, at, request)
             /\ \A m \in AllMappings(w) : Answers(AllMappings(w), at, request, m) =>
                    /\ m.status = 200 /\ Fits(<<"check", 200>>, m.says)
                    /\ m.scenario = "none" /\ m.next = Stay
  <2> DEFINE request == Lookup(c.lookup)
  <2>1. request.path = c.path /\ request.path \in Template["check"]
    BY <1>0 DEF Lookup
  <2> HIDE DEF request
  <2>2. PICK x \in AllMappings(w) : IsMember(x, c)
    BY SourcesAreThere
  <2>3. /\ MappingMatches(x, at, request)
        /\ \A m \in AllMappings(w) : Answers(AllMappings(w), at, request, m) =>
            m.priority <= 1 /\ m.priority \in Nat /\ MappingMatches(m, at, request) /\ Source(w, m)
    <3>1. Takes(AnyOf({c.path}), request)
      BY <2>1, PatternsTake
    <3> QED
      BY <2>2, <3>1, PlainMatches DEF IsMember
  <2>4. ASSUME NEW m \in AllMappings(w), Answers(AllMappings(w), at, request, m)
        PROVE  /\ m.status = 200 /\ Fits(<<"check", 200>>, m.says)
               /\ m.scenario = "none" /\ m.next = Stay
    <3>1. /\ m.priority <= 1 /\ m.priority \in Nat /\ Source(w, m)
          /\ MappingMatches(m, at, request)
      BY <2>3, <2>4
    <3>2. m.op = "check" /\ <<m.says, <<"check", m.status>>>> \in Conforming
      BY <1>0, <2>1, <3>1, MatchingIsOfOperation
    <3>3. m \notin {Begin(w), GetProcessing(w), GetCompleted(w)}
      BY <3>2, JourneyFields
    <3>4. m.status = 200 /\ m.scenario = "none" /\ m.next = Stay
      <4>1. ~ IsUnknown(m)
        BY <3>1 DEF IsUnknown, IsPlain
      <4>2. \A e : ~ IsEdge(m, e)
        BY <3>1 DEF IsEdge, IsPlain
      <4>3. \A p : ~ IsPair(m, p)
        BY <3>1 DEF IsPair, IsPlain
      <4>4. \A op : ~ IsBase(m, op)
        BY <3>1 DEF IsBase, IsPlain
      <4>5. PICK d \in ToSet(w.dataset) : IsMember(m, d)
        BY <3>1, <3>3, <4>1, <4>2, <4>3, <4>4 DEF Source
      <4> QED
        BY <4>5 DEF IsMember, IsPlain
    <3> QED
      BY <3>2, <3>4 DEF Fits
  <2> QED
    BY <2>3, <2>4 DEF request
<1>2. ASSUME NEW at
      PROVE  LET request == Lookup(UnknownPath) IN
             /\ \E m \in AllMappings(w) : MappingMatches(m, at, request)
             /\ \A m \in AllMappings(w) : Answers(AllMappings(w), at, request, m) =>
                    /\ m.status = 404 /\ Fits(NoSchema, m.says)
                    /\ m.scenario = "none" /\ m.next = Stay
  <2> DEFINE request == Lookup(UnknownPath)
  <2>1. request.path = UnknownPath
    BY DEF Lookup
  <2> HIDE DEF request
  <2>2. PICK x \in AllMappings(w) : IsUnknown(x)
    BY SourcesAreThere
  <2>3. /\ MappingMatches(x, at, request)
        /\ \A m \in AllMappings(w) : Answers(AllMappings(w), at, request, m) =>
            /\ m.priority <= 100 /\ m.priority \in Nat
            /\ MappingMatches(m, at, request) /\ Source(w, m)
    <3>1. Takes(AnyOf(Template["check"]), request)
      BY <1>0, <2>1, PatternsTake
    <3> QED
      BY <2>2, <3>1, PlainMatches DEF IsUnknown
  <2>4. ASSUME NEW m \in AllMappings(w), Answers(AllMappings(w), at, request, m)
        PROVE  m.status = 404 /\ m.scenario = "none" /\ m.next = Stay
    <3>1. Source(w, m) /\ MappingMatches(m, at, request)
      BY <2>3, <2>4
    <3>2. m.op = "check" /\ Takes(m.takes, request)
      BY <1>0, <2>1, <3>1, MatchingIsOfOperation
    <3>3. m \notin {Begin(w), GetProcessing(w), GetCompleted(w)}
      BY <3>2, JourneyFields
    <3>4. /\ \A c \in ToSet(w.dataset) : c.path # UnknownPath
          /\ \A c \in ToSet(w.edges) \cup ToSet(w.pairs) : c.path # UnknownPath
      BY <1>0, CaseAssumption DEF Generated
    <3>5. ~ \E c \in ToSet(w.dataset) : IsMember(m, c)
      <4>1. ASSUME NEW c \in ToSet(w.dataset), IsMember(m, c)
            PROVE  FALSE
        <5>1. m.takes = AnyOf({c.path})
          BY <4>1 DEF IsMember, IsPlain
        <5> DEFINE paths == {c.path}
        <5> HIDE DEF paths
        <5>2. request.path \in paths
          BY <3>2, <5>1, PatternsTake DEF paths
        <5> QED
          BY <2>1, <3>4, <5>2 DEF paths
      <4> QED
        BY <4>1
    <3>6. ~ \E e \in CompiledCases(w) : IsEdge(m, e)
      BY <1>0, <2>1, <3>2, <3>4, CompiledAreEdges, PatternsTake DEF IsEdge, IsPlain
    <3>7. ~ \E p \in ToSet(w.pairs) : IsPair(m, p)
      BY <2>1, <3>2, <3>4, PatternsTake DEF IsPair, IsPlain
    <3>8. ~ \E op \in ToSet(w.operations) \ Overridden(w) : IsBase(m, op)
      <4>1. "check" \in Overridden(w)
        BY <1>0 DEF Overridden
      <4> QED
        BY <3>2, <4>1 DEF IsBase, IsPlain
    <3>9. IsUnknown(m)
      BY <3>1, <3>3, <3>5, <3>6, <3>7, <3>8 DEF Source
    <3> QED
      BY <3>9 DEF IsUnknown, IsPlain
  <2> QED
    BY <2>3, <2>4 DEF request, Fits
<1>3. ASSUME NEW c \in ToSet(w.dataset)
      PROVE  Plainly(w, Lookup(c.lookup), 200, <<"check", 200>>)
  BY <1>1 DEF Plainly, Always
<1>4. Plainly(w, Lookup(UnknownPath), 404, NoSchema)
  BY <1>2 DEF Plainly, Always
<1> QED
  BY <1>3, <1>4

\* A stored case and the baseline of an operation are answered the documented success.
LEMMA StoredAreAnswered ==
    ASSUME NEW w, Promising(w), ~ w.eligibility
    PROVE  /\ \A c \in ToSet(w.dataset) :
                Plainly(w, Sent(c), Success[c.op], <<c.op, Success[c.op]>>)
           /\ \A op \in ToSet(w.operations) :
                Plainly(w, Baseline[op], Success[op], <<op, Success[op]>>)
<1>0. /\ w \in Workspaces
      /\ \A c \in ToSet(w.dataset) :
            /\ c.op \in ToSet(w.operations) /\ c.path \in Template[c.op]
            /\ Takes(Exactly(c), Sent(c))
      /\ \A op \in ToSet(w.operations) : Baseline[op].path \in Template[op]
  <2>1. w \in Workspaces
    BY DEF Promising, Unconfigured
  <2>2. ASSUME NEW c \in ToSet(w.dataset)
        PROVE  /\ c.op \in ToSet(w.operations) /\ c.path \in Template[c.op]
               /\ \A p \in c.params : p[1] \notin c.absent
    BY <2>1, CaseAssumption, Zenon
  <2>3. \A op \in ToSet(w.operations) : Baseline[op].path \in Template[op]
    BY <2>1, CaseAssumption
  <2>4. ASSUME NEW c \in ToSet(w.dataset) PROVE Takes(Exactly(c), Sent(c))
    BY <2>2, PatternsTake, Zenon
  <2> QED
    BY <2>1, <2>2, <2>3, <2>4
<1>1. ASSUME NEW c \in ToSet(w.dataset), NEW at
      PROVE  LET request == Sent(c) IN
             /\ \E m \in AllMappings(w) : MappingMatches(m, at, request)
             /\ \A m \in AllMappings(w) : Answers(AllMappings(w), at, request, m) =>
                    /\ m.status = Success[c.op] /\ Fits(<<c.op, Success[c.op]>>, m.says)
                    /\ m.scenario = "none" /\ m.next = Stay
  <2> DEFINE request == Sent(c)
             op == c.op
  <2>1. request.path = c.path /\ op \in ToSet(w.operations) /\ c.path \in Template[op]
    BY <1>0 DEF Sent
  <2> HIDE DEF request, op
  <2>2. PICK x \in AllMappings(w) : IsStored(x, c)
    BY SourcesAreThere
  <2>3. /\ MappingMatches(x, at, request)
        /\ \A m \in AllMappings(w) : Answers(AllMappings(w), at, request, m) =>
            m.priority <= 1 /\ m.priority \in Nat /\ MappingMatches(m, at, request) /\ Source(w, m)
    <3>1. Takes(Exactly(c), request)
      BY <1>0 DEF request
    <3> QED
      BY <2>2, <3>1, PlainMatches DEF IsStored
  <2>4. ASSUME NEW m \in AllMappings(w), Answers(AllMappings(w), at, request, m)
        PROVE  /\ m.status = Success[op] /\ Fits(<<op, Success[op]>>, m.says)
               /\ m.scenario = "none" /\ m.next = Stay
    <3>1. /\ m.priority <= 1 /\ m.priority \in Nat /\ Source(w, m)
          /\ MappingMatches(m, at, request)
      BY <2>3, <2>4
    <3>2. m.op = op /\ <<m.says, <<op, m.status>>>> \in Conforming
      BY <2>1, <3>1, MatchingIsOfOperation
    <3>3. m.status = Success[op] /\ m.scenario = "none" /\ m.next = Stay
      BY <3>1, <3>2 DEF Source, IsMember, IsUnknown, IsStored, IsEdge, IsPair, IsBase, IsPlain
    <3> QED
      BY <3>2, <3>3 DEF Fits
  <2> QED
    BY <2>3, <2>4 DEF request, op
<1>2. ASSUME NEW op \in ToSet(w.operations), NEW at
      PROVE  LET request == Baseline[op] IN
             /\ \E m \in AllMappings(w) : MappingMatches(m, at, request)
             /\ \A m \in AllMappings(w) : Answers(AllMappings(w), at, request, m) =>
                    /\ m.status = Success[op] /\ Fits(<<op, Success[op]>>, m.says)
                    /\ m.scenario = "none" /\ m.next = Stay
  <2> DEFINE request == Baseline[op]
  <2>1. request.path \in Template[op]
    BY <1>0
  <2>2. op \notin Overridden(w)
    BY DEF Overridden
  <2>3. PICK x \in AllMappings(w) : IsBase(x, op)
    BY <2>2, SourcesAreThere
  <2>4. NotNegative(w, request)
    <3>1. NegativesStandOut(w)
      BY DEF Promising
    <3> QED
      BY <1>0, <3>1, CompiledAreEdges DEF NegativesStandOut, NotNegative
  <2> HIDE DEF request
  <2>5. /\ MappingMatches(x, at, request)
        /\ \A m \in AllMappings(w) : Answers(AllMappings(w), at, request, m) =>
            /\ m.priority <= 10 /\ m.priority \in Nat
            /\ MappingMatches(m, at, request) /\ Source(w, m)
    <3>1. Takes(AnyOf(Template[op]), request)
      BY <2>1, PatternsTake
    <3> QED
      BY <2>3, <3>1, PlainMatches DEF IsBase
  <2>6. ASSUME NEW m \in AllMappings(w), Answers(AllMappings(w), at, request, m)
        PROVE  /\ m.status = Success[op] /\ Fits(<<op, Success[op]>>, m.says)
               /\ m.scenario = "none" /\ m.next = Stay
    <3>1. m.priority <= 10 /\ MappingMatches(m, at, request) /\ Source(w, m)
      BY <2>5, <2>6
    <3>2. m.status = Success[op] /\ <<m.says, <<op, m.status>>>> \in Conforming
      BY <2>1, <2>4, <3>1, SuccessIsAnswered
    <3>3. m.scenario = "none" /\ m.next = Stay
      BY <3>1 DEF Source, IsMember, IsUnknown, IsStored, IsEdge, IsPair, IsBase, IsPlain
    <3> QED
      BY <3>2, <3>3 DEF Fits
  <2> QED
    BY <2>5, <2>6 DEF request
<1>3. ASSUME NEW c \in ToSet(w.dataset)
      PROVE  Plainly(w, Sent(c), Success[c.op], <<c.op, Success[c.op]>>)
  BY <1>1 DEF Plainly, Always
<1>4. ASSUME NEW op \in ToSet(w.operations)
      PROVE  Plainly(w, Baseline[op], Success[op], <<op, Success[op]>>)
  BY <1>2 DEF Plainly, Always
<1> QED
  BY <1>3, <1>4

\* What is generated for an operation is sent to it and taken by its own mapping.
LEMMA GeneratedAreTaken ==
    ASSUME NEW w, Promising(w), NEW c \in ToSet(w.edges) \cup ToSet(w.pairs)
    PROVE  /\ c.op \in ToSet(w.operations) /\ Sent(c).path \in Template[c.op]
           /\ Takes(Exactly(c), Sent(c))
<1>1. w \in Workspaces /\ c \in Generated(w)
  BY DEF Promising, Unconfigured, Generated
<1>2. /\ c.op \in ToSet(w.operations) /\ c.path \in Template[c.op]
      /\ \A p \in c.params : p[1] \notin c.absent
  BY <1>1, CaseAssumption, Zenon
<1>3. Takes(Exactly(c), Sent(c))
  BY <1>2, PatternsTake, Zenon
<1>4. Sent(c).path = c.path
  BY DEF Sent
<1> QED
  BY <1>2, <1>3, <1>4

\* A compiled edge case is answered the status it expects.
LEMMA EdgesAreAnswered ==
    ASSUME NEW w, Promising(w), NEW e \in CompiledCases(w)
    PROVE  Always(w, Sent(e), EdgeStatus(e), <<e.op, EdgeStatus(e)>>)
<1>1. w \in Workspaces /\ NegativesStandOut(w)
  BY DEF Promising, Unconfigured
<1>2. e \in ToSet(w.edges) /\ e.polarity \in {"boundary", "negative"}
  BY <1>1, CompiledAreEdges
<1>3. ASSUME NEW at
      PROVE  LET request == Sent(e) IN
             /\ \E m \in AllMappings(w) : MappingMatches(m, at, request)
             /\ \A m \in AllMappings(w) : Answers(AllMappings(w), at, request, m) =>
                    m.status = EdgeStatus(e) /\ Fits(<<e.op, EdgeStatus(e)>>, m.says)
  <2> DEFINE request == Sent(e)
  <2>1. /\ e.op \in ToSet(w.operations) /\ request.path \in Template[e.op]
        /\ Takes(Exactly(e), request)
    BY <1>2, GeneratedAreTaken
  <2>2. PICK x \in AllMappings(w) : IsEdge(x, e)
    BY SourcesAreThere
  <2> HIDE DEF request
  <2>3. /\ MappingMatches(x, at, request)
        /\ \A m \in AllMappings(w) : Answers(AllMappings(w), at, request, m) =>
            /\ m.priority <= 2 /\ m.priority \in Nat
            /\ MappingMatches(m, at, request) /\ Source(w, m)
    BY <2>1, <2>2, PlainMatches DEF IsEdge
  <2>4. ASSUME NEW m \in AllMappings(w), Answers(AllMappings(w), at, request, m)
        PROVE  m.status = EdgeStatus(e) /\ Fits(<<e.op, EdgeStatus(e)>>, m.says)
    <3>1. /\ m.priority <= 2 /\ m.priority \in Nat /\ MappingMatches(m, at, request)
          /\ Source(w, m)
      BY <2>3, <2>4
    <3>2. /\ m.op = e.op /\ Takes(m.takes, request)
          /\ <<m.says, <<e.op, m.status>>>> \in Conforming
      BY <2>1, <3>1, MatchingIsOfOperation
    <3>3. CASE e.polarity = "boundary"
      <4>1. NotNegative(w, request)
        <5>1. ASSUME NEW f \in CompiledCases(w), f.polarity = "negative"
              PROVE  ~ Takes(Exactly(f), request)
          <6>1. f \in ToSet(w.edges)
            BY <1>1, CompiledAreEdges
          <6> QED
            BY <1>1, <1>2, <3>3, <5>1, <6>1 DEF NegativesStandOut, request
        <5> QED
          BY <5>1 DEF NotNegative
      <4>2. m.status = Success[e.op]
        <5>1. m.priority <= 10
          BY <3>1
        <5> QED
          BY <2>1, <3>1, <4>1, <5>1, SuccessIsAnswered
      <4> QED
        BY <3>2, <3>3, <4>2 DEF EdgeStatus, Fits
    <3>4. CASE e.polarity = "negative"
      <4>1. m.priority # 1
        BY <1>2, <3>2, <3>4, UrgentStandOut DEF request
      <4>2. PICK f \in CompiledCases(w) : IsEdge(m, f)
        <5>1. m \notin {Begin(w), GetProcessing(w), GetCompleted(w)}
          BY <4>1, JourneyFields
        <5> QED
          BY <3>1, <4>1, <5>1, OnlyEdges
      <4>3. m.op = f.op /\ m.takes = Exactly(f) /\ m.status = EdgeStatus(f)
        BY <4>2 DEF IsEdge, IsPlain
      <4>4. f \in ToSet(w.edges) /\ f.polarity \in {"boundary", "negative"}
        BY <1>1, CompiledAreEdges
      <4>5. f.polarity # "boundary"
        <5>1. ASSUME f.polarity = "boundary"
              PROVE  ~ Takes(Exactly(f), request)
          BY <1>1, <1>2, <3>4, <4>4, <5>1 DEF NegativesStandOut, request
        <5> QED
          BY <3>2, <4>3, <5>1
      <4>6. EdgeStatus(f) = EdgeStatus(e)
        BY <3>2, <3>4, <4>3, <4>4, <4>5 DEF EdgeStatus
      <4> QED
        BY <3>2, <4>3, <4>6 DEF Fits
    <3> QED
      BY <1>2, <3>3, <3>4
  <2> QED
    BY <2>3, <2>4 DEF request
<1> QED
  BY <1>3 DEF Always

\* A planned row that is compiled too is answered the documented success.
LEMMA PairsAreAnswered ==
    ASSUME NEW w, Promising(w), NEW p \in ToSet(w.rows), p \in ToSet(w.pairs)
    PROVE  Always(w, Sent(p), Success[p.op], <<p.op, Success[p.op]>>)
<1>1. w \in Workspaces /\ NegativesStandOut(w)
  BY DEF Promising, Unconfigured
<1>2. NotNegative(w, Sent(p))
  <2>1. ASSUME NEW f \in CompiledCases(w), f.polarity = "negative"
        PROVE  ~ Takes(Exactly(f), Sent(p))
    <3>1. f \in ToSet(w.edges)
      BY <1>1, CompiledAreEdges
    <3> QED
      BY <1>1, <2>1, <3>1 DEF NegativesStandOut
  <2> QED
    BY <2>1 DEF NotNegative
<1>3. ASSUME NEW at
      PROVE  LET request == Sent(p) IN
             /\ \E m \in AllMappings(w) : MappingMatches(m, at, request)
             /\ \A m \in AllMappings(w) : Answers(AllMappings(w), at, request, m) =>
                    m.status = Success[p.op] /\ Fits(<<p.op, Success[p.op]>>, m.says)
  <2> DEFINE request == Sent(p)
  <2>1. /\ p.op \in ToSet(w.operations) /\ request.path \in Template[p.op]
        /\ Takes(Exactly(p), request)
    BY GeneratedAreTaken
  <2>2. PICK x \in AllMappings(w) : IsPair(x, p)
    BY SourcesAreThere
  <2> HIDE DEF request
  <2>3. /\ MappingMatches(x, at, request)
        /\ \A m \in AllMappings(w) : Answers(AllMappings(w), at, request, m) =>
            /\ m.priority <= 3 /\ m.priority \in Nat
            /\ MappingMatches(m, at, request) /\ Source(w, m)
    BY <2>1, <2>2, PlainMatches DEF IsPair
  <2>4. ASSUME NEW m \in AllMappings(w), Answers(AllMappings(w), at, request, m)
        PROVE  m.status = Success[p.op] /\ Fits(<<p.op, Success[p.op]>>, m.says)
    <3>1. m.priority <= 10 /\ MappingMatches(m, at, request)
      BY <2>3, <2>4
    <3>2. NotNegative(w, request)
      BY <1>2 DEF request
    <3>3. m.status = Success[p.op] /\ <<m.says, <<p.op, m.status>>>> \in Conforming
      BY <2>1, <3>1, <3>2, SuccessIsAnswered
    <3> QED
      BY <3>3 DEF Fits
  <2> QED
    BY <2>3, <2>4 DEF request
<1> QED
  BY <1>3 DEF Always

\* The mappings of the journey answer its requests, each in its state, and conform.
LEMMA JourneyAnswers ==
    ASSUME NEW w, Promising(w), w.eligibility, NEW at
    PROVE  LET begin == BeginRequest
               get == Lookup(StatusPath)
           IN
           /\ \E m \in AllMappings(w) : MappingMatches(m, at, begin)
           /\ \A m \in AllMappings(w) : Answers(AllMappings(w), at, begin, m) =>
                m = Begin(w) /\ Fits(<<"begin", 202>>, m.says)
           /\ at[Journey] = "PROCESSING" =>
                /\ \E m \in AllMappings(w) : MappingMatches(m, at, get)
                /\ \A m \in AllMappings(w) : Answers(AllMappings(w), at, get, m) =>
                        m = GetProcessing(w) /\ Fits(<<"get", 200>>, m.says)
           /\ at[Journey] = "COMPLETED" =>
                /\ \E m \in AllMappings(w) : MappingMatches(m, at, get)
                /\ \A m \in AllMappings(w) : Answers(AllMappings(w), at, get, m) =>
                        m = GetCompleted(w) /\ Fits(<<"get", 200>>, m.says)
<1> DEFINE begin == BeginRequest
           get == Lookup(StatusPath)
           all == AllMappings(w)
           a == Begin(w)
           b == GetProcessing(w)
           c == GetCompleted(w)
<1>0. /\ {"begin", "get"} \subseteq ToSet(w.operations)
      /\ w.journey.begin = BeginPath /\ w.journey.get = StatusPath
      /\ BeginPath \in Template["begin"] /\ StatusPath \in Template["get"]
  <2>1. w \in Workspaces
    BY DEF Promising, Unconfigured
  <2>2. /\ {"begin", "get"} \subseteq ToSet(w.operations)
        /\ w.journey.begin \in Template["begin"] /\ w.journey.get \in Template["get"]
    BY <2>1, CaseAssumption
  <2>3. w.journey.begin = BeginPath /\ w.journey.get = StatusPath
    BY DEF Promising, JourneyIsDocumented
  <2> QED
    BY <2>2, <2>3
<1>1. begin.path = BeginPath /\ get.path = StatusPath
  BY DEF BeginRequest, Lookup
<1> HIDE DEF begin, get
<1>2. {a, b, c} \subseteq all
  BY DEF AllMappings, JourneySet
<1>3. \A m \in all : Source(w, m) /\ m.priority \in Nat
  BY MappingHasSource, AllAreMappings DEF IsMapping
<1>4. /\ Takes(a.takes, begin) /\ Takes(b.takes, get) /\ Takes(c.takes, get)
  BY <1>0, <1>1, JourneyTakes
<1>5. ASSUME NEW m \in all, MappingMatches(m, at, begin)
      PROVE  m.op = "begin" /\ (m.priority <= 1 => <<m.says, <<"begin", m.status>>>> \in Conforming)
  BY <1>0, <1>1, <1>3, <1>5, MatchingIsOfOperation
<1>6. ASSUME NEW m \in all, MappingMatches(m, at, get)
      PROVE  m.op = "get" /\ (m.priority <= 1 => <<m.says, <<"get", m.status>>>> \in Conforming)
  BY <1>0, <1>1, <1>3, <1>6, MatchingIsOfOperation
<1>7. ASSUME NEW m \in all, m.priority <= 1, m.op \in {"begin", "get"}
      PROVE  m \in {a, b, c}
  <2>1. \A d : ~ IsMember(m, d) /\ ~ IsEdge(m, d) /\ ~ IsPair(m, d) /\ ~ IsBase(m, d)
    BY <1>7 DEF IsMember, IsEdge, IsPair, IsBase, IsPlain
  <2>2. ~ IsUnknown(m)
    BY <1>7 DEF IsUnknown, IsPlain
  <2>3. Source(w, m)
    BY <1>3
  <2> QED
    BY <2>1, <2>2, <2>3 DEF Source
<1>8. /\ a.priority = 1 /\ a.op = "begin" /\ a.required = "any" /\ a.status = 202
      /\ b.priority = 1 /\ b.op = "get" /\ b.required = "PROCESSING" /\ b.status = 200
      /\ c.priority = 1 /\ c.op = "get" /\ c.required = "COMPLETED" /\ c.status = 200
      /\ b.scenario = Journey /\ c.scenario = Journey
  BY JourneyFields
<1> HIDE DEF all, a, b, c
<1>9. MappingMatches(a, at, begin)
  BY <1>4, <1>8 DEF MappingMatches
<1>10. ASSUME NEW m \in all, Answers(all, at, begin, m)
       PROVE  m = a /\ Fits(<<"begin", 202>>, m.says)
  <2>1. MappingMatches(m, at, begin) /\ m.priority <= 1
    BY <1>2, <1>8, <1>9, <1>10 DEF Answers
  <2>2. m.op = "begin" /\ <<m.says, <<"begin", m.status>>>> \in Conforming
    BY <1>5, <2>1
  <2>3. m = a
    BY <1>7, <1>8, <2>1, <2>2
  <2> QED
    BY <1>8, <2>2, <2>3 DEF Fits
<1>11. ASSUME at[Journey] = "PROCESSING" PROVE MappingMatches(b, at, get)
  BY <1>4, <1>8, <1>11 DEF MappingMatches
<1>12. ASSUME at[Journey] = "PROCESSING", NEW m \in all, Answers(all, at, get, m)
       PROVE  m = b /\ Fits(<<"get", 200>>, m.says)
  <2>1. MappingMatches(m, at, get) /\ m.priority <= 1
    BY <1>2, <1>8, <1>11, <1>12 DEF Answers
  <2>2. m.op = "get" /\ <<m.says, <<"get", m.status>>>> \in Conforming
    BY <1>6, <2>1
  <2>3. m.required = "any" \/ m.required = at[m.scenario]
    BY <2>1 DEF MappingMatches
  <2>4. m = b
    BY <1>7, <1>8, <1>12, <2>1, <2>2, <2>3
  <2> QED
    BY <1>8, <2>2, <2>4 DEF Fits
<1>13. ASSUME at[Journey] = "COMPLETED" PROVE MappingMatches(c, at, get)
  BY <1>4, <1>8, <1>13 DEF MappingMatches
<1>14. ASSUME at[Journey] = "COMPLETED", NEW m \in all, Answers(all, at, get, m)
       PROVE  m = c /\ Fits(<<"get", 200>>, m.says)
  <2>1. MappingMatches(m, at, get) /\ m.priority <= 1
    BY <1>2, <1>8, <1>13, <1>14 DEF Answers
  <2>2. m.op = "get" /\ <<m.says, <<"get", m.status>>>> \in Conforming
    BY <1>6, <2>1
  <2>3. m.required = "any" \/ m.required = at[m.scenario]
    BY <2>1 DEF MappingMatches
  <2>4. m = c
    BY <1>7, <1>8, <1>14, <2>1, <2>2, <2>3
  <2> QED
    BY <1>8, <2>2, <2>4 DEF Fits
<1> QED
  BY <1>2, <1>9, <1>10, <1>11, <1>12, <1>13, <1>14 DEF begin, get, all, a, b, c

-----------------------------------------------------------------------------
(* The plan of a workspace without configured scenarios.                   *)

\* Twice some number.
Even(n) == \E h \in Nat : n = 2 * h

\* What a case expects of a request that succeeds with the status.
Expected(w, k, op, request, status, schema) ==
    IF w.profile = "unavailable" \/ (w.profile = "intermittent" /\ Even(k))
    THEN Failing(op, request) ELSE Case(op, request, status, schema)

\* Plain cases, in pairs when success and failure alternate.
Lead(w, s) ==
    /\ Listed(s)
    /\ w.profile = "intermittent" => Even(Len(s))
    /\ \A k \in DOMAIN s : \E op, request, status, schema :
        /\ Plainly(w, request, status, schema)
        /\ s[k] = Expected(w, k, op, request, status, schema)

\* Numbers that differ by an even one.
LEMMA EvenSum ==
    ASSUME NEW a \in Nat, NEW b \in Nat, Even(a)
    PROVE  Even(a + b) <=> Even(b)
<1>1. PICK h \in Nat : a = 2 * h
  BY DEF Even
<1>2. ASSUME Even(b) PROVE Even(a + b)
  <2>1. PICK j \in Nat : b = 2 * j
    BY <1>2 DEF Even
  <2>2. h + j \in Nat /\ a + b = 2 * (h + j)
    BY <1>1, <2>1
  <2> QED
    BY <2>2 DEF Even
<1>3. ASSUME Even(a + b) PROVE Even(b)
  <2>1. PICK j \in Nat : a + b = 2 * j
    BY <1>3 DEF Even
  <2>2. j - h \in Nat /\ b = 2 * (j - h)
    BY <1>1, <2>1
  <2> QED
    BY <2>2 DEF Even
<1> QED
  BY <1>2, <1>3

\* Of two numbers in turn one is even.
LEMMA EvenTurns ==
    ASSUME NEW n \in Nat
    PROVE  /\ Even(0) /\ Even(2) /\ ~ Even(1)
           /\ Even(n + 1) <=> ~ Even(n)
<1>1. Even(0) /\ Even(2)
  <2>1. 0 \in Nat /\ 0 = 2 * 0 /\ 1 \in Nat /\ 2 = 2 * 1
    OBVIOUS
  <2> QED
    BY <2>1 DEF Even
<1>2. ~ Even(1)
  <2>1. \A h \in Nat : 1 # 2 * h
    OBVIOUS
  <2> QED
    BY <2>1 DEF Even
<1>3. ~ (Even(n) /\ Even(n + 1))
  <2>1. \A h, j \in Nat : n = 2 * h => n + 1 # 2 * j
    OBVIOUS
  <2> QED
    BY <2>1 DEF Even
<1>4. Even(n) \/ Even(n + 1)
  <2> DEFINE G == {k \in 0..n : Even(k) \/ Even(k + 1)}
  <2>1. 0 \in G
    BY <1>1
  <2>2. \A k \in 1..n : k - 1 \in G => k \in G
    <3> TAKE k \in 1..n
    <3> HAVE k - 1 \in G
    <3>1. (k - 1) + 1 = k /\ k - 1 \in Nat
      OBVIOUS
    <3>2. CASE Even(k)
      BY <3>2
    <3>3. CASE Even(k - 1)
      <4>1. PICK h \in Nat : k - 1 = 2 * h
        BY <3>3 DEF Even
      <4>2. h + 1 \in Nat /\ k + 1 = 2 * (h + 1)
        BY <4>1
      <4>3. Even(k + 1)
        BY <4>2 DEF Even
      <4> QED
        BY <4>3
    <3> QED
      BY <3>1, <3>2, <3>3
  <2>3. n \in 0..n
    OBVIOUS
  <2>4. n \in G
    <3> HIDE DEF G
    <3> QED
      BY <2>1, <2>2, <2>3, Induct
  <2> QED
    BY <2>4
<1> QED
  BY <1>1, <1>2, <1>3, <1>4

\* No cases lead.
LEMMA NothingLeads ==
    ASSUME NEW w
    PROVE  Lead(w, <<>>)
<1>1. DOMAIN <<>> = {}
  OBVIOUS
<1>2. Listed(<<>>) /\ Len(<<>>) = 0
  BY NothingIsListed
<1>3. Even(0)
  <2>1. 0 \in Nat
    OBVIOUS
  <2> QED
    BY <2>1, EvenTurns
<1> QED
  BY <1>1, <1>2, <1>3 DEF Lead

\* Such cases after others.
LEMMA LeadsAppended ==
    ASSUME NEW w, NEW s, NEW t, Lead(w, s), Lead(w, t)
    PROVE  Lead(w, s \o t)
<1> DEFINE u == s \o t
           a == Len(s)
           b == Len(t)
<1>1. Listed(s) /\ Listed(t)
  BY DEF Lead
<1>2. /\ Listed(u) /\ Len(u) = a + b
      /\ \A i \in DOMAIN u : u[i] = IF i <= a THEN s[i] ELSE t[i - a]
  BY <1>1, ListsAreAppended
<1>3. a \in Nat /\ DOMAIN s = 1..a /\ b \in Nat /\ DOMAIN t = 1..b
  BY <1>1, ListHasPlaces
<1>4. DOMAIN u = 1..(a + b)
  <2> HIDE DEF u, a, b
  <2> QED
    BY <1>2, ListHasPlaces
<1>5. w.profile = "intermittent" => Even(a) /\ Even(b)
  BY DEF Lead
<1> HIDE DEF u, a, b
<1>6. w.profile = "intermittent" => Even(Len(u))
  BY <1>2, <1>3, <1>5, EvenSum
<1>7. ASSUME NEW k \in DOMAIN u
      PROVE  \E op, request, status, schema :
                /\ Plainly(w, request, status, schema)
                /\ u[k] = Expected(w, k, op, request, status, schema)
  <2>1. CASE k <= a
    <3>1. k \in DOMAIN s /\ u[k] = s[k]
      BY <1>2, <1>3, <1>4, <2>1
    <3> QED
      BY <3>1 DEF Lead
  <2>2. CASE ~ (k <= a)
    <3> DEFINE j == k - a
    <3>1. j \in DOMAIN t /\ u[k] = t[j] /\ j \in Nat /\ k = a + j
      BY <1>2, <1>3, <1>4, <2>2
    <3> HIDE DEF j
    <3>2. w.profile = "intermittent" => (Even(k) <=> Even(j))
      BY <1>3, <1>5, <3>1, EvenSum
    <3>3. PICK op, request, status, schema :
            /\ Plainly(w, request, status, schema)
            /\ t[j] = Expected(w, j, op, request, status, schema)
      BY <3>1 DEF Lead
    <3>4. u[k] = Expected(w, k, op, request, status, schema)
      BY <3>1, <3>2, <3>3 DEF Expected
    <3> QED
      BY <3>3, <3>4
  <2> QED
    BY <2>1, <2>2
<1>8. Lead(w, u)
  BY <1>2, <1>6, <1>7, Zenon DEF Lead
<1> QED
  BY <1>8 DEF u

\* Any number of lists of them.
LEMMA LeadsJoined ==
    ASSUME NEW w, NEW seqs, Listed(seqs), \A i \in DOMAIN seqs : Lead(w, seqs[i])
    PROVE  Lead(w, FlattenSeq(seqs))
<1> DEFINE N == Len(seqs)
<1>0. N \in Nat /\ DOMAIN seqs = 1..N
  BY ListHasPlaces
<1>1. CASE N = 0
  <2>1. seqs = <<>>
    <3>1. seqs \in Seq(ToSet(seqs))
      BY DEF Listed
    <3> QED
      BY <1>1, <3>1
  <2>2. FlattenSeq(seqs) = <<>>
    BY <2>1 DEF FlattenSeq
  <2> QED
    BY <2>2, NothingLeads
<1>2. CASE N # 0
  <2>0. N \in Nat \ {0}
    BY <1>0, <1>2
  <2>1. PICK f : /\ \A i \in 1..N : f[i] = IF i = 1 THEN seqs[i] ELSE f[i - 1] \o seqs[i]
                 /\ FlattenSeq(seqs) = f[N]
    BY <2>0, JoiningIsSolved
  <2> DEFINE G == {n \in 0..N : n = 0 \/ Lead(w, f[n])}
  <2>2. 0 \in G
    BY <1>0
  <2>3. \A n \in 1..N : n - 1 \in G => n \in G
    <3> TAKE n \in 1..N
    <3> HAVE n - 1 \in G
    <3>1. Lead(w, seqs[n])
      BY <1>0
    <3>2. CASE n = 1
      <4>1. f[n] = seqs[n]
        BY <2>1, <3>2
      <4>2. n \in 0..N
        BY <1>0
      <4> QED
        BY <3>1, <4>1, <4>2
    <3>3. CASE n # 1
      <4>1. f[n] = f[n - 1] \o seqs[n]
        BY <2>1, <3>3
      <4>2. n - 1 # 0 /\ n \in 0..N
        BY <1>0, <3>3
      <4>3. Lead(w, f[n - 1])
        BY <4>2
      <4>4. Lead(w, f[n])
        BY <3>1, <4>1, <4>3, LeadsAppended
      <4> QED
        BY <4>2, <4>4
    <3> QED
      BY <3>2, <3>3
  <2>4. N \in 0..N
    BY <1>0
  <2>5. N \in G
    <3> HIDE DEF G, N
    <3> QED
      BY <1>0, <2>2, <2>3, <2>4, Induct
  <2> QED
    BY <1>2, <2>1, <2>5
<1> QED
  BY <1>1, <1>2

\* The cases of one request in each profile.
LEMMA ProfileLeads ==
    ASSUME NEW w, NEW op, NEW request, NEW status, NEW schema,
           Plainly(w, request, status, schema)
    PROVE  Lead(w, InProfile(w, op, request, status, schema))
<1> DEFINE a == Case(op, request, status, schema)
           b == Failing(op, request)
<1>0. Even(2) /\ ~ Even(1)
  <2>1. 0 \in Nat
    OBVIOUS
  <2> QED
    BY <2>1, EvenTurns
<1>1. CASE w.profile = "unavailable"
  <2>1. InProfile(w, op, request, status, schema) = <<b>>
    BY <1>1 DEF InProfile
  <2>2. b = Expected(w, 1, op, request, status, schema)
    BY <1>1 DEF Expected
  <2> HIDE DEF b
  <2>3. Listed(<<b>>) /\ DOMAIN <<b>> = {1} /\ <<b>>[1] = b
    BY OneIsListed
  <2>4. Lead(w, <<b>>)
    BY <1>1, <2>2, <2>3 DEF Lead
  <2> QED
    BY <2>1, <2>4
<1>2. CASE w.profile = "intermittent"
  <2>1. InProfile(w, op, request, status, schema) = <<a, b>>
    BY <1>2 DEF InProfile
  <2>2. /\ a = Expected(w, 1, op, request, status, schema)
        /\ b = Expected(w, 2, op, request, status, schema)
    BY <1>0, <1>2 DEF Expected
  <2> HIDE DEF a, b
  <2>3. /\ <<a, b>> \in Seq({a, b}) /\ DOMAIN <<a, b>> = {1, 2} /\ Len(<<a, b>>) = 2
        /\ <<a, b>>[1] = a /\ <<a, b>>[2] = b
    OBVIOUS
  <2>4. Listed(<<a, b>>)
    BY <2>3, SeqIsListed
  <2>5. Lead(w, <<a, b>>)
    BY <1>0, <2>2, <2>3, <2>4 DEF Lead
  <2> QED
    BY <2>1, <2>5
<1>3. CASE w.profile # "unavailable" /\ w.profile # "intermittent"
  <2>1. InProfile(w, op, request, status, schema) = <<a>>
    BY <1>3 DEF InProfile
  <2>2. a = Expected(w, 1, op, request, status, schema)
    BY <1>3 DEF Expected
  <2> HIDE DEF a
  <2>3. Listed(<<a>>) /\ DOMAIN <<a>> = {1} /\ <<a>>[1] = a
    BY OneIsListed
  <2>4. Lead(w, <<a>>)
    BY <1>3, <2>2, <2>3 DEF Lead
  <2> QED
    BY <2>1, <2>4
<1> QED
  BY <1>1, <1>2, <1>3

\* The plain cases of a plan.
EligibilityLead(w) ==
    FlattenSeq([i \in DOMAIN Prefix(w.dataset, MaxDataset) |->
                   InProfile(w, "check", Lookup(Prefix(w.dataset, MaxDataset)[i].lookup), 200,
                             <<"check", 200>>)])
    \o InProfile(w, "check", Lookup(UnknownPath), 404, NoSchema)

\* Those of any workspace.
LeadOf(w) == IF w.eligibility THEN EligibilityLead(w) ELSE GenericCases(w)

\* A case of the journey.
Step(w, op, request, status) ==
    IF w.profile = "unavailable" THEN Failing(op, request) ELSE Checked(op, request, status)

\* The cases of edges and pairs.
PairCase(p) == [Checked(p.op, Sent(p), Success[p.op]) EXCEPT !.pairs = p.ids]

\* One of them.
LastCase(w, options, c) ==
    \/ \E e \in ToSet(EdgeCases(w, Polarities(options), PlannedEdges)) :
        c = Checked(e.op, Sent(e), EdgeStatus(e))
    \/ options.pairwise /\ \E p \in ToSet(w.rows) : c = PairCase(p)

\* The first members of a list are members of it.
LEMMA PrefixMembers ==
    ASSUME NEW s, Listed(s), NEW n \in Nat
    PROVE  /\ Listed(Prefix(s, n))
           /\ \A i \in DOMAIN Prefix(s, n) : Prefix(s, n)[i] \in ToSet(s)
<1> DEFINE u == Prefix(s, n)
<1>1. Listed(u) /\ \A i \in DOMAIN u : i \in DOMAIN s /\ u[i] = s[i]
  BY PrefixIsListed
<1> HIDE DEF u
<1>2. \A i \in DOMAIN s : s[i] \in ToSet(s)
  BY ListHasPlaces
<1>3. \A i \in DOMAIN u : u[i] \in ToSet(s)
  BY <1>1, <1>2
<1> QED
  BY <1>1, <1>3 DEF u

\* The plain cases of an eligibility workspace.
LEMMA EligibilityLeads ==
    ASSUME NEW w, Promising(w), w.eligibility
    PROVE  Lead(w, EligibilityLead(w))
<1> DEFINE members == Prefix(w.dataset, MaxDataset)
           lists == [i \in DOMAIN members |->
                        InProfile(w, "check", Lookup(members[i].lookup), 200, <<"check", 200>>)]
<1>1. Listed(w.dataset) /\ MaxDataset \in Nat
  BY WorkspaceAssumption DEF Promising, Unconfigured
<1>2. Listed(members) /\ \A i \in DOMAIN members : members[i] \in ToSet(w.dataset)
  BY <1>1, PrefixMembers
<1>3. EligibilityLead(w) = FlattenSeq(lists)
                          \o InProfile(w, "check", Lookup(UnknownPath), 404, NoSchema)
  BY DEF EligibilityLead
<1> HIDE DEF members
<1>4. Listed(lists) /\ \A i \in DOMAIN lists : Lead(w, lists[i])
  <2>1. DOMAIN lists = DOMAIN members /\ lists = [i \in DOMAIN members |-> lists[i]]
    OBVIOUS
  <2>2. ASSUME NEW i \in DOMAIN members PROVE Lead(w, lists[i])
    <3>1. Plainly(w, Lookup(members[i].lookup), 200, <<"check", 200>>)
      BY <1>2, MembersAreChecked
    <3>2. Lead(w, InProfile(w, "check", Lookup(members[i].lookup), 200, <<"check", 200>>))
      BY <3>1, ProfileLeads
    <3> QED
      BY <3>2
  <2> HIDE DEF lists
  <2> QED
    BY <1>2, <2>1, <2>2, EachIsListed
<1> HIDE DEF lists
<1>5. Lead(w, FlattenSeq(lists))
  BY <1>4, LeadsJoined
<1>6. Lead(w, InProfile(w, "check", Lookup(UnknownPath), 404, NoSchema))
  BY MembersAreChecked, ProfileLeads
<1> QED
  BY <1>3, <1>5, <1>6, LeadsAppended

\* Those of any other.
LEMMA GenericLeads ==
    ASSUME NEW w, Promising(w), ~ w.eligibility
    PROVE  Lead(w, GenericCases(w))
<1> DEFINE selected == Prefix(w.dataset, MaxDataset)
           covered == {c.op : c \in ToSet(selected)}
           rest == Selected(w.operations, ToSet(w.operations) \ covered)
           planned(op, request) ==
               InProfile(w, op, request, Success[op], <<op, Success[op]>>)
           stored == [i \in DOMAIN selected |-> planned(selected[i].op, Sent(selected[i]))]
           base == [i \in DOMAIN rest |-> planned(rest[i], Baseline[rest[i]])]
<1>1. GenericCases(w) = FlattenSeq(stored) \o FlattenSeq(base)
  BY DEF GenericCases, Concat
<1>2. /\ Listed(selected) /\ \A i \in DOMAIN selected : selected[i] \in ToSet(w.dataset)
      /\ Listed(rest) /\ \A i \in DOMAIN rest : rest[i] \in ToSet(w.operations)
  <2>1. Listed(w.dataset) /\ MaxDataset \in Nat /\ Listed(w.operations)
    BY WorkspaceAssumption DEF Promising, Unconfigured
  <2>2. Listed(selected) /\ \A i \in DOMAIN selected : selected[i] \in ToSet(w.dataset)
    BY <2>1, PrefixMembers
  <2> HIDE DEF selected
  <2>3. Listed(rest) /\ \A i \in DOMAIN rest : rest[i] \in ToSet(w.operations)
    <3>1. /\ Listed(rest)
          /\ \A i \in DOMAIN rest :
                rest[i] \in ToSet(w.operations) \cap (ToSet(w.operations) \ covered)
      BY <2>1, SelectedAreListed
    <3> QED
      BY <3>1
  <2> QED
    BY <2>2, <2>3
<1> HIDE DEF selected, rest
<1>3. Listed(stored) /\ \A i \in DOMAIN stored : Lead(w, stored[i])
  <2>1. DOMAIN stored = DOMAIN selected /\ stored = [i \in DOMAIN selected |-> stored[i]]
    OBVIOUS
  <2>2. ASSUME NEW i \in DOMAIN selected PROVE Lead(w, stored[i])
    <3> DEFINE c == selected[i]
    <3>1. Plainly(w, Sent(c), Success[c.op], <<c.op, Success[c.op]>>)
      BY <1>2, StoredAreAnswered
    <3>2. Lead(w, InProfile(w, c.op, Sent(c), Success[c.op], <<c.op, Success[c.op]>>))
      BY <3>1, ProfileLeads
    <3> QED
      BY <3>2
  <2> HIDE DEF stored
  <2> QED
    BY <1>2, <2>1, <2>2, EachIsListed
<1>4. Listed(base) /\ \A i \in DOMAIN base : Lead(w, base[i])
  <2>1. DOMAIN base = DOMAIN rest /\ base = [i \in DOMAIN rest |-> base[i]]
    OBVIOUS
  <2>2. ASSUME NEW i \in DOMAIN rest PROVE Lead(w, base[i])
    <3> DEFINE op == rest[i]
    <3>1. Plainly(w, Baseline[op], Success[op], <<op, Success[op]>>)
      BY <1>2, StoredAreAnswered
    <3>2. Lead(w, InProfile(w, op, Baseline[op], Success[op], <<op, Success[op]>>))
      BY <3>1, ProfileLeads
    <3> QED
      BY <3>2
  <2> HIDE DEF base
  <2> QED
    BY <1>2, <2>1, <2>2, EachIsListed
<1> HIDE DEF stored, base
<1>5. Lead(w, FlattenSeq(stored)) /\ Lead(w, FlattenSeq(base))
  BY <1>3, <1>4, LeadsJoined
<1> QED
  BY <1>1, <1>5, LeadsAppended

\* No scenario is configured, so none is replayed.
LEMMA NothingIsReplayed ==
    ASSUME NEW w, Unconfigured(w)
    PROVE  Listed(ScenarioCases(w)) /\ Len(ScenarioCases(w)) = 0
<1> DEFINE lists == [i \in DOMAIN Ids |-> <<>>]
<1>1. ScenarioCases(w) = FlattenSeq(lists)
  BY Zenon DEF Unconfigured, ScenarioCases, Concat
<1>2. Listed(lists) /\ \A i \in DOMAIN lists : lists[i] = <<>>
  <2>1. /\ DOMAIN lists = DOMAIN Ids /\ lists = [i \in DOMAIN Ids |-> lists[i]]
        /\ \A i \in DOMAIN lists : lists[i] = <<>>
    OBVIOUS
  <2> HIDE DEF lists
  <2> QED
    BY <2>1, WorkspaceAssumption, EachIsListed
<1> HIDE DEF lists
<1>3. /\ Listed(FlattenSeq(lists))
      /\ ToSet(FlattenSeq(lists)) = UNION {ToSet(lists[i]) : i \in DOMAIN lists}
  BY <1>2, NothingIsListed, JoinedMembers
<1>4. UNION {ToSet(lists[i]) : i \in DOMAIN lists} = {}
  BY <1>2, NothingIsListed
<1> DEFINE s == FlattenSeq(lists)
<1>5. Listed(s) /\ ToSet(s) = {}
  BY <1>3, <1>4
<1> HIDE DEF s
<1>6. Len(s) \in Nat /\ DOMAIN s = 1..Len(s) /\ \A i \in DOMAIN s : s[i] \in ToSet(s)
  BY <1>5, ListHasPlaces
<1>7. Len(s) = 0
  BY <1>5, <1>6
<1> QED
  BY <1>1, <1>5, <1>7 DEF s

\* How many cases the journey has.
JourneyCases(w) == IF w.eligibility THEN 3 ELSE 0

\* The case at a place of the plan.
PlanCase(w, options, k, c) ==
    LET n == Len(LeadOf(w)) IN
    \/ k <= n /\ \E op, request, status, schema :
        /\ Plainly(w, request, status, schema)
        /\ c = Expected(w, k, op, request, status, schema)
    \/ w.eligibility /\ k = n + 1 /\ c = Step(w, "begin", BeginRequest, 202)
    \/ w.eligibility /\ k \in {n + 2, n + 3} /\ c = Step(w, "get", Lookup(StatusPath), 200)
    \/ k > n + JourneyCases(w) /\ LastCase(w, options, c)

\* The plan, place by place; every pairwise case has one.
PlanForm(w, options, plan) ==
    /\ Listed(plan) /\ Lead(w, LeadOf(w))
    /\ \A k \in DOMAIN plan : PlanCase(w, options, k, plan[k])
    /\ options.pairwise =>
        \A p \in ToSet(w.rows) : \E k \in DOMAIN plan : plan[k] = PairCase(p)

\* The plain cases of a workspace.
LEMMA LeadLeads ==
    ASSUME NEW w, Promising(w)
    PROVE  Lead(w, LeadOf(w))
  BY EligibilityLeads, GenericLeads DEF LeadOf

\* The plain cases and the journey.
LEMMA FrontForm ==
    ASSUME NEW w, Promising(w), NEW options
    PROVE  LET front == IF w.eligibility THEN EligibilityCases(w) ELSE GenericCases(w) IN
           /\ Listed(front) /\ Len(front) = Len(LeadOf(w)) + JourneyCases(w)
           /\ \A k \in DOMAIN front : PlanCase(w, options, k, front[k])
<1> DEFINE lead == LeadOf(w)
           n == Len(lead)
<1>1. Lead(w, lead)
  BY LeadLeads
<1> HIDE DEF lead
<1>2. Listed(lead) /\ n \in Nat /\ DOMAIN lead = 1..n
  BY <1>1, ListHasPlaces DEF Lead
<1>3. ASSUME NEW k \in DOMAIN lead PROVE PlanCase(w, options, k, lead[k])
  <2>1. k <= n
    BY <1>2
  <2>2. \E op, request, status, schema :
            /\ Plainly(w, request, status, schema)
            /\ lead[k] = Expected(w, k, op, request, status, schema)
    BY <1>1 DEF Lead
  <2> QED
    BY <2>1, <2>2, Zenon DEF PlanCase, lead
<1>4. CASE ~ w.eligibility
  <2>1. lead = GenericCases(w) /\ JourneyCases(w) = 0
    BY <1>4 DEF lead, LeadOf, JourneyCases
  <2> QED
    BY <1>2, <1>3, <1>4, <2>1 DEF lead
<1>5. CASE w.eligibility
  <2> DEFINE a == Step(w, "begin", BeginRequest, 202)
             b == Step(w, "get", Lookup(StatusPath), 200)
             journey == <<a, b, b>>
             front == lead \o journey
  <2>1. EligibilityCases(w) = front
    <3>1. w.dataset # <<>>
      BY <1>5 DEF Promising, Unconfigured
    <3> QED
      BY <1>5, <3>1 DEF EligibilityCases, EligibilityLead, Concat, Step, lead, LeadOf
  <2>2. JourneyCases(w) = 3
    BY <1>5 DEF JourneyCases
  <2>3. PlanCase(w, options, n + 1, a)
    BY <1>5, Zenon DEF PlanCase, lead
  <2>4. PlanCase(w, options, n + 2, b) /\ PlanCase(w, options, n + 3, b)
    BY <1>5, Zenon DEF PlanCase, lead
  <2> HIDE DEF a, b
  <2>5. /\ journey \in Seq({a, b}) /\ Len(journey) = 3
        /\ journey[1] = a /\ journey[2] = b /\ journey[3] = b
    OBVIOUS
  <2>6. Listed(journey)
    BY <2>5, SeqIsListed
  <2> HIDE DEF journey
  <2>7. /\ Listed(front) /\ Len(front) = n + 3
        /\ \A k \in DOMAIN front : front[k] = IF k <= n THEN lead[k] ELSE journey[k - n]
    BY <1>2, <2>5, <2>6, ListsAreAppended, ZenonT(30)
  <2> HIDE DEF front
  <2>8. DOMAIN front = 1..(n + 3)
    BY <2>7, ListHasPlaces
  <2>9. ASSUME NEW k \in DOMAIN front PROVE PlanCase(w, options, k, front[k])
    <3>1. n \in Nat /\ k \in 1..(n + 3)
      BY <1>2, <2>8
    <3>2. k \in 1..n \/ k = n + 1 \/ k = n + 2 \/ k = n + 3
      <4> HIDE DEF n
      <4> QED
        BY <3>1
    <3>3. CASE k \in 1..n
      <4>1. front[k] = lead[k] /\ k \in DOMAIN lead
        BY <1>2, <2>7, <3>1, <3>3
      <4> QED
        BY <1>3, <4>1
    <3>4. CASE k = n + 1
      <4>1. ~ (k <= n) /\ k - n = 1
        <5> HIDE DEF n
        <5> QED
          BY <3>1, <3>4
      <4>2. front[k] = a
        BY <2>5, <2>7, <4>1
      <4> QED
        BY <2>3, <3>4, <4>2
    <3>5. CASE k = n + 2
      <4>1. ~ (k <= n) /\ k - n = 2
        <5> HIDE DEF n
        <5> QED
          BY <3>1, <3>5
      <4>2. front[k] = b
        BY <2>5, <2>7, <4>1
      <4> QED
        BY <2>4, <3>5, <4>2
    <3>6. CASE k = n + 3
      <4>1. ~ (k <= n) /\ k - n = 3
        <5> HIDE DEF n
        <5> QED
          BY <3>1, <3>6
      <4>2. front[k] = b
        BY <2>5, <2>7, <4>1
      <4> QED
        BY <2>4, <3>6, <4>2
    <3> QED
      BY <3>2, <3>3, <3>4, <3>5, <3>6
  <2> QED
    BY <1>5, <2>1, <2>2, <2>7, <2>9 DEF lead
<1> QED
  BY <1>4, <1>5

\* A list after another: a place past the first is one of the second.
LEMMA PlaceOfAppended ==
    ASSUME NEW s, NEW t, Listed(s), Listed(t), NEW k \in DOMAIN (s \o t)
    PROVE  \/ k \in DOMAIN s /\ (s \o t)[k] = s[k]
           \/ k > Len(s) /\ (s \o t)[k] \in ToSet(t)
<1> DEFINE u == s \o t
           a == Len(s)
           b == Len(t)
<1>1. /\ Listed(u) /\ Len(u) = a + b
      /\ \A i \in DOMAIN u : u[i] = IF i <= a THEN s[i] ELSE t[i - a]
  BY ListsAreAppended
<1>2. a \in Nat /\ DOMAIN s = 1..a /\ b \in Nat /\ DOMAIN t = 1..b
      /\ \A i \in DOMAIN t : t[i] \in ToSet(t)
  BY ListHasPlaces
<1>3. k \in DOMAIN u
  OBVIOUS
<1> HIDE DEF u
<1>4. DOMAIN u = 1..(a + b)
  <2> HIDE DEF a, b
  <2> QED
    BY <1>1, ListHasPlaces
<1> HIDE DEF a, b
<1>5. CASE k <= a
  <2>1. k \in DOMAIN s /\ u[k] = s[k]
    BY <1>1, <1>2, <1>3, <1>4, <1>5
  <2> QED
    BY <2>1 DEF u
<1>6. CASE ~ (k <= a)
  <2>1. k > a /\ k - a \in DOMAIN t /\ u[k] = t[k - a]
    BY <1>1, <1>2, <1>3, <1>4, <1>6
  <2> QED
    BY <1>2, <2>1 DEF u, a
<1> QED
  BY <1>5, <1>6

\* The plan of a workspace without configured scenarios has this form.
LEMMA PlanHasForm ==
    ASSUME NEW w, Promising(w), NEW options
    PROVE  PlanForm(w, options, Plan(w, options))
<1> DEFINE front == IF w.eligibility THEN EligibilityCases(w) ELSE GenericCases(w)
           middle == ScenarioCases(w)
           candidates == EdgeCases(w, Polarities(options), PlannedEdges)
           edges == [k \in DOMAIN candidates |->
                        Checked(candidates[k].op, Sent(candidates[k]),
                                EdgeStatus(candidates[k]))]
           rowCases == [k \in DOMAIN w.rows |->
                           [Checked(w.rows[k].op, Sent(w.rows[k]), Success[w.rows[k].op])
                               EXCEPT !.pairs = w.rows[k].ids]]
           last == IF options.pairwise THEN rowCases ELSE <<>>
           plan == ((front \o middle) \o edges) \o last
           n == Len(LeadOf(w)) + JourneyCases(w)
<1>0. w \in Workspaces /\ Unconfigured(w)
  BY DEF Promising, Unconfigured
<1>1. Plan(w, options) = plan
  BY DEF Plan, Each
<1>2. /\ Listed(front) /\ Len(front) = n
      /\ \A k \in DOMAIN front : PlanCase(w, options, k, front[k])
  BY FrontForm
<1>3. Listed(middle) /\ Len(middle) = 0
  BY <1>0, NothingIsReplayed
<1>4. Listed(edges) /\ \A c \in ToSet(edges) : LastCase(w, options, c)
  <2>1. Listed(candidates)
    <3>1. PlannedEdges \in Nat
      BY WorkspaceAssumption
    <3> QED
      BY <1>0, <3>1, EdgesAreListed
  <2>2. ASSUME NEW k \in DOMAIN candidates PROVE LastCase(w, options, edges[k])
    <3>1. candidates[k] \in ToSet(candidates)
      BY <2>1, ListHasPlaces
    <3> QED
      BY <3>1 DEF LastCase
  <2>3. DOMAIN edges = DOMAIN candidates /\ edges = [k \in DOMAIN candidates |-> edges[k]]
    OBVIOUS
  <2> HIDE DEF edges, candidates
  <2>4. Listed(edges) /\ ToSet(edges) = {edges[k] : k \in DOMAIN candidates}
    BY <2>1, <2>3, MadeMembers
  <2> QED
    BY <2>2, <2>4
<1>5. /\ Listed(last) /\ \A c \in ToSet(last) : LastCase(w, options, c)
      /\ options.pairwise => \A p \in ToSet(w.rows) : \E k \in DOMAIN last : last[k] = PairCase(p)
  <2>1. CASE ~ options.pairwise
    <3>1. last = <<>>
      BY <2>1
    <3> HIDE DEF last
    <3> QED
      BY <2>1, <3>1, NothingIsListed
  <2>2. CASE options.pairwise
    <3>1. last = rowCases /\ Listed(w.rows)
      BY <1>0, <2>2, WorkspaceAssumption
    <3>2. ASSUME NEW k \in DOMAIN w.rows PROVE rowCases[k] = PairCase(w.rows[k])
      BY DEF PairCase
    <3>3. DOMAIN rowCases = DOMAIN w.rows /\ rowCases = [k \in DOMAIN w.rows |-> rowCases[k]]
      OBVIOUS
    <3> HIDE DEF rowCases, last
    <3>4. Listed(rowCases) /\ ToSet(rowCases) = {rowCases[k] : k \in DOMAIN w.rows}
      BY <3>1, <3>3, MadeMembers
    <3>5. /\ \A k \in DOMAIN w.rows : w.rows[k] \in ToSet(w.rows)
          /\ \A p \in ToSet(w.rows) : \E k \in DOMAIN w.rows : w.rows[k] = p
      BY <3>1, ListHasPlaces
    <3>6. \A c \in ToSet(rowCases) : LastCase(w, options, c)
      BY <2>2, <3>2, <3>4, <3>5 DEF LastCase
    <3>7. \A p \in ToSet(w.rows) : \E k \in DOMAIN rowCases : rowCases[k] = PairCase(p)
      BY <3>2, <3>3, <3>5
    <3> QED
      BY <3>1, <3>4, <3>6, <3>7
  <2> QED
    BY <2>1, <2>2
<1> HIDE DEF front, middle, edges, last
<1>6. n \in Nat
  <2>1. Len(front) \in Nat
    BY <1>2, ListHasPlaces
  <2> QED
    BY <1>2, <2>1
<1> DEFINE s == front \o middle
           t == s \o edges
<1> HIDE DEF n
<1>7. /\ Listed(s) /\ Len(s) = n
      /\ \A k \in DOMAIN s : PlanCase(w, options, k, s[k])
  <2>1. Listed(s) /\ Len(s) = n
    BY <1>2, <1>3, <1>6, ListsAreAppended
  <2>2. DOMAIN s = 1..n /\ DOMAIN front = 1..n
    <3> HIDE DEF s
    <3> QED
      BY <1>2, <2>1, ListHasPlaces
  <2>3. \A k \in DOMAIN s : s[k] = front[k]
    <3>1. \A k \in DOMAIN s : s[k] = IF k <= n THEN front[k] ELSE middle[k - n]
      BY <1>2, <1>3, ListsAreAppended
    <3>2. \A k \in 1..n : k <= n
      BY <1>6
    <3> QED
      BY <2>2, <3>1, <3>2
  <2> HIDE DEF s
  <2> QED
    BY <1>2, <2>1, <2>2, <2>3
<1> HIDE DEF s
<1>8. ASSUME NEW k \in Nat, k > n, NEW c, LastCase(w, options, c)
      PROVE  PlanCase(w, options, k, c)
  BY <1>8, Zenon DEF PlanCase, n
<1>9. /\ Listed(t) /\ Len(t) \in Nat /\ Len(t) >= n
      /\ \A k \in DOMAIN t : PlanCase(w, options, k, t[k])
  <2>1. Listed(t) /\ Len(t) = n + Len(edges) /\ Len(edges) \in Nat
    BY <1>4, <1>7, ListsAreAppended, ListHasPlaces
  <2>2. Len(t) \in Nat /\ Len(t) >= n
    BY <1>6, <2>1
  <2>3. \A k \in DOMAIN t : k \in Nat
    <3> HIDE DEF t
    <3>1. DOMAIN t = 1..Len(t)
      BY <2>1, ListHasPlaces
    <3> QED
      BY <2>2, <3>1
  <2>4. ASSUME NEW k \in DOMAIN t PROVE PlanCase(w, options, k, t[k])
    <3>1. \/ k \in DOMAIN s /\ t[k] = s[k]
          \/ k > n /\ t[k] \in ToSet(edges)
      BY <1>4, <1>7, PlaceOfAppended
    <3> HIDE DEF t
    <3> QED
      BY <1>4, <1>7, <1>8, <2>3, <3>1
  <2> QED
    BY <2>1, <2>2, <2>4
<1> HIDE DEF t
<1> DEFINE u == t \o last
<1>10. Listed(u) /\ Len(u) = Len(t) + Len(last) /\ Len(last) \in Nat /\ DOMAIN last = 1..Len(last)
  BY <1>5, <1>9, ListsAreAppended, ListHasPlaces
<1>11. ASSUME NEW k \in DOMAIN u PROVE PlanCase(w, options, k, u[k])
  <2>1. \/ k \in DOMAIN t /\ u[k] = t[k]
        \/ k > Len(t) /\ u[k] \in ToSet(last)
    BY <1>5, <1>9, PlaceOfAppended
  <2>2. k \in Nat
    <3> HIDE DEF u
    <3>1. DOMAIN u = 1..Len(u) /\ Len(u) \in Nat
      BY <1>10, ListHasPlaces
    <3> QED
      BY <3>1
  <2>3. k > Len(t) => k > n
    BY <1>6, <1>9, <2>2
  <2> HIDE DEF u
  <2> QED
    BY <1>5, <1>8, <1>9, <2>1, <2>2, <2>3
<1>12. ASSUME options.pairwise, NEW p \in ToSet(w.rows)
       PROVE  \E k \in DOMAIN u : u[k] = PairCase(p)
  <2>1. PICK j \in DOMAIN last : last[j] = PairCase(p)
    BY <1>5, <1>12
  <2> DEFINE a == Len(t)
             k == a + j
  <2>2. a \in Nat /\ Len(last) \in Nat /\ j \in 1..Len(last)
    BY <1>9, <1>10, <2>1
  <2>3. \A i \in DOMAIN u : u[i] = IF i <= a THEN t[i] ELSE last[i - a]
    BY <1>5, <1>9, ListsAreAppended
  <2> HIDE DEF u
  <2>4. DOMAIN u = 1..(a + Len(last))
    BY <1>10, ListHasPlaces
  <2> HIDE DEF a
  <2>5. k \in DOMAIN u /\ ~ (k <= a) /\ k - a = j
    BY <2>2, <2>4
  <2> HIDE DEF k
  <2>6. u[k] = last[j]
    BY <2>3, <2>5
  <2> QED
    BY <2>1, <2>5, <2>6
<1>13. plan = u
  BY DEF u, t, s
<1> HIDE DEF u, plan
<1>14. PlanForm(w, options, u)
  BY <1>10, <1>11, <1>12, LeadLeads, Zenon DEF PlanForm
<1> QED
  BY <1>1, <1>13, <1>14

-----------------------------------------------------------------------------
(* Each case of the plan is answered as it expects.                        *)

\* The fields of a plain case.
IsPlainCase(c, op, request, status, schema, pairs) ==
    /\ c.op = op /\ c.request = request /\ c.status = status /\ c.schema = schema
    /\ c.pairs = pairs
    /\ c.scenario = "none" /\ c.required = "none" /\ c.next = Stay /\ ~ c.reset

\* A case has them.
LEMMA CaseIsPlain ==
    ASSUME NEW op, NEW request, NEW status, NEW schema
    PROVE  IsPlainCase(Case(op, request, status, schema), op, request, status, schema, {})
  BY DEF IsPlainCase, Case

\* A pairwise case too.
LEMMA PairCaseIsPlain ==
    ASSUME NEW p
    PROVE  IsPlainCase(PairCase(p), p.op, Sent(p), Success[p.op], <<p.op, Success[p.op]>>, p.ids)
<1> DEFINE op == p.op
           request == Sent(p)
           status == Success[op]
           schema == <<op, status>>
           ids == p.ids
           c == [op |-> op, request |-> request, status |-> status, schema |-> schema,
                 scenario |-> "none", required |-> "none", handler |-> "none", next |-> Stay,
                 reset |-> FALSE, pairs |-> {}]
           q == [c EXCEPT !.pairs = ids]
<1>1. PairCase(p) = q
  BY DEF PairCase, Checked, Case
<1> HIDE DEF op, request, status, schema, ids
<1>2. q.pairs = ids
  OBVIOUS
<1>3. q.op = op /\ q.request = request /\ q.status = status /\ q.schema = schema
  OBVIOUS
<1>4. q.scenario = "none" /\ q.required = "none" /\ q.next = Stay /\ q.reset = FALSE
  OBVIOUS
<1> HIDE DEF q
<1> QED
  BY <1>1, <1>2, <1>3, <1>4 DEF IsPlainCase, op, request, status, schema, ids

\* The states after n cases.
Due(w, n, s) ==
    LET lead == Len(LeadOf(w)) IN
    /\ w.profile = "intermittent" =>
        s[Intermittent] = IF n < lead /\ ~ Even(n) THEN "DEGRADED" ELSE "Started"
    /\ w.eligibility => /\ n = lead + 1 => s[Journey] = "PROCESSING"
                        /\ n = lead + 2 => s[Journey] = "COMPLETED"

\* What GeneratedCasesPass asks of the options.
Suitable(w, options) ==
    /\ AllCompiled(w, options)
    /\ \/ w.profile \in {"normal", "slow"}
       \/ Polarities(options) = {} /\ ~ options.pairwise

\* The answer of a case in these states, and the states it leaves.
IsAnswered(w, k, c, s) ==
    LET answer == Execute(Mappings(w), s, c.request) IN
    /\ answer.status = c.status /\ Fits(c.schema, answer.says)
    /\ answer.matched /\ Due(w, k, answer.states)

\* A request that is always answered is answered in the profile.
LEMMA AlwaysAnswered ==
    ASSUME NEW w, Promising(w), NEW n, NEW s, Due(w, n, s), NEW request,
           \E m \in AllMappings(w) : MappingMatches(m, s, request)
    PROVE  \E m \in AllMappings(w) : /\ Answers(AllMappings(w), s, request, m)
                                     /\ Execute(Mappings(w), s, request) = Outcome(w, m, s)
<1>1. w.profile = "intermittent" => s[Intermittent] \in {"Started", "DEGRADED"}
  BY DEF Due
<1>2. Unconfigured(w)
  BY DEF Promising
<1> QED
  BY <1>1, <1>2, ProfiledAnswers

\* A plain case is answered, and success and failure alternate.
LEMMA LeadIsAnswered ==
    ASSUME NEW w, Promising(w), NEW k \in Nat \ {0}, k <= Len(LeadOf(w)), Lead(w, LeadOf(w)),
           NEW s, Intermittent \in DOMAIN s, Due(w, k - 1, s),
           NEW op, NEW request, NEW status, NEW schema, Plainly(w, request, status, schema),
           NEW c, c = Expected(w, k, op, request, status, schema)
    PROVE  IsAnswered(w, k, c, s) /\ IsPlainCase(c, c.op, c.request, c.status, c.schema, {})
<1> DEFINE lead == Len(LeadOf(w))
           failing == w.profile = "unavailable" \/ (w.profile = "intermittent" /\ Even(k))
<1>0. lead \in Nat /\ (w.profile = "intermittent" => Even(lead))
  BY ListHasPlaces DEF Lead
<1>1. IsPlainCase(c, op, request, IF failing THEN FailureStatus ELSE status,
                  IF failing THEN NoSchema ELSE schema, {})
  <2>1. CASE failing
    <3>1. c = Case(op, request, FailureStatus, NoSchema)
      BY <2>1 DEF Expected, Failing
    <3> QED
      BY <2>1, <3>1, CaseIsPlain
  <2>2. CASE ~ failing
    <3>1. c = Case(op, request, status, schema)
      BY <2>2 DEF Expected
    <3> QED
      BY <2>2, <3>1, CaseIsPlain
  <2> QED
    BY <2>1, <2>2
<1>2. /\ c.request = request /\ c.status = IF failing THEN FailureStatus ELSE status
      /\ c.schema = IF failing THEN NoSchema ELSE schema
      /\ IsPlainCase(c, c.op, c.request, c.status, c.schema, {})
  <2> HIDE DEF failing
  <2> QED
    BY <1>1 DEF IsPlainCase
<1>3. \E m \in AllMappings(w) : MappingMatches(m, s, request)
  BY DEF Plainly, Always
<1>4. PICK m \in AllMappings(w) : /\ Answers(AllMappings(w), s, request, m)
                                  /\ Execute(Mappings(w), s, request) = Outcome(w, m, s)
  BY <1>3, AlwaysAnswered
<1>5. /\ m.status = status /\ Fits(schema, m.says)
      /\ m.scenario = "none" /\ m.next = Stay
  BY <1>4 DEF Plainly, Always
<1> DEFINE answer == Outcome(w, m, s)
<1>6. Execute(Mappings(w), s, c.request) = answer
  BY <1>2, <1>4
<1> HIDE DEF lead
<1>7. k - 1 < lead /\ (Even(k) <=> ~ Even(k - 1)) /\ (k # lead => k < lead)
      /\ k # lead + 1 /\ k # lead + 2
  <2>1. k - 1 \in Nat /\ (k - 1) + 1 = k /\ k <= lead
    BY DEF lead
  <2>2. Even((k - 1) + 1) <=> ~ Even(k - 1)
    BY <2>1, EvenTurns
  <2>3. k - 1 < lead /\ (k # lead => k < lead) /\ k # lead + 1 /\ k # lead + 2
    BY <1>0, <2>1
  <2> QED
    BY <2>1, <2>2, <2>3
<1>8. w.profile = "intermittent" =>
        s[Intermittent] = IF ~ Even(k - 1) THEN "DEGRADED" ELSE "Started"
  BY <1>7 DEF Due, lead
<1>9. answer.status = c.status /\ answer.matched /\ Fits(c.schema, answer.says)
  <2>1. Failed(w, m, s) <=> failing
    BY <1>5, <1>7, <1>8 DEF Failed, Alternates
  <2>2. /\ answer.status = IF failing THEN FailureStatus ELSE m.status
        /\ answer.says = IF failing THEN FailureBody ELSE m.says
        /\ answer.matched
    BY <2>1 DEF Outcome
  <2> HIDE DEF answer, failing
  <2> QED
    BY <1>2, <1>5, <2>2 DEF Fits
<1>10. Due(w, k, answer.states)
  <2>1. CASE w.profile = "intermittent"
    <3>1. answer.states[Intermittent] = IF s[Intermittent] = "Started" THEN "DEGRADED"
                                        ELSE "Started"
      BY <1>5, <2>1 DEF Outcome, Alternates
    <3>2. answer.states[Intermittent] = IF k < lead /\ ~ Even(k) THEN "DEGRADED" ELSE "Started"
      BY <1>0, <1>7, <1>8, <2>1, <3>1
    <3> HIDE DEF answer
    <3> QED
      BY <1>7, <3>2 DEF Due, lead
  <2>2. CASE w.profile # "intermittent"
    BY <1>7, <2>2 DEF Due, lead
  <2> QED
    BY <2>1, <2>2
<1> QED
  BY <1>2, <1>6, <1>9, <1>10 DEF IsAnswered

\* A case of the journey is plain.
LEMMA StepIsPlain ==
    ASSUME NEW w, NEW op, NEW request, NEW status
    PROVE  LET c == Step(w, op, request, status)
               failing == w.profile = "unavailable"
           IN
           /\ c.request = request /\ c.status = IF failing THEN FailureStatus ELSE status
           /\ c.schema = IF failing THEN NoSchema ELSE <<op, status>>
           /\ IsPlainCase(c, c.op, c.request, c.status, c.schema, {})
<1> DEFINE c == Step(w, op, request, status)
           failing == w.profile = "unavailable"
<1>1. CASE failing
  <2>1. c = Case(op, request, FailureStatus, NoSchema)
    BY <1>1 DEF Step, Failing
  <2>2. IsPlainCase(c, op, request, FailureStatus, NoSchema, {})
    BY <2>1, CaseIsPlain
  <2> HIDE DEF c
  <2> QED
    BY <1>1, <2>2 DEF IsPlainCase, c
<1>2. CASE ~ failing
  <2>1. c = Case(op, request, status, <<op, status>>)
    BY <1>2 DEF Step, Checked
  <2>2. IsPlainCase(c, op, request, status, <<op, status>>, {})
    BY <2>1, CaseIsPlain
  <2> HIDE DEF c
  <2> QED
    BY <1>2, <2>2 DEF IsPlainCase, c
<1> QED
  BY <1>1, <1>2

\* So are the cases of the journey.
LEMMA JourneyIsAnswered ==
    ASSUME NEW w, Promising(w), w.eligibility, NEW k \in Nat \ {0}, Lead(w, LeadOf(w)),
           NEW s, {Intermittent, Journey} \subseteq DOMAIN s, Due(w, k - 1, s), NEW c,
           \/ k = Len(LeadOf(w)) + 1 /\ c = Step(w, "begin", BeginRequest, 202)
           \/ /\ k \in {Len(LeadOf(w)) + 2, Len(LeadOf(w)) + 3}
              /\ c = Step(w, "get", Lookup(StatusPath), 200)
    PROVE  IsAnswered(w, k, c, s) /\ IsPlainCase(c, c.op, c.request, c.status, c.schema, {})
<1> DEFINE lead == Len(LeadOf(w))
           failing == w.profile = "unavailable"
<1>0. lead \in Nat
  BY ListHasPlaces DEF Lead
<1>1. Journey # "none" /\ Journey # Intermittent
  BY DEF Journey, Intermittent
<1> HIDE DEF lead
<1>2. w.profile = "intermittent" => s[Intermittent] = "Started"
  <2>1. ~ (k - 1 < lead)
    BY <1>0 DEF lead
  <2> QED
    BY <2>1 DEF Due, lead
<1>3. CASE k = lead + 1 /\ c = Step(w, "begin", BeginRequest, 202)
  <2> DEFINE request == BeginRequest
             a == Begin(w)
  <2>1. a.scenario = Journey /\ a.status = 202 /\ a.next = "PROCESSING"
    BY JourneyFields
  <2>2. /\ c.request = request /\ c.status = IF failing THEN FailureStatus ELSE 202
        /\ c.schema = IF failing THEN NoSchema ELSE <<"begin", 202>>
        /\ IsPlainCase(c, c.op, c.request, c.status, c.schema, {})
    BY <1>3, StepIsPlain
  <2>3. /\ \E m \in AllMappings(w) : MappingMatches(m, s, request)
        /\ \A m \in AllMappings(w) : Answers(AllMappings(w), s, request, m) =>
                m = a /\ Fits(<<"begin", 202>>, m.says)
    BY JourneyAnswers
  <2> HIDE DEF a, request
  <2>4. Execute(Mappings(w), s, request) = Outcome(w, a, s) /\ Fits(<<"begin", 202>>, a.says)
    <3>1. PICK m \in AllMappings(w) : /\ Answers(AllMappings(w), s, request, m)
                                      /\ Execute(Mappings(w), s, request) = Outcome(w, m, s)
      BY <2>3, AlwaysAnswered
    <3>2. m = a /\ Fits(<<"begin", 202>>, m.says)
      BY <2>3, <3>1
    <3> QED
      BY <3>1, <3>2
  <2> DEFINE answer == Outcome(w, a, s)
  <2>6. ~ Alternates(w, a) /\ a.next # Stay
    BY <1>1, <2>1 DEF Alternates, Stay
  <2>7. answer.status = c.status /\ answer.matched /\ Fits(c.schema, answer.says)
    <3>1. Failed(w, a, s) <=> failing
      BY <2>6 DEF Failed
    <3>2. /\ answer.status = IF failing THEN FailureStatus ELSE a.status
          /\ answer.says = IF failing THEN FailureBody ELSE a.says
          /\ answer.matched
      BY <3>1 DEF Outcome
    <3> HIDE DEF answer, failing
    <3> QED
      BY <2>1, <2>2, <2>4, <3>2 DEF Fits
  <2>8. answer.states = [s EXCEPT ![Journey] = "PROCESSING"]
    BY <2>1, <2>6 DEF Outcome
  <2> HIDE DEF answer
  <2>9. /\ answer.states[Journey] = "PROCESSING"
        /\ answer.states[Intermittent] = s[Intermittent]
    BY <1>1, <2>8
  <2>10. k = lead + 1 /\ k # lead + 2 /\ ~ (k < lead)
    BY <1>0, <1>3
  <2>11. Due(w, k, answer.states)
    BY <1>2, <2>9, <2>10 DEF Due, lead
  <2> QED
    BY <2>2, <2>4, <2>7, <2>11 DEF IsAnswered, answer
<1>4. CASE k \in {lead + 2, lead + 3} /\ c = Step(w, "get", Lookup(StatusPath), 200)
  <2> DEFINE request == Lookup(StatusPath)
             m == IF k = lead + 2 THEN GetProcessing(w) ELSE GetCompleted(w)
  <2>2. /\ c.request = request /\ c.status = IF failing THEN FailureStatus ELSE 200
        /\ c.schema = IF failing THEN NoSchema ELSE <<"get", 200>>
        /\ IsPlainCase(c, c.op, c.request, c.status, c.schema, {})
    BY <1>4, StepIsPlain
  <2>3. \/ k = lead + 2 /\ k - 1 = lead + 1
        \/ k # lead + 2 /\ k - 1 = lead + 2
    BY <1>0, <1>4
  <2>4. /\ k = lead + 2 => s[Journey] = "PROCESSING"
        /\ k # lead + 2 => s[Journey] = "COMPLETED"
    BY <2>3 DEF Due, lead
  <2>5. /\ \E x \in AllMappings(w) : MappingMatches(x, s, request)
        /\ \A x \in AllMappings(w) : Answers(AllMappings(w), s, request, x) =>
                x = m /\ Fits(<<"get", 200>>, x.says)
    BY <2>4, JourneyAnswers
  <2>7. m.scenario = Journey /\ m.status = 200
    BY JourneyFields
  <2>1. /\ k = lead + 2 => m.next = "COMPLETED"
        /\ k # lead + 2 => m.next = Stay
    BY JourneyFields
  <2> HIDE DEF m, request
  <2>6. Execute(Mappings(w), s, request) = Outcome(w, m, s) /\ Fits(<<"get", 200>>, m.says)
    <3>1. PICK x \in AllMappings(w) : /\ Answers(AllMappings(w), s, request, x)
                                      /\ Execute(Mappings(w), s, request) = Outcome(w, x, s)
      BY <2>5, AlwaysAnswered
    <3>2. x = m /\ Fits(<<"get", 200>>, x.says)
      BY <2>5, <3>1
    <3> QED
      BY <3>1, <3>2
  <2> DEFINE answer == Outcome(w, m, s)
  <2>8. ~ Alternates(w, m)
    BY <1>1, <2>7 DEF Alternates
  <2>9. answer.status = c.status /\ answer.matched /\ Fits(c.schema, answer.says)
    <3>1. Failed(w, m, s) <=> failing
      BY <2>8 DEF Failed
    <3>2. /\ answer.status = IF failing THEN FailureStatus ELSE m.status
          /\ answer.says = IF failing THEN FailureBody ELSE m.says
          /\ answer.matched
      BY <3>1 DEF Outcome
    <3> HIDE DEF answer, failing
    <3> QED
      BY <2>2, <2>6, <2>7, <3>2 DEF Fits
  <2>10. answer.states = IF k = lead + 2 THEN [s EXCEPT ![Journey] = "COMPLETED"] ELSE s
    <3>1. "COMPLETED" # Stay
      BY DEF Stay
    <3> QED
      BY <2>1, <2>7, <2>8, <3>1 DEF Outcome
  <2> HIDE DEF answer
  <2>11. /\ k = lead + 2 => answer.states[Journey] = "COMPLETED"
         /\ answer.states[Intermittent] = s[Intermittent]
    BY <1>1, <2>10
  <2>12. k # lead + 1 /\ ~ (k < lead)
    BY <1>0, <1>4
  <2>13. Due(w, k, answer.states)
    BY <1>2, <2>11, <2>12 DEF Due, lead
  <2> QED
    BY <2>2, <2>6, <2>9, <2>13 DEF IsAnswered, answer
<1> QED
  BY <1>3, <1>4 DEF lead

\* And the edge and pairwise cases, which only an undegraded profile plans.
LEMMA LastIsAnswered ==
    ASSUME NEW w, Promising(w), NEW options, Suitable(w, options),
           NEW k \in Nat, Lead(w, LeadOf(w)), k > Len(LeadOf(w)) + JourneyCases(w),
           NEW s, Due(w, k - 1, s), NEW c, LastCase(w, options, c)
    PROVE  IsAnswered(w, k, c, s)
<1> DEFINE lead == Len(LeadOf(w))
           planned == EdgeCases(w, Polarities(options), PlannedEdges)
           request == c.request
<1>0. lead \in Nat /\ w \in Workspaces
  BY ListHasPlaces DEF Lead, Promising, Unconfigured
<1>1. w.profile \in {"normal", "slow"}
  <2>1. PlannedEdges \in Nat
    BY WorkspaceAssumption
  <2>2. /\ Listed(planned)
        /\ \A i \in DOMAIN planned : planned[i].polarity \in Polarities(options)
    BY <1>0, <2>1, EdgesAreListed
  <2> HIDE DEF planned
  <2>3. \A e \in ToSet(planned) : e.polarity \in Polarities(options)
    BY <2>2, ListHasPlaces
  <2>4. ~ (Polarities(options) = {} /\ ~ options.pairwise)
    BY <2>3 DEF LastCase, planned
  <2> QED
    BY <2>4 DEF Suitable
<1>2. Always(w, c.request, c.status, c.schema)
  <2>1. CASE \E e \in ToSet(planned) : c = Checked(e.op, Sent(e), EdgeStatus(e))
    <3>1. PICK e \in ToSet(planned) : c = Checked(e.op, Sent(e), EdgeStatus(e))
      BY <2>1
    <3>2. e \in CompiledCases(w)
      BY <3>1 DEF Suitable, AllCompiled, CompiledCases
    <3>3. /\ c.request = Sent(e) /\ c.status = EdgeStatus(e)
          /\ c.schema = <<e.op, EdgeStatus(e)>>
      BY <3>1, CaseIsPlain DEF IsPlainCase, Checked
    <3> HIDE DEF planned
    <3> QED
      BY <3>2, <3>3, EdgesAreAnswered
  <2>2. CASE options.pairwise /\ \E p \in ToSet(w.rows) : c = PairCase(p)
    <3>1. PICK p \in ToSet(w.rows) : c = PairCase(p)
      BY <2>2
    <3>2. /\ c.request = Sent(p) /\ c.status = Success[p.op]
          /\ c.schema = <<p.op, Success[p.op]>>
      BY <3>1, PairCaseIsPlain DEF IsPlainCase
    <3>3. p \in ToSet(w.pairs)
      BY <2>2, <3>1 DEF Suitable, AllCompiled
    <3> QED
      BY <3>2, <3>3, PairsAreAnswered
  <2> QED
    BY <2>1, <2>2 DEF LastCase
<1>3. \E m \in AllMappings(w) : MappingMatches(m, s, request)
  BY <1>2 DEF Always
<1>4. PICK m \in AllMappings(w) : /\ Answers(AllMappings(w), s, request, m)
                                  /\ Execute(Mappings(w), s, request) = Outcome(w, m, s)
  <2> HIDE DEF request
  <2> QED
    BY <1>3, AlwaysAnswered
<1>5. m.status = c.status /\ Fits(c.schema, m.says)
  BY <1>2, <1>4 DEF Always
<1> DEFINE answer == Outcome(w, m, s)
<1>6. answer.status = c.status /\ answer.matched /\ Fits(c.schema, answer.says)
  <2>1. ~ Failed(w, m, s)
    BY <1>1 DEF Failed, Alternates
  <2> QED
    BY <1>5, <2>1 DEF Outcome
<1> HIDE DEF answer
<1>7. ~ (w.eligibility /\ (k = lead + 1 \/ k = lead + 2))
  <2>1. w.eligibility => k > lead + 3
    BY DEF JourneyCases
  <2> HIDE DEF lead
  <2> QED
    BY <1>0, <2>1
<1>8. Due(w, k, answer.states)
  BY <1>1, <1>7 DEF Due
<1> QED
  BY <1>4, <1>6, <1>8 DEF IsAnswered, answer

\* What is true of every case of the plan, and of those that have pairs.
LEMMA PlanIsPlain ==
    ASSUME NEW w, NEW options, NEW plan, PlanForm(w, options, plan), NEW k \in DOMAIN plan
    PROVE  LET c == plan[k] IN
           /\ IsPlainCase(c, c.op, c.request, c.status, c.schema, c.pairs)
           /\ c.pairs # {} => options.pairwise /\ \E p \in ToSet(w.rows) : c = PairCase(p)
<1> DEFINE c == plan[k]
<1>1. PlanCase(w, options, k, c)
  BY DEF PlanForm
<1> HIDE DEF c
<1>2. ASSUME NEW op, NEW request, NEW status, NEW schema, c = Case(op, request, status, schema)
      PROVE  IsPlainCase(c, c.op, c.request, c.status, c.schema, c.pairs) /\ c.pairs = {}
  <2>1. IsPlainCase(c, op, request, status, schema, {})
    BY <1>2, CaseIsPlain
  <2> QED
    BY <2>1 DEF IsPlainCase
<1>3. CASE \E op, request, status, schema : c = Case(op, request, status, schema)
  BY <1>2, <1>3 DEF c
<1>4. CASE options.pairwise /\ \E p \in ToSet(w.rows) : c = PairCase(p)
  <2>1. PICK p \in ToSet(w.rows) : c = PairCase(p)
    BY <1>4
  <2>2. IsPlainCase(c, p.op, Sent(p), Success[p.op], <<p.op, Success[p.op]>>, p.ids)
    BY <2>1, PairCaseIsPlain
  <2> QED
    BY <1>4, <2>2 DEF IsPlainCase, c
<1>5. \/ \E op, request, status, schema : c = Case(op, request, status, schema)
      \/ options.pairwise /\ \E p \in ToSet(w.rows) : c = PairCase(p)
  BY <1>1, Zenon DEF PlanCase, Expected, Step, LastCase, Failing, Checked
<1> QED
  BY <1>3, <1>4, <1>5

\* Each case is answered as it expects, and leaves the states the next one is due in.
LEMMA PlannedIsAnswered ==
    ASSUME NEW w, Promising(w), NEW options, Suitable(w, options),
           NEW plan, PlanForm(w, options, plan), NEW k \in DOMAIN plan,
           NEW s, {Intermittent, Journey} \subseteq DOMAIN s, Due(w, k - 1, s)
    PROVE  IsAnswered(w, k, plan[k], s)
<1> DEFINE c == plan[k]
           lead == Len(LeadOf(w))
<1>1. PlanCase(w, options, k, c) /\ Lead(w, LeadOf(w))
  BY DEF PlanForm
<1>2. k \in Nat \ {0}
  <2>1. DOMAIN plan = 1..Len(plan) /\ Len(plan) \in Nat
    BY ListHasPlaces DEF PlanForm
  <2> QED
    BY <2>1
<1> HIDE DEF c
<1>3. CASE k <= lead /\ \E op, request, status, schema :
            /\ Plainly(w, request, status, schema)
            /\ c = Expected(w, k, op, request, status, schema)
  BY <1>1, <1>2, <1>3, LeadIsAnswered DEF c
<1>4. CASE w.eligibility /\ k = lead + 1 /\ c = Step(w, "begin", BeginRequest, 202)
  BY <1>1, <1>2, <1>4, JourneyIsAnswered DEF c
<1>5. CASE /\ w.eligibility /\ k \in {lead + 2, lead + 3}
           /\ c = Step(w, "get", Lookup(StatusPath), 200)
  BY <1>1, <1>2, <1>5, JourneyIsAnswered DEF c
<1>6. CASE k > lead + JourneyCases(w) /\ LastCase(w, options, c)
  BY <1>1, <1>2, <1>6, LastIsAnswered DEF c
<1> QED
  BY <1>1, <1>3, <1>4, <1>5, <1>6, Zenon DEF PlanCase

\* The pairs of a complete run are those its plan requires.
LEMMA PairsAreCovered ==
    ASSUME NEW w, Promising(w), PairsAreComplete(w), NEW options,
           NEW plan, PlanForm(w, options, plan),
           NEW results, DOMAIN results = DOMAIN plan,
           \A k \in DOMAIN results : results[k].passed
    PROVE  /\ CoveredPairs(plan, results) = RequiredPairs(w, plan)
           /\ IsFiniteSet(RequiredPairs(w, plan))
<1> DEFINE covered == CoveredPairs(plan, results)
           required == RequiredPairs(w, plan)
           places == {k \in DOMAIN plan : plan[k].pairs # {}}
<1>0. w \in Workspaces
  BY DEF Promising, Unconfigured
<1>1. /\ covered = UNION {plan[k].pairs : k \in DOMAIN plan}
      /\ required = UNION {w.totals[plan[k].op] : k \in places}
  BY DEF CoveredPairs, RequiredPairs
<1>2. ASSUME NEW k \in places
      PROVE  /\ options.pairwise
             /\ \E p \in ToSet(w.rows) : plan[k].op = p.op /\ plan[k].pairs = p.ids
  <2>1. PICK p \in ToSet(w.rows) : plan[k] = PairCase(p)
    BY PlanIsPlain
  <2>2. options.pairwise
    BY PlanIsPlain
  <2> QED
    BY <2>1, <2>2, PairCaseIsPlain DEF IsPlainCase
<1>3. \A p \in ToSet(w.rows) :
        p.ids # {} /\ p.ids \subseteq w.totals[p.op] /\ IsFiniteSet(w.totals[p.op])
  BY <1>0, CaseAssumption
<1>4. ASSUME options.pairwise, NEW p \in ToSet(w.rows)
      PROVE  \E k \in places : plan[k].op = p.op /\ plan[k].pairs = p.ids
  <2>1. PICK k \in DOMAIN plan : plan[k] = PairCase(p)
    BY <1>4 DEF PlanForm
  <2>2. plan[k].op = p.op /\ plan[k].pairs = p.ids
    BY <2>1, PairCaseIsPlain DEF IsPlainCase
  <2> QED
    BY <1>3, <2>2
<1> HIDE DEF covered, required
<1>5. ASSUME NEW x \in covered PROVE x \in required
  <2>1. PICK k \in DOMAIN plan : x \in plan[k].pairs
    BY <1>1
  <2>2. k \in places
    BY <2>1
  <2>3. PICK p \in ToSet(w.rows) : plan[k].op = p.op /\ plan[k].pairs = p.ids
    BY <1>2, <2>2
  <2>4. x \in w.totals[plan[k].op]
    BY <1>3, <2>1, <2>3
  <2> HIDE DEF places
  <2> QED
    BY <1>1, <2>2, <2>4
<1>6. ASSUME NEW x \in required PROVE x \in covered
  <2>1. PICK k \in places : x \in w.totals[plan[k].op]
    BY <1>1
  <2>2. PICK p \in ToSet(w.rows) : plan[k].op = p.op
    BY <1>2
  <2>3. x \in UNION {r.ids : r \in {q \in ToSet(w.rows) : q.op = p.op}}
    BY <2>1, <2>2 DEF PairsAreComplete
  <2>4. PICK q \in ToSet(w.rows) : x \in q.ids
    BY <2>3
  <2>5. options.pairwise
    BY <1>2
  <2>6. PICK i \in places : plan[i].op = q.op /\ plan[i].pairs = q.ids
    BY <1>4, <2>5
  <2> QED
    BY <1>1, <2>4, <2>6
<1>7. IsFiniteSet(required)
  <2>1. places \subseteq DOMAIN plan /\ IsFiniteSet(places)
    <3>1. DOMAIN plan = 1..Len(plan) /\ Len(plan) \in Nat
      BY ListHasPlaces DEF PlanForm
    <3>2. IsFiniteSet(1..Len(plan))
      BY <3>1, FS_Interval
    <3> QED
      BY <3>1, <3>2, FS_Subset
  <2> DEFINE f == [k \in places |-> w.totals[plan[k].op]]
             sets == {f[k] : k \in places}
  <2>2. ASSUME NEW T \in sets PROVE IsFiniteSet(T)
    <3>1. PICK k \in places : T = w.totals[plan[k].op]
      OBVIOUS
    <3>2. PICK p \in ToSet(w.rows) : plan[k].op = p.op
      BY <1>2
    <3>3. IsFiniteSet(w.totals[p.op])
      BY <1>3
    <3> HIDE DEF sets
    <3> QED
      BY <3>1, <3>2, <3>3
  <2>3. required = UNION sets
    BY <1>1
  <2>4. IsFiniteSet(sets)
    <3> HIDE DEF f, places
    <3> QED
      BY <2>1, ImageIsNotLarger
  <2> HIDE DEF sets
  <2> QED
    BY <2>2, <2>3, <2>4, FS_UNION
<1>8. covered = required
  BY <1>5, <1>6
<1> QED
  BY <1>7, <1>8 DEF covered, required

\* A run whose cases all passed passes.
LEMMA EverythingPasses ==
    ASSUME NEW w, Promising(w), PairsAreComplete(w), NEW options,
           NEW plan, PlanForm(w, options, plan),
           NEW results, DOMAIN results = DOMAIN plan,
           \A k \in DOMAIN results : results[k].passed, NEW missed, ~ missed
    PROVE  Passes(w, plan, results, missed)
<1>1. DOMAIN w.scenarios = {} /\ Resolution \in Nat
  BY WorkspaceAssumption DEF Promising, Unconfigured
<1>2. AllStates(w) = {} /\ AllTransitions(w) = {}
  BY <1>1 DEF AllStates, AllTransitions
<1>3. PassedOf(plan, results) = {}
  <2>1. \A k \in DOMAIN plan : plan[k].scenario = "none"
    BY PlanIsPlain DEF IsPlainCase
  <2> QED
    BY <2>1 DEF PassedOf
<1>4. Cardinality({}) = 0 /\ Complete(0, 0)
  BY <1>1, FS_EmptySet DEF Complete
<1>5. /\ Complete(Cardinality(CoveredStates(plan, results) \cap AllStates(w)),
                  Cardinality(AllStates(w)))
      /\ Complete(Cardinality(CoveredTransitions(plan, results) \cap AllTransitions(w)),
                  Cardinality(AllTransitions(w)))
  <2> DEFINE a == CoveredStates(plan, results)
             b == CoveredTransitions(plan, results)
  <2> HIDE DEF a, b
  <2>1. a \cap {} = {} /\ b \cap {} = {}
    OBVIOUS
  <2> QED
    BY <1>2, <1>4, <2>1 DEF a, b
<1>6. Complete(Cardinality(CoveredPairs(plan, results)), Cardinality(RequiredPairs(w, plan)))
  <2> DEFINE n == Cardinality(RequiredPairs(w, plan))
  <2>1. CoveredPairs(plan, results) = RequiredPairs(w, plan) /\ n \in Nat
    BY PairsAreCovered, FS_CardinalityType
  <2> HIDE DEF n
  <2>2. Complete(n, n)
    <3>1. 2 * Resolution * n \in Nat /\ n \in Nat
      BY <1>1, <2>1
    <3> DEFINE x == 2 * Resolution * n
    <3> HIDE DEF x
    <3>2. x + n >= x
      BY <3>1 DEF x
    <3> QED
      BY <3>2 DEF Complete, x
  <2> QED
    BY <2>1, <2>2 DEF n
<1> QED
  BY <1>5, <1>6 DEF Passes

-----------------------------------------------------------------------------
(* The run of a workspace without configured scenarios.                    *)

\* A run of which GeneratedCasesPass speaks.
Vouched ==
    /\ run.phase # "idle" /\ run.options.reset /\ ~ run.disturbed
    /\ Promising(workspace) /\ Suitable(workspace, run.options)

\* Every case so far passed, and the states are those the next one is due in.
CasesPass ==
    Vouched =>
        /\ ~ unmatched
        /\ \A k \in DOMAIN run.results : run.results[k].passed
        /\ run.phase = "next" => Due(workspace, Len(run.results), states)
        /\ run.phase = "sent" =>
            /\ run.status = CurrentCase.status /\ Fits(CurrentCase.schema, run.says)
            /\ run.before = "none"
            /\ Due(workspace, Len(run.results) + 1, states)

\* The inductive invariant of these runs.
GeneratedInv == EvidenceInv /\ CasesPass /\ GeneratedCasesPass

\* The case under way, and the form of its plan.
LEMMA CurrentIsPlanned ==
    ASSUME EvidenceInv, Vouched, Len(run.results) < Len(run.plan)
    PROVE  LET n == Len(run.results) IN
           /\ PlanForm(workspace, run.options, run.plan)
           /\ n \in Nat /\ n + 1 \in DOMAIN run.plan /\ (n + 1) - 1 = n
           /\ CurrentCase = run.plan[n + 1]
           /\ IsPlainCase(CurrentCase, CurrentCase.op, CurrentCase.request, CurrentCase.status,
                          CurrentCase.schema, CurrentCase.pairs)
<1>1. run.plan = Plan(workspace, run.options) /\ Listed(run.results)
  BY DEF EvidenceInv, PlanStands, Vouched
<1>2. PlanForm(workspace, run.options, run.plan)
  BY <1>1, PlanHasForm DEF Vouched
<1>3. /\ Len(run.results) \in Nat /\ Len(run.plan) \in Nat /\ DOMAIN run.plan = 1..Len(run.plan)
  BY <1>1, <1>2, ListHasPlaces DEF PlanForm
<1> DEFINE n == Len(run.results)
           m == Len(run.plan)
<1>4. n \in Nat /\ n + 1 \in DOMAIN run.plan /\ (n + 1) - 1 = n
  <2>1. n \in Nat /\ m \in Nat /\ n < m /\ DOMAIN run.plan = 1..m
    BY <1>3
  <2> HIDE DEF n, m
  <2> QED
    BY <2>1
<1>5. CurrentCase = run.plan[n + 1]
  BY DEF CurrentCase
<1> HIDE DEF n
<1>6. IsPlainCase(CurrentCase, CurrentCase.op, CurrentCase.request, CurrentCase.status,
                  CurrentCase.schema, CurrentCase.pairs)
  BY <1>2, <1>4, <1>5, PlanIsPlain
<1> QED
  BY <1>2, <1>4, <1>5, <1>6 DEF n

\* Nothing runs and nothing is reported at first.
LEMMA InitGeneratedInv == EvidenceInit => GeneratedInv
<1> SUFFICES ASSUME EvidenceInit PROVE GeneratedInv
  OBVIOUS
<1>1. EvidenceInv
  BY InitEvidenceInv
<1>2. run = NoRun /\ report = NoReport
  BY DEF EvidenceInit
<1>3. run.phase = "idle" /\ report.options.reset = FALSE
  BY <1>2 DEF NoRun, NoReport
<1> QED
  BY <1>1, <1>3 DEF GeneratedInv, CasesPass, Vouched, GeneratedCasesPass

\* A run that resets the runtime begins in the states its first case is due in.
LEMMA StartIsDue ==
    ASSUME GeneratedInv, NEW options \in Options, StartRun(options)
    PROVE  CasesPass' /\ GeneratedCasesPass'
<1>1. /\ run' = Planned(options) /\ UNCHANGED <<workspace, report>>
      /\ options.reset => states' = [n \in ScenarioNames |-> "Started"] /\ ~ unmatched'
  BY DEF StartRun
<1>2. GeneratedCasesPass'
  BY <1>1 DEF GeneratedInv, GeneratedCasesPass
<1>3. CASE ~ PlanFits(workspace)
  <2>1. run'.phase = "idle"
    BY <1>1, <1>3 DEF Planned, NoRun
  <2> QED
    BY <1>2, <2>1 DEF CasesPass, Vouched
<1>4. CASE PlanFits(workspace)
  <2> DEFINE plan == Plan(workspace, options)
  <2>1. run' = [NoRun EXCEPT !.phase = "next", !.options = options, !.plan = plan]
    BY <1>1, <1>4 DEF Planned
  <2> HIDE DEF plan
  <2>2. run'.phase = "next" /\ run'.options = options /\ run'.results = <<>>
    BY <2>1 DEF NoRun
  <2>3. Len(<<>>) = 0 /\ DOMAIN <<>> = {}
    OBVIOUS
  <2>4. ASSUME options.reset, Promising(workspace) PROVE Due(workspace, 0, states')
    <3>1. Even(0)
      <4>1. 0 \in Nat
        OBVIOUS
      <4> QED
        BY <4>1, EvenTurns
    <3>2. states'[Intermittent] = "Started"
      <4>1. Intermittent \in ScenarioNames
        BY DEF ScenarioNames
      <4> QED
        BY <1>1, <2>4, <4>1
    <3> DEFINE lead == Len(LeadOf(workspace))
    <3>3. lead \in Nat
      BY <2>4, LeadLeads, ListHasPlaces DEF Lead
    <3> HIDE DEF lead
    <3>4. 0 # lead + 1 /\ 0 # lead + 2
      BY <3>3
    <3> QED
      BY <3>1, <3>2, <3>4 DEF Due, lead
  <2>5. /\ (options.reset => ~ unmatched')
        /\ workspace' = workspace
    BY <1>1
  <2>6. CasesPass'
    <3>1. ASSUME Vouched'
          PROVE  /\ ~ unmatched'
                 /\ \A k \in DOMAIN run'.results : run'.results[k].passed
                 /\ Due(workspace', Len(run'.results), states')
      <4>1. options.reset /\ Promising(workspace)
        BY <2>2, <2>5, <3>1 DEF Vouched
      <4> QED
        BY <2>2, <2>3, <2>4, <2>5, <4>1
    <3>2. run'.phase # "sent"
      BY <2>2
    <3> QED
      BY <3>1, <3>2 DEF CasesPass
  <2> QED
    BY <1>2, <2>6
<1> QED
  BY <1>3, <1>4

\* A client disturbs a run.
LEMMA ClientDisturbs ==
    ASSUME GeneratedInv, NEW request \in Requests, ClientRequest(request)
    PROVE  CasesPass' /\ GeneratedCasesPass'
<1>1. /\ run' = IF run.phase = "idle" THEN run ELSE [run EXCEPT !.disturbed = TRUE]
      /\ UNCHANGED <<workspace, report>>
  BY DEF ClientRequest
<1>2. GeneratedCasesPass'
  BY <1>1 DEF GeneratedInv, GeneratedCasesPass
<1>3. run'.phase = "idle" \/ run'.disturbed
  <2>1. DOMAIN run = DOMAIN NoRun
    BY DEF GeneratedInv, EvidenceInv, PlanStands
  <2> QED
    BY <1>1, <2>1 DEF NoRun
<1> QED
  BY <1>2, <1>3 DEF CasesPass, Vouched

\* A case is sent in the states it is due in.
LEMMA SentIsAnswered ==
    ASSUME GeneratedInv, SendCase
    PROVE  CasesPass' /\ GeneratedCasesPass'
<1> DEFINE c == CurrentCase
           n == Len(run.results)
           at == IF c.reset
                 THEN [states EXCEPT ![c.scenario] = workspace.scenarios[c.scenario].initial]
                 ELSE states
           answer == Execute(deployed, at, c.request)
           before == IF c.scenario = "none" THEN "none" ELSE at[c.scenario]
           status == answer.status
           says == answer.says
<1>1. /\ run.phase = "next" /\ Len(run.results) < Len(run.plan)
      /\ states' = answer.states
      /\ unmatched' = (unmatched \/ ~ answer.matched)
      /\ run' = [run EXCEPT !.phase = "sent", !.status = status, !.says = says,
                             !.before = before]
      /\ UNCHANGED <<workspace, deployed, report>>
  BY DEF SendCase
<1>2. GeneratedCasesPass'
  BY <1>1 DEF GeneratedInv, GeneratedCasesPass
<1>3. /\ EvidenceInv /\ DOMAIN run = DOMAIN NoRun /\ deployed = Mappings(workspace)
      /\ states \in [ScenarioNames -> Conditions]
  BY DEF GeneratedInv, EvidenceInv, PlanStands, Settled
<1> HIDE DEF status, says, before
<1>4. /\ run'.phase = "sent" /\ run'.status = status /\ run'.says = says
      /\ run'.before = before /\ run'.plan = run.plan /\ run'.results = run.results
      /\ run'.options = run.options /\ run'.disturbed = run.disturbed
  BY <1>1, <1>3 DEF NoRun
<1>5. CurrentCase' = c
  BY <1>4 DEF CurrentCase
<1>6. ASSUME Vouched'
      PROVE  /\ ~ unmatched' /\ \A k \in DOMAIN run'.results : run'.results[k].passed
             /\ run'.status = CurrentCase'.status /\ Fits(CurrentCase'.schema, run'.says)
             /\ run'.before = "none"
             /\ Due(workspace', Len(run'.results) + 1, states')
  <2>1. Vouched
    BY <1>1, <1>4, <1>6 DEF Vouched
  <2>2. /\ ~ unmatched /\ \A k \in DOMAIN run.results : run.results[k].passed
        /\ Due(workspace, n, states)
    BY <1>1, <2>1 DEF GeneratedInv, CasesPass
  <2>3. /\ PlanForm(workspace, run.options, run.plan)
        /\ n + 1 \in DOMAIN run.plan /\ (n + 1) - 1 = n /\ c = run.plan[n + 1]
        /\ IsPlainCase(c, c.op, c.request, c.status, c.schema, c.pairs)
    BY <1>1, <1>3, <2>1, CurrentIsPlanned
  <2>4. at = states /\ before = "none"
    BY <2>3 DEF IsPlainCase, before
  <2>5. {Intermittent, Journey} \subseteq DOMAIN states
    BY <1>3 DEF ScenarioNames
  <2> DEFINE k == n + 1
  <2>6. Promising(workspace) /\ Suitable(workspace, run.options)
    BY <2>1 DEF Vouched
  <2>7. IsAnswered(workspace, k, c, states)
    <3>1. k \in DOMAIN run.plan /\ Due(workspace, k - 1, states) /\ c = run.plan[k]
      BY <2>2, <2>3
    <3> HIDE DEF k, c
    <3> QED
      BY <2>3, <2>5, <2>6, <3>1, PlannedIsAnswered
  <2> HIDE DEF k, c
  <2>8. /\ answer.status = c.status /\ Fits(c.schema, answer.says)
        /\ answer.matched /\ Due(workspace, k, answer.states)
    BY <1>3, <2>4, <2>7 DEF IsAnswered
  <2> HIDE DEF answer
  <2>9. ~ unmatched'
    BY <1>1, <2>2, <2>8
  <2> QED
    BY <1>1, <1>4, <1>5, <2>2, <2>4, <2>8, <2>9 DEF k, status, says
<1>7. run'.phase # "next"
  BY <1>4
<1>8. CasesPass'
  BY <1>6, <1>7 DEF CasesPass
<1> QED
  BY <1>2, <1>8

\* And passes.
LEMMA ObservedPasses ==
    ASSUME GeneratedInv, ObserveCase
    PROVE  CasesPass' /\ GeneratedCasesPass'
<1> DEFINE c == CurrentCase
           after == IF c.scenario = "none" THEN "none" ELSE states[c.scenario]
           passed == /\ run.status = c.status
                     /\ c.schema = NoSchema \/ <<run.says, c.schema>> \in Conforming
                     /\ run.before = c.required
                     /\ after = IF c.next = Stay THEN c.required ELSE c.next
           r == [passed |-> passed, before |-> run.before, after |-> after]
           old == run.results
           results == Append(old, r)
           n == Len(old)
<1>1. /\ run.phase = "sent"
      /\ run' = [run EXCEPT !.phase = "next", !.results = results]
      /\ UNCHANGED <<workspace, deployed, states, unmatched, report>>
  BY DEF ObserveCase
<1>2. GeneratedCasesPass'
  BY <1>1 DEF GeneratedInv, GeneratedCasesPass
<1>3. /\ EvidenceInv /\ DOMAIN run = DOMAIN NoRun /\ Listed(old)
      /\ Len(run.results) < Len(run.plan)
  BY <1>1 DEF GeneratedInv, EvidenceInv, PlanStands
<1> HIDE DEF results
<1>4. /\ run'.phase = "next" /\ run'.results = results /\ run'.plan = run.plan
      /\ run'.options = run.options /\ run'.disturbed = run.disturbed
  BY <1>1, <1>3 DEF NoRun
<1>5. ASSUME Vouched'
      PROVE  /\ ~ unmatched' /\ \A k \in DOMAIN run'.results : run'.results[k].passed
             /\ Due(workspace', Len(run'.results), states')
  <2>1. Vouched
    BY <1>1, <1>4, <1>5 DEF Vouched
  <2>2. /\ ~ unmatched /\ \A k \in DOMAIN old : old[k].passed
        /\ run.status = c.status /\ Fits(c.schema, run.says) /\ run.before = "none"
        /\ Due(workspace, n + 1, states)
    BY <1>1, <2>1 DEF GeneratedInv, CasesPass
  <2>3. IsPlainCase(c, c.op, c.request, c.status, c.schema, c.pairs)
    BY <1>3, <2>1, CurrentIsPlanned
  <2>4. passed
    BY <2>2, <2>3 DEF IsPlainCase, Fits
  <2>5. r.passed
    BY <2>4
  <2> HIDE DEF r, old
  <2>6. Len(results) = n + 1 /\ \A k \in DOMAIN results : results[k].passed
    <3> DEFINE S == ToSet(old) \cup {r}
    <3>1. old \in Seq(S) /\ r \in S
      <4>1. old \in Seq(ToSet(old))
        BY <1>3 DEF Listed
      <4> QED
        BY <4>1
    <3> HIDE DEF S
    <3>2. /\ Len(results) = n + 1 /\ n \in Nat /\ DOMAIN results = 1..(n + 1)
          /\ DOMAIN old = 1..n /\ \A k \in 1..n : results[k] = old[k]
          /\ results[n + 1] = r
      BY <3>1 DEF results
    <3> HIDE DEF n
    <3>3. ASSUME NEW k \in DOMAIN results PROVE results[k].passed
      <4>1. k \in 1..n \/ k = n + 1
        BY <3>2
      <4> QED
        BY <2>2, <2>5, <3>2, <4>1
    <3> QED
      BY <3>2, <3>3
  <2> QED
    BY <1>1, <1>4, <2>2, <2>6
<1>6. run'.phase # "sent"
  BY <1>4
<1>7. CasesPass'
  BY <1>5, <1>6 DEF CasesPass
<1> QED
  BY <1>2, <1>7

\* A run whose cases passed reports that it passed.
LEMMA ReportedPasses ==
    ASSUME GeneratedInv, Report
    PROVE  CasesPass' /\ GeneratedCasesPass'
<1> DEFINE passes == Passes(workspace, run.plan, run.results, unmatched)
<1>1. /\ run.phase = "next" /\ Len(run.results) = Len(run.plan)
      /\ report' = [options |-> run.options, disturbed |-> run.disturbed, passed |-> passes]
      /\ run' = NoRun /\ workspace' = workspace
  BY DEF Report
<1> HIDE DEF passes
<1>2. CasesPass'
  <2>1. run'.phase = "idle"
    BY <1>1 DEF NoRun
  <2> QED
    BY <2>1 DEF CasesPass, Vouched
<1>3. /\ report'.options = run.options /\ report'.disturbed = run.disturbed
      /\ report'.passed = passes
  BY <1>1
<1>4. ASSUME /\ run.options.reset /\ ~ run.disturbed
             /\ DOMAIN workspace.scenarios = {}
             /\ workspace.eligibility => workspace.dataset # <<>>
             /\ AllCompiled(workspace, run.options)
             /\ PathsAreApart(workspace) /\ SamplesConform(workspace)
             /\ NegativesStandOut(workspace) /\ JourneyIsDocumented(workspace)
             /\ PairsAreComplete(workspace)
             /\ \/ workspace.profile \in {"normal", "slow"}
                \/ Polarities(run.options) = {} /\ ~ run.options.pairwise
      PROVE  passes
  <2>1. workspace \in Workspaces
    BY DEF GeneratedInv, EvidenceInv, Settled
  <2>2. Promising(workspace) /\ Suitable(workspace, run.options) /\ Vouched
    BY <1>1, <1>4, <2>1 DEF Promising, Unconfigured, Suitable, Vouched
  <2>3. ~ unmatched /\ \A k \in DOMAIN run.results : run.results[k].passed
    BY <2>2 DEF GeneratedInv, CasesPass
  <2>4. run.plan = Plan(workspace, run.options) /\ Listed(run.results)
    BY <1>1 DEF GeneratedInv, EvidenceInv, PlanStands
  <2>5. PlanForm(workspace, run.options, run.plan)
    BY <2>2, <2>4, PlanHasForm
  <2>6. DOMAIN run.results = DOMAIN run.plan
    <3>1. Listed(run.plan)
      BY <2>5 DEF PlanForm
    <3> QED
      BY <1>1, <2>4, <3>1, ListHasPlaces
  <2>7. Passes(workspace, run.plan, run.results, unmatched)
    BY <1>4, <2>2, <2>3, <2>5, <2>6, EverythingPasses
  <2> QED
    BY <2>7 DEF passes
<1>5. GeneratedCasesPass'
  BY <1>1, <1>3, <1>4 DEF GeneratedCasesPass
<1> QED
  BY <1>2, <1>5

\* Every step keeps the invariant.
LEMMA NextGeneratedInv == GeneratedInv /\ [EvidenceNext]_evidenceVars => GeneratedInv'
<1> SUFFICES ASSUME GeneratedInv, [EvidenceNext]_evidenceVars PROVE GeneratedInv'
  OBVIOUS
<1>0. EvidenceInv'
  BY NextEvidenceInv DEF GeneratedInv
<1>1. CASE \E request \in Requests : ClientRequest(request)
  BY <1>0, <1>1, ClientDisturbs DEF GeneratedInv
<1>2. CASE \E options \in Options : StartRun(options)
  BY <1>0, <1>2, StartIsDue DEF GeneratedInv
<1>3. CASE SendCase
  BY <1>0, <1>3, SentIsAnswered DEF GeneratedInv
<1>4. CASE ObserveCase
  BY <1>0, <1>4, ObservedPasses DEF GeneratedInv
<1>5. CASE Report
  BY <1>0, <1>5, ReportedPasses DEF GeneratedInv
<1>6. CASE UNCHANGED evidenceVars
  BY <1>0, <1>6 DEF evidenceVars, GeneratedInv, CasesPass, Vouched, CurrentCase,
                   GeneratedCasesPass
<1> QED
  BY <1>1, <1>2, <1>3, <1>4, <1>5, <1>6 DEF EvidenceNext

\* For any workspaces and any caps: under the conditions that GeneratedCasesPass names -
\* templates that do not overlap and samples that conform to their schemas among them -
\* what is generated from a contract validates against itself, in every profile, whatever
\* clients and other runs did before.
THEOREM GeneratedAlwaysPass == EvidenceSpec => []GeneratedCasesPass
<1>1. GeneratedInv => GeneratedCasesPass
  BY DEF GeneratedInv
<1> QED
  BY <1>1, InitGeneratedInv, NextGeneratedInv, PTL DEF EvidenceSpec
=============================================================================
