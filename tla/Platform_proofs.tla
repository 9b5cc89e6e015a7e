--------------------------- MODULE Platform_proofs ---------------------------
(***************************************************************************)
(* What the parts around the simulations guarantee.  Memberships,          *)
(* Integrations and AuditLog: for any members, concurrent requests,        *)
(* overlapping deliveries, thresholds and cooldowns, and any numbers of    *)
(* audit objects, appends and outages.  WorkspaceFiles: for any number of  *)
(* requests that create, change, back up and restore at once, a simulation *)
(* that is listed has its contract, whole, because whoever writes both     *)
(* writes the contract first and nobody else writes it then; and a restore *)
(* checks every file before it writes one, so that a refusal leaves        *)
(* nothing behind.                                                         *)
(***************************************************************************)
EXTENDS Memberships, Integrations, AuditLog, WorkspaceFiles, FiniteSetTheorems,
        SequenceTheorems, TLAPS

-----------------------------------------------------------------------------
(* The members.  The count of the admins and a removal are one             *)
(* transaction.                                                            *)

\* The initial state is well typed.
LEMMA InitTypeOK == Init => TypeOK
  BY DEF Init, TypeOK, Roles

\* Every step keeps the types.
LEMMA NextTypeOK == TypeOK /\ [Next]_vars => TypeOK'
<1> SUFFICES ASSUME TypeOK, [Next]_vars PROVE TypeOK'
  OBVIOUS
<1>1. ASSUME NEW t \in Threads, NEW asked \in Request, Authorize(t, asked) PROVE TypeOK'
  BY <1>1 DEF Authorize, TypeOK
<1>2. ASSUME NEW t \in Threads, request[t] # NoRequest, Done(t),
             \E new \in Roles \cup {"none"} : role' \in {role, [role EXCEPT ![request[t].subject] = new]}
      PROVE  TypeOK'
  BY <1>2 DEF Done, TypeOK
<1>3. ASSUME NEW t \in Threads, SetMember(t) PROVE TypeOK'
  <2>1. request[t].new \in Roles \cup {"none"}
    BY <1>3 DEF SetMember, TypeOK, Request
  <2> QED
    BY <1>2, <1>3, <2>1 DEF SetMember
<1>4. ASSUME NEW t \in Threads, RemoveMember(t) PROVE TypeOK'
  BY <1>2, <1>4 DEF RemoveMember
<1>5. CASE UNCHANGED vars
  BY <1>5 DEF vars, TypeOK
<1> QED
  BY <1>1, <1>3, <1>4, <1>5 DEF Next

\* Every variable keeps its type.
THEOREM MembershipsTypeCorrect == Spec => []TypeOK
  BY InitTypeOK, NextTypeOK, PTL DEF Spec

\* The transaction of remove_member() finds another admin before it removes one.
LEMMA RemovalFindsAnother ==
    ASSUME TypeOK, NEW t \in Threads, RemoveMember(t),
           NEW s \in Subjects, role[s] = "admin", role'[s] = "none"
    PROVE  Admins' # {}
<1>1. s = request[t].subject /\ role' = [role EXCEPT ![s] = "none"] /\ Cardinality(Admins) # 1
  BY DEF RemoveMember, TypeOK
<1>2. s \in Admins /\ Admins # {s}
  <2>1. Cardinality({s}) = 1
    BY FS_Singleton
  <2> QED
    BY <1>1, <2>1 DEF Admins
<1>3. PICK other \in Admins : other # s
  BY <1>2
<1> QED
  BY <1>1, <1>3 DEF Admins, TypeOK

\* However many requests remove admins at the same time, one admin is left.
THEOREM RemovalsAlwaysKeepAnAdmin == Spec => RemovalsKeepAnAdmin
<1> DEFINE Kept == \A s \in Subjects : role[s] = "admin" /\ role'[s] = "none" => Admins' # {}
<1>1. TypeOK /\ [Next]_vars => [Kept]_vars
  <2> SUFFICES ASSUME TypeOK, Next, NEW s \in Subjects, role[s] = "admin", role'[s] = "none"
               PROVE  Admins' # {}
    OBVIOUS
  <2>1. ASSUME NEW t \in Threads, NEW asked \in Request, Authorize(t, asked) PROVE FALSE
    BY <2>1 DEF Authorize
  <2>2. ASSUME NEW t \in Threads, SetMember(t) PROVE FALSE
    BY <2>2 DEF SetMember, TypeOK
  <2>3. ASSUME NEW t \in Threads, RemoveMember(t) PROVE Admins' # {}
    BY <2>3, RemovalFindsAnother
  <2> QED
    BY <2>1, <2>2, <2>3 DEF Next
<1>2. TypeOK /\ [Next]_vars => TypeOK'
  BY NextTypeOK
<1> QED
  BY <1>1, <1>2, InitTypeOK, PTL DEF Spec, RemovalsKeepAnAdmin

-----------------------------------------------------------------------------
(* The integrations.  Their inductive invariant: the circuit is open       *)
(* exactly when the recorded failures say so, and every delivery under way *)
(* began before it opened.                                                 *)

\* The record of a delivery that is under way.
UnderWay ==
    [at : {"attempt", "settle"}, attempts : 0..MaxAttempts, failed : BOOLEAN,
     key : Values \cup {DefaultKey}, seen : Nat, early : BOOLEAN]

\* A delivery that is about to post has an attempt left.
AttemptsAreLeft ==
    \A d \in Deliveries : delivery[d].at = "attempt" => delivery[d].attempts < MaxAttempts

\* Every delivery under way began while the circuit was closed.
AllAreEarly == \A d \in Deliveries : delivery[d].at # "none" => delivery[d].early

\* The row of the circuit is what the failures since the last success make of it.
CircuitIsOfFailures ==
    circuit = [failures  |-> failing,
               openUntil |-> IF failing >= Threshold THEN lastFailure + Cooldown ELSE 0]

IntegrationInv == IntegrationTypeOK /\ AttemptsAreLeft /\ AllAreEarly /\ CircuitIsOfFailures

-----------------------------------------------------------------------------
\* A delivery that is at a step of its work has a whole record.
LEMMA AtWork ==
    ASSUME IntegrationTypeOK, NEW d \in Deliveries, delivery[d].at \in {"attempt", "settle"}
    PROVE  delivery[d] \in UnderWay
  BY DEF IntegrationTypeOK, UnderWay, NoDelivery

\* What happens to one delivery leaves the others as they were.
LEMMA OneMoves ==
    ASSUME IntegrationInv, NEW d \in Deliveries, NEW new,
           delivery' = [delivery EXCEPT ![d] = new],
           \/ new = NoDelivery
           \/ /\ new \in UnderWay
              /\ new.early
              /\ new.at = "attempt" => new.attempts < MaxAttempts
    PROVE  /\ delivery' \in [Deliveries -> {NoDelivery} \cup UnderWay]
           /\ AttemptsAreLeft'
           /\ AllAreEarly'
<1>1. delivery \in [Deliveries -> {NoDelivery} \cup UnderWay]
  BY DEF IntegrationInv, IntegrationTypeOK, UnderWay
<1>2. delivery' \in [Deliveries -> {NoDelivery} \cup UnderWay]
  BY <1>1
<1>3. \A e \in Deliveries : delivery'[e] = IF e = d THEN new ELSE delivery[e]
  BY <1>1
<1>4. AttemptsAreLeft'
  BY <1>3 DEF IntegrationInv, AttemptsAreLeft, NoDelivery
<1>5. AllAreEarly'
  BY <1>3 DEF IntegrationInv, AllAreEarly, NoDelivery
<1> QED
  BY <1>2, <1>4, <1>5

\* The initial state satisfies every conjunct.
LEMMA InitIntegrationInv == IntegrationInit => IntegrationInv
  BY IntegrationAssumption DEF IntegrationInit, IntegrationInv, IntegrationTypeOK, AttemptsAreLeft, AllAreEarly,
     CircuitIsOfFailures, Closed, NoDelivery

\* Every step keeps every conjunct.
LEMMA NextIntegrationInv == IntegrationInv /\ [IntegrationNext]_integrationVars => IntegrationInv'
<1> SUFFICES ASSUME IntegrationInv, [IntegrationNext]_integrationVars PROVE IntegrationInv'
  OBVIOUS
<1>0. IntegrationTypeOK
  BY DEF IntegrationInv
<1>1. ASSUME UNCHANGED <<circuit, delivery, failing, lastFailure>>, IntegrationTypeOK' PROVE IntegrationInv'
  BY <1>1 DEF IntegrationInv, AttemptsAreLeft, AllAreEarly, CircuitIsOfFailures
<1>2. ASSUME NEW reference \in {"default", "secret"}, CreateIntegration(reference) PROVE IntegrationInv'
  BY <1>0, <1>1, <1>2 DEF CreateIntegration, IntegrationTypeOK
<1>3. CASE DeleteIntegration
  BY <1>0, <1>1, <1>3 DEF DeleteIntegration, IntegrationTypeOK
<1>4. ASSUME NEW value \in Values, PutSecret(value) PROVE IntegrationInv'
  BY <1>0, <1>1, <1>4 DEF PutSecret, IntegrationTypeOK
<1>5. CASE DeleteSecret
  BY <1>0, <1>1, <1>5 DEF DeleteSecret, IntegrationTypeOK
<1>6. CASE Tick
  BY <1>0, <1>1, <1>6 DEF Tick, IntegrationTypeOK
<1>7. CASE UNCHANGED integrationVars
  BY <1>0, <1>1, <1>7 DEF integrationVars, IntegrationTypeOK
<1>8. ASSUME NEW d \in Deliveries, BeginDispatch(d) PROVE IntegrationInv'
  <2> DEFINE new == [at |-> "attempt", attempts |-> 0, failed |-> FALSE,
                     key |-> IF integration = "secret" THEN secret ELSE DefaultKey,
                     seen |-> circuit.failures, early |-> ~ Paused]
  <2>1. delivery' = [delivery EXCEPT ![d] = new]
    BY <1>8 DEF BeginDispatch
  <2>2. secret \in Values \/ integration # "secret"
    BY <1>0, <1>8 DEF BeginDispatch, IntegrationTypeOK
  <2>3. new \in UnderWay
    BY <1>0, <2>2, IntegrationAssumption DEF IntegrationTypeOK, UnderWay
  <2>4. new.early /\ new.attempts < MaxAttempts
    <3>1. new.attempts = 0 /\ 0 < MaxAttempts
      BY IntegrationAssumption
    <3>2. new.early = ~ Paused
      BY Zenon
    <3>3. ~ Paused
      BY <1>8 DEF BeginDispatch
    <3> QED
      BY <3>1, <3>2, <3>3, Zenon
  <2> HIDE DEF new
  <2>5. /\ delivery' \in [Deliveries -> {NoDelivery} \cup UnderWay]
        /\ AttemptsAreLeft' /\ AllAreEarly'
    BY <2>1, <2>3, <2>4, OneMoves
  <2> QED
    BY <1>0, <1>8, <2>5 DEF BeginDispatch, IntegrationInv, IntegrationTypeOK, UnderWay, CircuitIsOfFailures
<1>9. ASSUME NEW d \in Deliveries, NEW transient \in BOOLEAN, Attempt(d, transient) PROVE IntegrationInv'
  <2> DEFINE tried == delivery[d].attempts + 1
             new == [delivery[d] EXCEPT
                        !.attempts = tried, !.failed = transient,
                        !.at = IF transient /\ tried < MaxAttempts THEN "attempt" ELSE "settle"]
  <2>1. delivery' = [delivery EXCEPT ![d] = new]
    BY <1>9 DEF Attempt
  <2>2. delivery[d] \in UnderWay /\ delivery[d].attempts < MaxAttempts /\ delivery[d].early
    BY <1>0, <1>9, AtWork DEF Attempt, IntegrationInv, AttemptsAreLeft, AllAreEarly
  <2>3. new \in UnderWay
    <3> DEFINE label == IF transient /\ tried < MaxAttempts THEN "attempt" ELSE "settle"
    <3>1. tried \in 0..MaxAttempts /\ label \in {"attempt", "settle"}
      BY <2>2, IntegrationAssumption DEF UnderWay
    <3>2. new = [delivery[d] EXCEPT !.attempts = tried, !.failed = transient, !.at = label]
      OBVIOUS
    <3> HIDE DEF tried, label, new
    <3> QED
      BY <2>2, <3>1, <3>2 DEF UnderWay
  <2>4. new.early /\ (new.at = "attempt" => new.attempts < MaxAttempts)
    BY <2>2 DEF UnderWay
  <2> HIDE DEF new
  <2>5. /\ delivery' \in [Deliveries -> {NoDelivery} \cup UnderWay]
        /\ AttemptsAreLeft' /\ AllAreEarly'
    BY <2>1, <2>3, <2>4, OneMoves
  <2> QED
    BY <1>0, <1>9, <2>5 DEF Attempt, IntegrationInv, IntegrationTypeOK, UnderWay, CircuitIsOfFailures
<1>10. ASSUME NEW d \in Deliveries, RecordFailure(d) PROVE IntegrationInv'
  <2>1. /\ delivery' \in [Deliveries -> {NoDelivery} \cup UnderWay]
        /\ AttemptsAreLeft' /\ AllAreEarly'
    BY <1>10, OneMoves DEF RecordFailure
  <2>2. circuit' = [failures |-> failing + 1,
                    openUntil |-> IF failing + 1 >= Threshold THEN time + Cooldown ELSE 0]
    BY <1>10 DEF RecordFailure, Opened, IntegrationInv, CircuitIsOfFailures
  <2>3. CircuitIsOfFailures'
    BY <1>10, <2>2 DEF RecordFailure, CircuitIsOfFailures
  <2>4. circuit' \in [failures : Nat, openUntil : Nat]
    BY <1>0, <2>2, IntegrationAssumption DEF IntegrationTypeOK
  <2> QED
    BY <1>0, <1>10, <2>1, <2>3, <2>4 DEF RecordFailure, IntegrationInv, IntegrationTypeOK, UnderWay
<1>11. ASSUME NEW d \in Deliveries, ClearCircuit(d) PROVE IntegrationInv'
  <2>1. /\ delivery' \in [Deliveries -> {NoDelivery} \cup UnderWay]
        /\ AttemptsAreLeft' /\ AllAreEarly'
    BY <1>11, OneMoves DEF ClearCircuit
  <2> QED
    BY <1>0, <1>11, <2>1, IntegrationAssumption
    DEF ClearCircuit, Closed, IntegrationInv, IntegrationTypeOK, UnderWay, CircuitIsOfFailures
<1>12. CASE LoseDeliveries
  BY <1>0, <1>12 DEF LoseDeliveries, IntegrationInv, IntegrationTypeOK, AttemptsAreLeft, AllAreEarly,
     CircuitIsOfFailures, NoDelivery
<1> QED
  BY <1>2, <1>3, <1>4, <1>5, <1>6, <1>7, <1>8, <1>9, <1>10, <1>11, <1>12 DEF IntegrationNext

\* The inductive invariant holds in every reachable state.
LEMMA IntegrationInvariance == IntegrationSpec => []IntegrationInv
  BY InitIntegrationInv, NextIntegrationInv, PTL DEF IntegrationSpec

\* Every variable keeps its type; no delivery makes more than MaxAttempts attempts.
THEOREM IntegrationsTypeCorrect == IntegrationSpec => []IntegrationTypeOK
<1>1. IntegrationInv => IntegrationTypeOK
  BY DEF IntegrationInv
<1> QED
  BY <1>1, IntegrationInvariance, PTL

\* The circuit pauses deliveries exactly while Threshold of them failed in a row and the
\* last failure is not Cooldown ago, however many deliveries overlap.
THEOREM PausesExactlyWhileFailing == IntegrationSpec => []PausedIffFailing
<1>1. IntegrationInv => PausedIffFailing
  BY IntegrationAssumption
  DEF IntegrationInv, IntegrationTypeOK, CircuitIsOfFailures, PausedIffFailing, Paused
<1> QED
  BY <1>1, IntegrationInvariance, PTL

\* A delivery that the open circuit refused, or that began after it opened, never closes it.
THEOREM NothingLaterCloses == IntegrationSpec => ClosedEarlyOnlyByEarlier
<1> DEFINE Step ==
        Paused /\ circuit'.openUntil <= time =>
            \E d \in Deliveries : delivery[d].at = "settle" /\ ~ delivery[d].failed
                                  /\ delivery[d].early
<1>1. ASSUME IntegrationInv, [IntegrationNext]_integrationVars PROVE [Step]_integrationVars
  <2> SUFFICES ASSUME Paused, circuit'.openUntil <= time PROVE Step
    OBVIOUS
  <2>1. circuit.openUntil > time /\ time \in Nat /\ circuit.openUntil \in Nat
    BY <1>1 DEF Paused, IntegrationInv, IntegrationTypeOK
  <2>2. circuit' # circuit
    BY <2>1
  <2>3. ASSUME NEW d \in Deliveries, RecordFailure(d) PROVE FALSE
    <3>1. circuit.failures >= Threshold /\ circuit.failures \in Nat
      BY <1>1, <2>1, IntegrationAssumption DEF IntegrationInv, IntegrationTypeOK, CircuitIsOfFailures
    <3>2. circuit'.openUntil = time + Cooldown
      BY <2>3, <3>1, IntegrationAssumption DEF RecordFailure, Opened
    <3> QED
      BY <2>1, <3>2, IntegrationAssumption
  <2>4. PICK d \in Deliveries : ClearCircuit(d)
    BY <1>1, <2>2, <2>3 DEF IntegrationNext, integrationVars, CreateIntegration, DeleteIntegration,
       PutSecret, DeleteSecret, Tick, BeginDispatch, Attempt, LoseDeliveries
  <2> QED
    BY <1>1, <2>4 DEF ClearCircuit, IntegrationInv, AllAreEarly
<1> QED
  BY <1>1, IntegrationInvariance, PTL DEF IntegrationSpec, ClosedEarlyOnlyByEarlier

-----------------------------------------------------------------------------
(* The audit log.  Its inductive invariant says where a torn line can be.  *)

\* A line without its newline is the last one and, unless it is whole, it does not
\* follow the line before it, so that nothing is ever appended to it.
TornLineRefuses == ~ ended /\ ~ bare => lines # <<>> /\ ~ Follows(Len(lines))

\* Only an outage tears a line.
OutagesTear == outages = 0 => Verification.valid /\ ended /\ ~ bare

AuditInv == AuditTypeOK /\ TornLineRefuses /\ OutagesTear /\ AcknowledgedEventsVerify

\* What is verified, without the record.
LEMMA VerificationFields ==
    /\ Verification.valid <=> Verified = DOMAIN lines
    /\ Verification.events = {lines[i][1].event : i \in Verified}
    /\ Verification.last = HashBefore(Cardinality(Verified) + 1)
  BY DEF Verification

\* Every line of a file that verifies follows the one before it.
LEMMA AllFollow ==
    ASSUME AuditTypeOK
    PROVE  Verified = DOMAIN lines <=> \A i \in DOMAIN lines : Follows(i)
<1>1. DOMAIN lines = 1..Len(lines) /\ Len(lines) \in Nat
  BY DEF AuditTypeOK
<1>2. ASSUME \A i \in DOMAIN lines : Follows(i) PROVE Verified = DOMAIN lines
  BY <1>1, <1>2 DEF Verified
<1>3. ASSUME Verified = DOMAIN lines, NEW i \in DOMAIN lines PROVE Follows(i)
  BY <1>1, <1>3 DEF Verified
<1> QED
  BY <1>2, <1>3

\* The hash that is appended to a file that verifies is that of its last line.
LEMMA LastOfValid ==
    ASSUME AuditTypeOK, Verification.valid
    PROVE  /\ Len(lines) \in Nat
           /\ Verification.last = HashBefore(Len(lines) + 1)
           /\ Verification.last \in Nat
<1>1. DOMAIN lines = 1..Len(lines) /\ Len(lines) \in Nat
  BY DEF AuditTypeOK
<1>2. Cardinality(Verified) = Len(lines)
  BY <1>1, FS_Interval, VerificationFields
<1>3. Verification.last = HashBefore(Len(lines) + 1)
  BY <1>2, VerificationFields
<1>4. HashBefore(Len(lines) + 1) \in Nat
  <2>1. CASE Len(lines) = 0
    BY <2>1 DEF HashBefore, NoHash
  <2>2. CASE Len(lines) > 0
    <3>1. lines[Len(lines)] \in Seq(Chunk) \ {<<>>}
      BY <1>1, <2>2 DEF AuditTypeOK
    <3>2. lines[Len(lines)][1] \in Chunk
      BY <3>1
    <3>3. HashBefore(Len(lines) + 1) = lines[Len(lines)][1].event
      BY <1>1, <2>2 DEF HashBefore
    <3> QED
      BY <3>2, <3>3 DEF Chunk
  <2> QED
    BY <1>1, <2>1, <2>2
<1> QED
  BY <1>1, <1>3, <1>4

\* A chunk with the hash of the last line, written to a file that verifies and ends with a
\* newline, is a line of its own: the lines before it stay verified, and it verifies
\* exactly if it is whole.
LEMMA NewLine ==
    ASSUME AuditTypeOK, Verification.valid, lines = <<>> \/ ended,
           NEW chunk \in Chunk, chunk.previous = Verification.last, lines' = Written(chunk)
    PROVE  /\ lines' \in Seq(Seq(Chunk) \ {<<>>})
           /\ lines' # <<>>
           /\ Verification.events \subseteq Verification'.events
           /\ chunk.whole => Verification'.valid /\ chunk.event \in Verification'.events
           /\ ~ chunk.whole => ~ Follows(Len(lines))'
<1> DEFINE line == <<chunk>>
<1>0. PICK n \in Nat : n = Len(lines)
  BY DEF AuditTypeOK
<1>1. line \in Seq(Chunk) \ {<<>>} /\ Len(line) = 1 /\ line[1] = chunk
  OBVIOUS
<1>2. lines' = Append(lines, line)
  BY DEF Written
<1> HIDE DEF line
<1>3. lines \in Seq(Seq(Chunk) \ {<<>>}) /\ n = Len(lines) /\ DOMAIN lines = 1..n
  BY <1>0 DEF AuditTypeOK
<1>4. /\ lines' \in Seq(Seq(Chunk) \ {<<>>})
      /\ Len(lines') = n + 1
      /\ DOMAIN lines' = 1..n + 1
      /\ \A i \in 1..n : lines'[i] = lines[i]
      /\ lines'[n + 1] = line
  BY <1>1, <1>2, <1>3
<1>5. \A i \in 1..n + 1 : HashBefore(i)' = HashBefore(i)
  <2> TAKE i \in 1..n + 1
  <2>1. i # 1 => i - 1 \in 1..n
    OBVIOUS
  <2>2. i # 1 => lines'[i - 1] = lines[i - 1]
    BY <1>4, <2>1
  <2> QED
    BY <2>2 DEF HashBefore
<1>6. \A i \in 1..n : Follows(i) /\ Follows(i)'
  <2> TAKE i \in 1..n
  <2>1. Follows(i)
    BY <1>3, AllFollow, VerificationFields
  <2> QED
    BY <2>1, <1>3, <1>4, <1>5 DEF Follows
<1>7. Follows(n + 1)' <=> chunk.whole
  <2>1. chunk.previous = HashBefore(n + 1)'
    BY <1>3, <1>5, LastOfValid
  <2> QED
    BY <1>1, <1>4, <2>1 DEF Follows
<1>8. ~ chunk.whole => ~ Follows(Len(lines))'
  <2>1. Follows(Len(lines))' <=> Follows(n + 1)'
    BY <1>4 DEF Follows, HashBefore
  <2> QED
    BY <1>7, <2>1
<1>9. \A i \in 1..n : i \in Verified'
  <2> TAKE i \in 1..n
  <2>1. i \in DOMAIN lines'
    BY <1>4
  <2>2. \A j \in 1..i : Follows(j)'
    <3> TAKE j \in 1..i
    <3>1. j \in 1..n
      OBVIOUS
    <3> QED
      BY <1>6, <3>1
  <2> QED
    BY <2>1, <2>2 DEF Verified
<1>10. Verification.events \subseteq Verification'.events
  <2>1. Verified = 1..n
    BY <1>3, VerificationFields
  <2>2. Verification'.events = {lines'[i][1].event : i \in Verified'}
    BY DEF Verification
  <2>3. \A i \in 1..n : lines[i][1].event \in Verification'.events
    BY <1>4, <1>9, <2>2
  <2> QED
    BY <2>1, <2>3, VerificationFields
<1>11. ASSUME chunk.whole PROVE Verification'.valid /\ chunk.event \in Verification'.events
  <2>1. n + 1 \in Verified' /\ Verified' = DOMAIN lines'
    BY <1>3, <1>4, <1>6, <1>7, <1>9, <1>11 DEF Verified
  <2>2. /\ Verification'.valid <=> Verified' = DOMAIN lines'
        /\ Verification'.events = {lines'[i][1].event : i \in Verified'}
    BY DEF Verification
  <2>3. lines'[n + 1][1].event \in Verification'.events
    BY <2>1, <2>2
  <2> QED
    BY <1>1, <1>4, <2>1, <2>2, <2>3
<1> QED
  BY <1>4, <1>8, <1>10, <1>11

\* A chunk that is glued to the last line: only the types are left to say.
LEMMA Glued ==
    ASSUME AuditTypeOK, lines # <<>>, ~ ended, NEW chunk \in Chunk, lines' = Written(chunk)
    PROVE  lines' \in Seq(Seq(Chunk) \ {<<>>})
<1>0. PICK n \in Nat : n = Len(lines)
  BY DEF AuditTypeOK
<1> DEFINE line == Append(lines[n], chunk)
<1>1. n \in DOMAIN lines /\ lines[n] \in Seq(Chunk)
  BY <1>0 DEF AuditTypeOK
<1>2. line \in Seq(Chunk) /\ line # <<>>
  <2>1. line \in Seq(Chunk) /\ Len(line) = Len(lines[n]) + 1 /\ Len(lines[n]) \in Nat
    BY <1>1
  <2> QED
    BY <2>1
<1>3. lines' = [lines EXCEPT ![n] = line]
  BY <1>0 DEF Written
<1> HIDE DEF line
<1> QED
  BY <1>1, <1>2, <1>3 DEF AuditTypeOK

\* A file without lines verifies.
LEMMA InitAuditInv == AuditInit => AuditInv
<1> SUFFICES ASSUME AuditInit PROVE AuditInv
  OBVIOUS
<1>1. AuditTypeOK
  <2>1. Unopened \in Nat
    BY AuditAssumption DEF Unopened
  <2> QED
    BY <2>1, EmptySeq DEF AuditInit, AuditTypeOK
<1>2. Verification.valid
  BY VerificationFields DEF AuditInit, Verified
<1> QED
  BY <1>1, <1>2 DEF AuditInit, AuditInv, TornLineRefuses, OutagesTear, AcknowledgedEventsVerify

\* Every step keeps every conjunct.
LEMMA NextAuditInv == AuditInv /\ [AuditNext]_auditVars => AuditInv'
<1> SUFFICES ASSUME AuditInv, [AuditNext]_auditVars PROVE AuditInv'
  OBVIOUS
<1>0. AuditTypeOK
  BY DEF AuditInv
<1>1. ASSUME UNCHANGED <<lines, ended, outages, acknowledged, bare>>, AuditTypeOK' PROVE AuditInv'
  <2>1. Verification' = Verification /\ (Follows(Len(lines))' <=> Follows(Len(lines)))
    BY <1>1 DEF Verification, Verified, Follows, HashBefore
  <2> QED
    BY <1>1, <2>1 DEF AuditInv, TornLineRefuses, OutagesTear, AcknowledgedEventsVerify
<1>2. ASSUME NEW a \in Logs, AppendEvent(a) PROVE AuditInv'
  <2> DEFINE event == appended + 1
             chunk == [event |-> event, previous |-> Verification.last, whole |-> TRUE]
  <2>1. /\ Verification.valid
        /\ appended' = event
        /\ lines' = Written(chunk)
        /\ ended' = TRUE
        /\ known' = [known EXCEPT ![a] = event]
        /\ acknowledged' = acknowledged \cup {event}
        /\ outages' = outages
        /\ bare' = bare
    BY <1>2 DEF AppendEvent, PreviousHash
  <2>2. event \in Nat
    BY <1>0 DEF AuditTypeOK
  <2>3. chunk \in Chunk /\ chunk.previous = Verification.last /\ chunk.whole /\ chunk.event = event
    BY <1>0, <2>1, <2>2, LastOfValid DEF Chunk
  <2> HIDE DEF event, chunk
  <2>4. lines' \in Seq(Seq(Chunk) \ {<<>>})
    BY <1>0, <2>1, <2>3, NewLine, Glued
  <2>5. AuditTypeOK'
    BY <1>0, <2>1, <2>2, <2>4 DEF AuditTypeOK
  <2>6. ~ bare => lines = <<>> \/ ended
    <3> SUFFICES ASSUME ~ bare, ~ ended, lines # <<>> PROVE FALSE
      OBVIOUS
    <3>1. ~ Follows(Len(lines)) /\ Len(lines) \in DOMAIN lines
      BY <1>0 DEF AuditInv, TornLineRefuses, AuditTypeOK
    <3> QED
      BY <1>0, <2>1, <3>1, AllFollow, VerificationFields
  <2>7. ~ bare => /\ Verification'.valid
                  /\ Verification.events \subseteq Verification'.events
                  /\ event \in Verification'.events
    BY <1>0, <2>1, <2>3, <2>6, NewLine
  <2>8. outages = 0 => ~ bare
    BY DEF AuditInv, OutagesTear
  <2> QED
    BY <2>1, <2>5, <2>7, <2>8 DEF AuditInv, TornLineRefuses, OutagesTear, AcknowledgedEventsVerify
<1>3. ASSUME NEW a \in Logs, Open(a) PROVE AuditInv'
  <2>1. Verification.last \in Nat
    BY <1>0, <1>3, LastOfValid DEF Open
  <2>2. AuditTypeOK'
    BY <1>0, <1>3, <2>1 DEF Open, AuditTypeOK
  <2> QED
    BY <1>1, <1>3, <2>2 DEF Open
<1>4. ASSUME NEW part \in {"nothing", "part", "bare", "all"}, LosePower(part) PROVE AuditInv'
  <2> DEFINE event == appended + 1
             chunk == [event |-> event, previous |-> Verification.last, whole |-> part # "part"]
  <2>1. outages' = outages + 1 /\ known' = [b \in Logs |-> Unopened] /\ acknowledged' = acknowledged
    BY <1>4 DEF LosePower
  <2>2. outages' \in Nat /\ outages' # 0 /\ known' \in [Logs -> Nat]
    BY <1>0, <2>1, AuditAssumption DEF AuditTypeOK, Unopened
  <2>3. CASE part = "nothing"
    <3>1. UNCHANGED <<lines, ended, appended, bare>>
      BY <1>4, <2>3 DEF LosePower
    <3>2. AuditTypeOK'
      BY <1>0, <2>1, <2>2, <3>1 DEF AuditTypeOK
    <3>3. Verification' = Verification /\ (Follows(Len(lines))' <=> Follows(Len(lines)))
      BY <3>1 DEF Verification, Verified, Follows, HashBefore
    <3> QED
      BY <2>1, <2>2, <3>1, <3>2, <3>3 DEF AuditInv, TornLineRefuses, OutagesTear, AcknowledgedEventsVerify
  <2>4. CASE part # "nothing"
    <3>1. /\ Verification.valid
          /\ appended' = event
          /\ lines' = Written(chunk)
          /\ ended' = (part = "all")
          /\ bare' = (bare \/ part = "bare")
      BY <1>4, <2>4 DEF LosePower
    <3>2. event \in Nat
      BY <1>0 DEF AuditTypeOK
    <3>3. /\ chunk \in Chunk
          /\ chunk.previous = Verification.last
          /\ chunk.whole <=> part # "part"
      BY <1>0, <3>1, <3>2, LastOfValid DEF Chunk
    <3> HIDE DEF event, chunk
    <3>4. lines' \in Seq(Seq(Chunk) \ {<<>>})
      BY <1>0, <3>1, <3>3, NewLine, Glued
    <3>5. ended' \in BOOLEAN /\ bare' \in BOOLEAN
      BY <1>0, <3>1 DEF AuditTypeOK
    <3>6. AuditTypeOK'
      BY <1>0, <2>1, <2>2, <3>1, <3>2, <3>4, <3>5 DEF AuditTypeOK
    <3>7. ASSUME ~ bare'
          PROVE  /\ Verification.events \subseteq Verification'.events
                 /\ ~ ended' => lines' # <<>> /\ ~ Follows(Len(lines))'
      <4>1. ~ bare /\ part # "bare"
        BY <3>1, <3>7
      <4>2. lines = <<>> \/ ended
        <5> SUFFICES ASSUME ~ ended, lines # <<>> PROVE FALSE
          OBVIOUS
        <5>1. ~ Follows(Len(lines)) /\ Len(lines) \in DOMAIN lines
          BY <1>0, <4>1 DEF AuditInv, TornLineRefuses, AuditTypeOK
        <5> QED
          BY <1>0, <3>1, <5>1, AllFollow, VerificationFields
      <4>3. ~ ended' => ~ chunk.whole
        BY <2>4, <3>1, <3>3, <4>1
      <4> QED
        BY <1>0, <3>1, <3>3, <4>2, <4>3, NewLine
    <3>8. bare => bare'
      BY <3>1
    <3> QED
      BY <2>1, <2>2, <3>6, <3>7, <3>8 DEF AuditInv, TornLineRefuses, OutagesTear, AcknowledgedEventsVerify
  <2> QED
    BY <2>3, <2>4
<1>5. CASE UNCHANGED auditVars
  <2>1. AuditTypeOK'
    BY <1>0, <1>5 DEF auditVars, AuditTypeOK
  <2> QED
    BY <1>1, <1>5, <2>1 DEF auditVars
<1> QED
  BY <1>2, <1>3, <1>4, <1>5 DEF AuditNext

\* Appends of several objects in turn, outages and restarts never cost an event whose
\* append returned, unless an outage left a whole line without its newline; without an
\* outage the file verifies.
THEOREM AcknowledgedAlwaysVerify == AuditSpec => []AcknowledgedEventsVerify
<1>1. AuditInv => AcknowledgedEventsVerify
  BY DEF AuditInv
<1> QED
  BY <1>1, InitAuditInv, NextAuditInv, PTL DEF AuditSpec

-----------------------------------------------------------------------------
(* The files of the workspace.                                             *)

Holds(s, file) == \E i \in 1..Len(s) : s[i] = file

\* The contract comes once at most, and the simulation only after it.
ContractFirst(s) ==
    \A i \in 1..Len(s) :
        /\ s[i] = "simulation" => \E j \in 1..(i - 1) : s[j] = "contract"
        /\ s[i] = "contract" => \A j \in 1..Len(s) : s[j] = "contract" => j = i

Creating(w) == w.kind \in {"create", "import"}

\* An operation has written what it wrote after all its checks.
Sound(w) ==
    /\ w.checks # <<>> => w.kind \in {"template", "restore"}
    /\ w.wrote # {} => w.checks = <<>>
    /\ w.kind = "template" => w.writes = <<"template">>

\* What an operation that has the contract still to write is in a workspace of the files p,
\* with the backup a: it writes it before the simulation, and over no other contract.
WritesContract(w, p, a) ==
    /\ Creating(w) \/ w.kind = "restore"
    /\ ContractFirst(w.writes)
    /\ "contract" \in p => Holds(w.checks, "contract")
    /\ Creating(w) => ~ Holds(a, "contract")

\* What an operation is in a workspace of the files p, those of t torn, with the backup a.
Fits(w, p, t, a) ==
    /\ Sound(w)
    /\ "contract" \in p \ t \/ ContractFirst(w.writes)
    /\ Holds(w.writes, "contract") => WritesContract(w, p, a)

\* What a restore has written of the simulation is whole, and the simulation comes last.
SimulationLast(s) ==
    \A i, j \in 1..Len(s) : s[i] = "simulation" /\ j > i => s[j] = "template"

Restores(w, p, t) ==
    w.kind = "restore" =>
        /\ w.wrote \ {"template"} \subseteq p \ t
        /\ SimulationLast(w.writes)

\* Of two operations, one restores at most and one has the contract to write.
Apart(v, w) ==
    /\ ~ (v.kind = "restore" /\ w.kind = "restore")
    /\ ~ (Holds(v.writes, "contract") /\ Holds(w.writes, "contract"))

\* A listed simulation has its contract.
Contracted == "simulation" \in present => "contract" \in present \ torn

\* While backups alone are restored: a listed simulation has its contract, and every
\* operation fits what is there.
FilesInv ==
    /\ FilesTypeOK
    /\ ~ foreign
    /\ Contracted
    /\ ContractFirst(archive)
    /\ SimulationLast(archive)
    /\ \A r \in Requesters : Fits(operation[r], present, torn, archive)
    /\ \A r \in Requesters : Restores(operation[r], present, torn)
    /\ \A q, r \in Requesters : q # r => Apart(operation[q], operation[r])

\* The first of the files to write is one of them, and so are the others.
LEMMA HeadAndTail ==
    ASSUME NEW s \in Seq(Files), s # <<>>
    PROVE  /\ Head(s) \in Files
           /\ Head(s) = s[1]
           /\ Tail(s) \in Seq(Files)
           /\ Len(s) \in Nat
           /\ Len(s) > 0
           /\ Len(Tail(s)) = Len(s) - 1
           /\ \A i \in 1..Len(Tail(s)) : Tail(s)[i] = s[i + 1]
  BY HeadTailProperties, EmptySeq, LenProperties

\* A list holds what is in the set of its elements.
LEMMA HoldsMember ==
    ASSUME NEW s \in Seq(Files), NEW file, Holds(s, file)
    PROVE  file \in ToSet(s)
<1>1. PICK i \in 1..Len(s) : s[i] = file
  BY DEF Holds
<1>2. i \in DOMAIN s
  BY LenProperties
<1> QED
  BY <1>1, <1>2 DEF ToSet

\* What a list holds is its head or held by its tail.
LEMMA HoldsTail ==
    ASSUME NEW s \in Seq(Files), s # <<>>, NEW file
    PROVE  Holds(s, file) <=> (Head(s) = file \/ Holds(Tail(s), file))
<1>1. ASSUME Holds(s, file), Head(s) # file PROVE Holds(Tail(s), file)
  <2>1. PICK i \in 1..Len(s) : s[i] = file
    BY <1>1 DEF Holds
  <2>2. i # 1
    BY <1>1, <2>1, HeadAndTail
  <2>3. i - 1 \in 1..Len(Tail(s)) /\ Tail(s)[i - 1] = s[i]
    BY <2>2, HeadAndTail
  <2> QED
    BY <2>1, <2>3 DEF Holds
<1>2. ASSUME Head(s) = file PROVE Holds(s, file)
  BY <1>2, HeadAndTail DEF Holds
<1>3. ASSUME Holds(Tail(s), file) PROVE Holds(s, file)
  <2>1. PICK i \in 1..Len(Tail(s)) : Tail(s)[i] = file
    BY <1>3 DEF Holds
  <2>2. i + 1 \in 1..Len(s) /\ s[i + 1] = file
    BY <2>1, HeadAndTail
  <2> QED
    BY <2>2 DEF Holds
<1> QED
  BY <1>1, <1>2, <1>3

\* The rest of a list that has the contract first has it first too, unless the contract
\* was its head: then the rest is without.
LEMMA TailContractFirst ==
    ASSUME NEW s \in Seq(Files), s # <<>>, ContractFirst(s)
    PROVE  /\ Head(s) # "simulation"
           /\ Head(s) = "contract" => ~ Holds(Tail(s), "contract")
           /\ Head(s) # "contract" => ContractFirst(Tail(s))
<1> DEFINE t == Tail(s)
<1>0. /\ Len(s) \in Nat /\ Len(s) > 0 /\ Len(t) = Len(s) - 1 /\ Head(s) = s[1]
      /\ \A i \in 1..Len(t) : t[i] = s[i + 1] /\ i + 1 \in 1..Len(s)
  BY HeadAndTail
<1>1. Head(s) # "simulation"
  BY <1>0 DEF ContractFirst
<1>2. ASSUME Head(s) = "contract", Holds(t, "contract") PROVE FALSE
  <2>1. PICK i \in 1..Len(t) : t[i] = "contract"
    BY <1>2 DEF Holds
  <2>2. s[i + 1] = "contract" /\ i + 1 \in 1..Len(s) /\ 1 \in 1..Len(s) /\ i + 1 # 1
    BY <2>1, <1>0
  <2> QED
    BY <2>2, <1>0, <1>2 DEF ContractFirst
<1>3. ASSUME Head(s) # "contract", NEW i \in 1..Len(t)
      PROVE  /\ t[i] = "simulation" => \E j \in 1..(i - 1) : t[j] = "contract"
             /\ t[i] = "contract" => \A j \in 1..Len(t) : t[j] = "contract" => j = i
  <2>1. ASSUME t[i] = "simulation" PROVE \E j \in 1..(i - 1) : t[j] = "contract"
    <3>1. i + 1 \in 1..Len(s) /\ s[i + 1] = "simulation"
      BY <1>0, <2>1
    <3>2. PICK k \in 1..((i + 1) - 1) : s[k] = "contract"
      BY <3>1 DEF ContractFirst
    <3>3. k # 1
      BY <1>0, <1>3, <3>2
    <3>4. k - 1 \in 1..(i - 1) /\ k - 1 \in 1..Len(t)
      BY <1>0, <3>3
    <3>5. t[k - 1] = s[(k - 1) + 1] /\ (k - 1) + 1 = k
      BY <1>0, <3>4
    <3> QED
      BY <3>2, <3>4, <3>5
  <2>2. ASSUME t[i] = "contract", NEW j \in 1..Len(t), t[j] = "contract" PROVE j = i
    <3>1. i + 1 \in 1..Len(s) /\ j + 1 \in 1..Len(s) /\ s[i + 1] = "contract"
          /\ s[j + 1] = "contract"
      BY <1>0, <2>2
    <3>2. j + 1 = i + 1
      BY <3>1 DEF ContractFirst
    <3> QED
      BY <3>2
  <2> QED
    BY <2>1, <2>2
<1> QED
  BY <1>1, <1>2, <1>3 DEF ContractFirst

\* A list holds what its two parts hold.
LEMMA ConcatHolds ==
    ASSUME NEW s \in Seq(Files), NEW t \in Seq(Files)
    PROVE  /\ s \o t \in Seq(Files)
           /\ \A file : Holds(s \o t, file) <=> Holds(s, file) \/ Holds(t, file)
<1> DEFINE u == s \o t
<1>1. /\ u \in Seq(Files) /\ Len(s) \in Nat /\ Len(t) \in Nat /\ Len(u) = Len(s) + Len(t)
      /\ \A i \in 1..Len(u) : u[i] = IF i <= Len(s) THEN s[i] ELSE t[i - Len(s)]
  BY ConcatProperties, LenProperties
<1> HIDE DEF u
<1>2. ASSUME NEW file PROVE Holds(u, file) <=> Holds(s, file) \/ Holds(t, file)
  <2>1. ASSUME Holds(u, file) PROVE Holds(s, file) \/ Holds(t, file)
    <3>1. PICK i \in 1..Len(u) : u[i] = file
      BY <2>1 DEF Holds
    <3>2. CASE i <= Len(s)
      BY <1>1, <3>1, <3>2 DEF Holds
    <3>3. CASE i > Len(s)
      <4>1. i - Len(s) \in 1..Len(t) /\ t[i - Len(s)] = file
        BY <1>1, <3>1, <3>3
      <4> QED
        BY <4>1 DEF Holds
    <3> QED
      BY <1>1, <3>2, <3>3
  <2>2. ASSUME Holds(s, file) PROVE Holds(u, file)
    <3>1. PICK i \in 1..Len(s) : s[i] = file
      BY <2>2 DEF Holds
    <3>2. i \in 1..Len(u) /\ u[i] = file
      BY <1>1, <3>1
    <3> QED
      BY <3>2 DEF Holds
  <2>3. ASSUME Holds(t, file) PROVE Holds(u, file)
    <3>1. PICK i \in 1..Len(t) : t[i] = file
      BY <2>3 DEF Holds
    <3>2. i + Len(s) \in 1..Len(u) /\ u[i + Len(s)] = file
      <4>1. i + Len(s) \in 1..Len(u) /\ ~ (i + Len(s) <= Len(s)) /\ (i + Len(s)) - Len(s) = i
        BY <1>1
      <4> QED
        BY <1>1, <3>1, <4>1
    <3> QED
      BY <3>2 DEF Holds
  <2> QED
    BY <2>1, <2>2, <2>3
<1> QED
  BY <1>1, <1>2 DEF u

\* Files that are not the contract may follow, the simulation if the contract is there.
LEMMA ConcatContractFirst ==
    ASSUME NEW s \in Seq(Files), NEW t \in Seq(Files), ContractFirst(s),
           ~ Holds(t, "contract"), Holds(t, "simulation") => Holds(s, "contract")
    PROVE  /\ s \o t \in Seq(Files)
           /\ ContractFirst(s \o t)
           /\ \A file : Holds(s \o t, file) <=> Holds(s, file) \/ Holds(t, file)
<1> DEFINE u == s \o t
<1>1. /\ u \in Seq(Files) /\ Len(s) \in Nat /\ Len(t) \in Nat /\ Len(u) = Len(s) + Len(t)
      /\ \A i \in 1..Len(u) : u[i] = IF i <= Len(s) THEN s[i] ELSE t[i - Len(s)]
  BY ConcatProperties, LenProperties
<1> HIDE DEF u
<1>2. \A file : Holds(u, file) <=> Holds(s, file) \/ Holds(t, file)
  BY ConcatHolds DEF u
<1>3. ASSUME NEW i \in 1..Len(u), u[i] = "contract" PROVE i \in 1..Len(s) /\ s[i] = "contract"
  <2>1. CASE i <= Len(s)
    BY <1>1, <1>3, <2>1
  <2>2. CASE i > Len(s)
    <3>1. i - Len(s) \in 1..Len(t) /\ t[i - Len(s)] = "contract"
      BY <1>1, <1>3, <2>2
    <3> QED
      BY <3>1 DEF Holds
  <2> QED
    BY <1>1, <2>1, <2>2
<1>4. ASSUME NEW i \in 1..Len(u), u[i] = "simulation"
      PROVE  \E j \in 1..(i - 1) : u[j] = "contract"
  <2>1. CASE i <= Len(s)
    <3>1. i \in 1..Len(s) /\ s[i] = "simulation"
      BY <1>1, <1>4, <2>1
    <3>2. PICK j \in 1..(i - 1) : s[j] = "contract"
      BY <3>1 DEF ContractFirst
    <3>3. u[j] = "contract"
      BY <1>1, <2>1, <3>2
    <3> QED
      BY <3>3
  <2>2. CASE i > Len(s)
    <3>1. i - Len(s) \in 1..Len(t) /\ t[i - Len(s)] = "simulation"
      BY <1>1, <1>4, <2>2
    <3>2. PICK j \in 1..Len(s) : s[j] = "contract"
      BY <3>1 DEF Holds
    <3>3. j \in 1..(i - 1) /\ u[j] = "contract"
      BY <1>1, <2>2, <3>2
    <3> QED
      BY <3>3
  <2> QED
    BY <1>1, <2>1, <2>2
<1>5. ContractFirst(u)
  BY <1>3, <1>4 DEF ContractFirst
<1> QED
  BY <1>1, <1>2, <1>5 DEF u

\* Files other than the simulation may come before it, and templates after it.
LEMMA ConcatSimulationLast ==
    ASSUME NEW s \in Seq(Files), NEW t \in Seq(Files), SimulationLast(s), SimulationLast(t),
           Holds(s, "simulation") => \A i \in 1..Len(t) : t[i] = "template"
    PROVE  SimulationLast(s \o t)
<1> DEFINE u == s \o t
<1>1. /\ u \in Seq(Files) /\ Len(s) \in Nat /\ Len(t) \in Nat /\ Len(u) = Len(s) + Len(t)
      /\ \A i \in 1..Len(u) : u[i] = IF i <= Len(s) THEN s[i] ELSE t[i - Len(s)]
  BY ConcatProperties, LenProperties
<1> HIDE DEF u
<1>2. ASSUME NEW i \in 1..Len(u), NEW j \in 1..Len(u), u[i] = "simulation", j > i
      PROVE  u[j] = "template"
  <2>1. CASE j <= Len(s)
    <3>1. i \in 1..Len(s) /\ j \in 1..Len(s) /\ u[i] = s[i] /\ u[j] = s[j]
      BY <1>1, <1>2, <2>1
    <3> QED
      BY <1>2, <3>1 DEF SimulationLast
  <2>2. CASE i <= Len(s) /\ j > Len(s)
    <3>1. i \in 1..Len(s) /\ u[i] = s[i]
      BY <1>1, <2>2
    <3>2. j - Len(s) \in 1..Len(t) /\ u[j] = t[j - Len(s)]
      BY <1>1, <2>2
    <3> QED
      BY <1>2, <3>1, <3>2 DEF Holds
  <2>3. CASE i > Len(s)
    <3>1. i - Len(s) \in 1..Len(t) /\ u[i] = t[i - Len(s)]
      BY <1>1, <2>3
    <3>2. j - Len(s) \in 1..Len(t) /\ u[j] = t[j - Len(s)] /\ j - Len(s) > i - Len(s)
      BY <1>1, <1>2, <2>3
    <3> QED
      BY <1>2, <3>1, <3>2 DEF SimulationLast
  <2> QED
    BY <1>1, <2>1, <2>2, <2>3
<1> QED
  BY <1>2 DEF SimulationLast, u

\* The rest of a list has the simulation last too, and after it only templates.
LEMMA TailSimulationLast ==
    ASSUME NEW s \in Seq(Files), s # <<>>, SimulationLast(s)
    PROVE  /\ SimulationLast(Tail(s))
           /\ Head(s) = "simulation" => ToSet(s) \subseteq {"simulation", "template"}
<1>1. /\ Len(s) \in Nat /\ Len(s) > 0 /\ Len(Tail(s)) = Len(s) - 1 /\ Head(s) = s[1]
      /\ \A i \in 1..Len(Tail(s)) : Tail(s)[i] = s[i + 1] /\ i + 1 \in 1..Len(s)
  BY HeadAndTail
<1>2. ASSUME NEW i \in 1..Len(Tail(s)), NEW j \in 1..Len(Tail(s)),
             Tail(s)[i] = "simulation", j > i
      PROVE  Tail(s)[j] = "template"
  <2>1. /\ i + 1 \in 1..Len(s) /\ j + 1 \in 1..Len(s) /\ j + 1 > i + 1
        /\ s[i + 1] = "simulation" /\ Tail(s)[j] = s[j + 1]
    BY <1>1, <1>2
  <2> QED
    BY <2>1 DEF SimulationLast
<1>3. ASSUME Head(s) = "simulation", NEW i \in 1..Len(s) PROVE s[i] \in {"simulation", "template"}
  <2>1. 1 \in 1..Len(s) /\ s[1] = "simulation" /\ (i = 1 \/ i > 1)
    BY <1>1, <1>3
  <2> QED
    BY <2>1 DEF SimulationLast
<1>4. DOMAIN s = 1..Len(s)
  BY LenProperties
<1> QED
  BY <1>2, <1>3, <1>4 DEF SimulationLast, ToSet

\* A backup is a list of files.
LEMMA ListingIsList == Listing \in Seq(Files)
<1>1. ASSUME NEW file \in Files PROVE IfPresent(file) \in Seq(Files)
  BY DEF IfPresent
<1> QED
  BY <1>1, ConcatProperties DEF Listing, Files

\* A backup lists every file that is there, the contract before the simulation and the
\* simulation after its other files.
LEMMA ListingProperties ==
    ASSUME Contracted
    PROVE  /\ Listing \in Seq(Files)
           /\ ContractFirst(Listing)
           /\ SimulationLast(Listing)
           /\ Holds(Listing, "contract") => "contract" \in present
<1> DEFINE s2 == IfPresent("profile") \o IfPresent("contract")
           s3 == s2 \o IfPresent("data")
           s4 == s3 \o IfPresent("mappings")
           s5 == s4 \o IfPresent("scenarios")
           s6 == s5 \o IfPresent("simulation")
<1>1. ASSUME NEW file \in Files
      PROVE  /\ IfPresent(file) \in Seq(Files)
             /\ \A other : Holds(IfPresent(file), other) <=> other = file /\ file \in present
             /\ file # "simulation" => ContractFirst(IfPresent(file))
             /\ SimulationLast(IfPresent(file))
             /\ \A i \in 1..Len(IfPresent(file)) : IfPresent(file)[i] = file
  BY DEF IfPresent, Holds, ContractFirst, SimulationLast
<1>2. /\ s2 \in Seq(Files)
      /\ ContractFirst(s2)
      /\ Holds(s2, "contract") <=> "contract" \in present
      /\ ~ Holds(s2, "simulation")
  <2> DEFINE s1 == IfPresent("profile")
             c == IfPresent("contract")
  <2>1. CASE "profile" \notin present
    <3>1. s2 = c
      BY <1>1, <2>1, ConcatEmptySeq DEF IfPresent, Files
    <3>2. ~ Holds(c, "simulation")
      BY DEF IfPresent, Holds
    <3>3. c \in Seq(Files) /\ ContractFirst(c) /\ (Holds(c, "contract") <=> "contract" \in present)
      BY <1>1 DEF Files
    <3> QED
      BY <3>1, <3>2, <3>3
  <2>2. CASE "profile" \in present
    <3>1. CASE "contract" \notin present
      <4>1. s2 = <<"profile">>
        BY <2>2, <3>1 DEF IfPresent
      <4> HIDE DEF s2
      <4>2. s2 \in Seq(Files) /\ Len(s2) = 1 /\ s2[1] = "profile" /\ 1..Len(s2) = {1}
        BY <4>1 DEF Files
      <4> QED
        BY <4>2, <3>1 DEF Holds, ContractFirst
    <3>2. CASE "contract" \in present
      <4>1. IfPresent("profile") = <<"profile">> /\ IfPresent("contract") = <<"contract">>
        BY <2>2, <3>2 DEF IfPresent
      <4>2. <<"profile">> \in Seq(Files) /\ <<"contract">> \in Seq(Files)
        BY DEF Files
      <4>3. s2 \in Seq(Files) /\ Len(s2) = 2 /\ s2[1] = "profile" /\ s2[2] = "contract"
        BY <4>1, <4>2, ConcatProperties
      <4>4. 1..Len(s2) = {1, 2}
        BY <4>3
      <4> HIDE DEF s2
      <4>5. ContractFirst(s2)
        BY <4>3, <4>4 DEF ContractFirst
      <4>6. Holds(s2, "contract")
        BY <4>3, <4>4 DEF Holds
      <4>7. ~ Holds(s2, "simulation")
        BY <4>3, <4>4 DEF Holds
      <4> QED
        BY <4>3, <4>5, <4>6, <4>7, <3>2
    <3> QED
      BY <3>1, <3>2
  <2> QED
    BY <2>1, <2>2
<1> HIDE DEF s2
<1>3. /\ s3 \in Seq(Files) /\ ContractFirst(s3) /\ ~ Holds(s3, "simulation")
      /\ Holds(s3, "contract") <=> "contract" \in present
  BY <1>1, <1>2, ConcatContractFirst DEF Files
<1> HIDE DEF s3
<1>4. /\ s4 \in Seq(Files) /\ ContractFirst(s4) /\ ~ Holds(s4, "simulation")
      /\ Holds(s4, "contract") <=> "contract" \in present
  BY <1>1, <1>3, ConcatContractFirst DEF Files
<1> HIDE DEF s4
<1>5. /\ s5 \in Seq(Files) /\ ContractFirst(s5) /\ ~ Holds(s5, "simulation")
      /\ Holds(s5, "contract") <=> "contract" \in present
  BY <1>1, <1>4, ConcatContractFirst DEF Files
<1> HIDE DEF s5
<1>6. /\ s6 \in Seq(Files) /\ ContractFirst(s6) /\ SimulationLast(s6)
      /\ Holds(s6, "contract") <=> "contract" \in present
  <2>1. Holds(IfPresent("simulation"), "simulation") => Holds(s5, "contract")
    BY <1>1, <1>5 DEF Contracted, Files
  <2>2. SimulationLast(s5)
    BY <1>5 DEF Holds, SimulationLast
  <2>3. SimulationLast(s6)
    BY <1>1, <1>5, <2>2, ConcatSimulationLast DEF s6, Files
  <2> QED
    BY <1>1, <1>5, <2>1, <2>3, ConcatContractFirst DEF Files
<1> HIDE DEF s6
<1>7. LET s7 == s6 \o IfPresent("template") IN
      /\ s7 \in Seq(Files) /\ ContractFirst(s7) /\ SimulationLast(s7)
      /\ Holds(s7, "contract") <=> "contract" \in present
  <2>1. /\ IfPresent("template") \in Seq(Files) /\ SimulationLast(IfPresent("template"))
        /\ \A i \in 1..Len(IfPresent("template")) : IfPresent("template")[i] = "template"
    BY <1>1 DEF Files
  <2>2. SimulationLast(s6 \o IfPresent("template"))
    BY <1>6, <2>1, ConcatSimulationLast
  <2> QED
    BY <1>1, <1>6, <2>2, ConcatContractFirst DEF Files
<1> QED
  BY <1>7 DEF Listing, s2, s3, s4, s5, s6

\* What a request writes: a creation or an import the contract first, others none.
LEMMA WritesProperties ==
    ASSUME NEW kind \in DOMAIN Writes
    PROVE  /\ Writes[kind] \in Seq(Files)
           /\ kind \in {"create", "import"} => ContractFirst(Writes[kind])
           /\ kind \notin {"create", "import"} => ~ Holds(Writes[kind], "contract")
<1>1. Creates \in Seq(Files) /\ ContractFirst(Creates) /\ Holds(Creates, "contract")
  BY DEF Creates, ContractFirst, Holds, Files
<1>2. Compiles \in Seq(Files) /\ ~ Holds(Compiles, "contract")
  BY DEF Compiles, Holds, Files
<1>3. CASE kind = "create"
  BY <1>1, <1>3 DEF Writes
<1>4. CASE kind = "import"
  <2> DEFINE t == <<"data", "scenarios", "profile", "simulation">>
             s == Creates \o t
  <2>1. t \in Seq(Files) /\ ~ Holds(t, "contract")
    <3>1. t \in Seq(Files)
      BY DEF Files
    <3>2. Len(t) = 4 /\ t[1] = "data" /\ t[2] = "scenarios" /\ t[3] = "profile"
          /\ t[4] = "simulation"
      OBVIOUS
    <3>3. 1..Len(t) = {1, 2, 3, 4}
      BY <3>2
    <3> HIDE DEF t
    <3> QED
      BY <3>1, <3>2, <3>3 DEF Holds
  <2> HIDE DEF t
  <2>2. s \in Seq(Files) /\ ContractFirst(s) /\ Holds(s, "contract")
    BY <1>1, <2>1, ConcatContractFirst
  <2> HIDE DEF s
  <2>3. s \o Compiles \in Seq(Files) /\ ContractFirst(s \o Compiles)
    BY <1>2, <2>2, ConcatContractFirst
  <2>4. Imports = s \o Compiles
    BY DEF Imports, s, t
  <2>5. Writes.import = Imports
    BY DEF Writes
  <2> QED
    BY <1>4, <2>3, <2>4, <2>5
<1>5. CASE kind \in {"generate", "scenario", "deploy"}
  <2>1. CASE kind = "generate"
    <3>1. Writes[kind] = <<"data", "simulation">>
      BY <2>1 DEF Writes
    <3> QED
      BY <2>1, <3>1 DEF Holds, Files
  <2>2. CASE kind = "scenario"
    <3>1. Writes[kind] = <<"scenarios">>
      BY <2>2 DEF Writes
    <3> QED
      BY <2>2, <3>1 DEF Holds, Files
  <2>3. CASE kind = "deploy"
    <3>1. Writes[kind] = <<"simulation">>
      BY <2>3 DEF Writes
    <3> QED
      BY <2>3, <3>1 DEF Holds, Files
  <2> QED
    BY <1>5, <2>1, <2>2, <2>3
<1>6. CASE kind = "compile"
  BY <1>2, <1>6 DEF Writes
<1>7. CASE kind = "activate"
  <2> DEFINE s == <<"profile", "simulation">>
  <2>1. s \in Seq(Files) /\ ~ Holds(s, "contract")
    BY DEF Holds, Files
  <2> HIDE DEF s
  <2>2. s \o Compiles \in Seq(Files) /\ ~ Holds(s \o Compiles, "contract")
    BY <1>2, <2>1, ConcatHolds
  <2> QED
    BY <1>7, <2>2 DEF Writes, s
<1> QED
  BY <1>3, <1>4, <1>5, <1>6, <1>7 DEF Writes

\* No operation is one, and so is one that starts.
LEMMA NoWorkProperties == NoWork \in Operation
<1>1. <<>> \in Seq(Files)
  BY EmptySeq, Zenon
<1>2. {} \in SUBSET Files /\ "none" \in Kinds
  BY DEF Kinds
<1> QED
  BY <1>1, <1>2, Zenon DEF NoWork, Operation

LEMMA WorkProperties ==
    ASSUME NEW kind \in Kinds, NEW checks \in Seq(Files), NEW writes \in Seq(Files)
    PROVE  /\ Work(kind, checks, writes) \in Operation
           /\ Work(kind, checks, writes).kind = kind
           /\ Work(kind, checks, writes).checks = checks
           /\ Work(kind, checks, writes).writes = writes
           /\ Work(kind, checks, writes).wrote = {}
<1>1. {} \in SUBSET Files
  OBVIOUS
<1>2. Work(kind, checks, writes) \in Operation
  BY <1>1, Zenon DEF Work, Operation
<1> QED
  BY <1>2 DEF Work

\* After a check, and after a write, an operation has the rest to check, and to write.
LEMMA RestProperties ==
    ASSUME NEW w \in Operation
    PROVE  /\ w.checks # <<>> =>
                LET v == [w EXCEPT !.checks = Tail(@)] IN
                /\ v \in Operation
                /\ v.kind = w.kind /\ v.checks = Tail(w.checks) /\ v.writes = w.writes
                /\ v.wrote = w.wrote
           /\ w.writes # <<>> =>
                LET v == [w EXCEPT !.writes = Tail(@), !.wrote = @ \cup {Head(w.writes)}] IN
                /\ v \in Operation
                /\ v.kind = w.kind /\ v.checks = w.checks /\ v.writes = Tail(w.writes)
                /\ v.wrote = w.wrote \cup {Head(w.writes)}
<1>1. /\ w.checks \in Seq(Files) /\ w.writes \in Seq(Files) /\ w.wrote \in SUBSET Files
  BY DEF Operation
<1>2. ASSUME w.checks # <<>> PROVE Tail(w.checks) \in Seq(Files)
  BY <1>1, <1>2, HeadAndTail
<1>3. ASSUME w.writes # <<>> PROVE Tail(w.writes) \in Seq(Files) /\ Head(w.writes) \in Files
  BY <1>1, <1>3, HeadAndTail
<1>4. ASSUME w.checks # <<>>
      PROVE  LET v == [w EXCEPT !.checks = Tail(@)] IN
             /\ v \in Operation
             /\ v.kind = w.kind /\ v.checks = Tail(w.checks) /\ v.writes = w.writes
             /\ v.wrote = w.wrote
  BY <1>2, <1>4 DEF Operation
<1>5. ASSUME w.writes # <<>>
      PROVE  LET v == [w EXCEPT !.writes = Tail(@), !.wrote = @ \cup {Head(w.writes)}] IN
             /\ v \in Operation
             /\ v.kind = w.kind /\ v.checks = w.checks /\ v.writes = Tail(w.writes)
             /\ v.wrote = w.wrote \cup {Head(w.writes)}
  <2> DEFINE u == [w EXCEPT !.writes = Tail(@)]
             v == [u EXCEPT !.wrote = w.wrote \cup {Head(w.writes)}]
  <2>1. /\ u \in Operation /\ u.kind = w.kind /\ u.checks = w.checks
        /\ u.writes = Tail(w.writes) /\ u.wrote = w.wrote
    BY <1>1, <1>3, <1>5 DEF Operation
  <2> HIDE DEF u
  <2>2. w.wrote \cup {Head(w.writes)} \in SUBSET Files
    BY <1>1, <1>3, <1>5
  <2>3. /\ v \in Operation /\ v.kind = u.kind /\ v.checks = u.checks /\ v.writes = u.writes
        /\ v.wrote = w.wrote \cup {Head(w.writes)}
    BY <2>1, <2>2 DEF Operation
  <2> QED
    BY <2>1, <2>3 DEF u
<1> QED
  BY <1>4, <1>5

-----------------------------------------------------------------------------
\* An operation becomes another one.
LEMMA OperationMoves ==
    ASSUME FilesTypeOK, NEW r \in Requesters, NEW w \in Operation,
           operation' = [operation EXCEPT ![r] = w]
    PROVE  /\ operation' \in [Requesters -> Operation]
           /\ operation'[r] = w
           /\ \A q \in Requesters \ {r} : operation'[q] = operation[q]
  BY DEF FilesTypeOK

\* A request that starts is an operation.
LEMMA StartsAreOperations ==
    ASSUME NEW r \in Requesters
    PROVE  /\ \A kind \in DOMAIN Writes : Work(kind, <<>>, Writes[kind]) \in Operation
           /\ Work("template", <<"template">>, <<"template">>) \in Operation
           /\ \A upload \in Seq(Files) : Work("restore", upload, upload) \in Operation
<1>1. <<>> \in Seq(Files) /\ <<"template">> \in Seq(Files)
  BY EmptySeq DEF Files
<1>2. \A kind \in DOMAIN Writes : kind \in Kinds /\ Writes[kind] \in Seq(Files)
  BY WritesProperties DEF Kinds
<1>3. "template" \in Kinds /\ "restore" \in Kinds
  BY DEF Kinds
<1> QED
  BY <1>1, <1>2, <1>3, WorkProperties

\* What CheckFile and FailWrite leave of an operation.
LEMMA FailsProperties ==
    ASSUME FilesTypeOK, NEW r \in Requesters, Fails(r)
    PROVE  operation' = [operation EXCEPT ![r] = NoWork] /\ halfWritten' \in BOOLEAN
  BY DEF Fails, FilesTypeOK

\* The type invariant.
LEMMA NextFilesTypeOK == FilesTypeOK /\ [FilesNext]_fileVars => FilesTypeOK'
<1> SUFFICES ASSUME FilesTypeOK, [FilesNext]_fileVars PROVE FilesTypeOK'
  OBVIOUS
<1>1. CASE UNCHANGED fileVars
  BY <1>1 DEF fileVars, ghosts, FilesTypeOK
<1>2. ASSUME NEW r \in Requesters, NEW kind \in DOMAIN Writes, StartRequest(r, kind)
      PROVE  FilesTypeOK'
  <2>1. operation' \in [Requesters -> Operation]
    BY <1>2, StartsAreOperations, OperationMoves DEF StartRequest
  <2> QED
    BY <1>2, <2>1 DEF StartRequest, MayStart, ghosts, FilesTypeOK
<1>3. ASSUME NEW r \in Requesters, StartTemplate(r) PROVE FilesTypeOK'
  <2>1. operation' \in [Requesters -> Operation]
    BY <1>3, StartsAreOperations, OperationMoves DEF StartTemplate
  <2> QED
    BY <1>3, <2>1 DEF StartTemplate, MayStart, ghosts, FilesTypeOK
<1>4. ASSUME NEW r \in Requesters, StartRestore(r) PROVE FilesTypeOK'
  <2>1. PICK upload \in Foreign \cup ({archive} \ {<<>>}) :
            /\ operation' = [operation EXCEPT ![r] = Work("restore", upload, upload)]
            /\ foreign' = (foreign \/ upload # archive)
    BY <1>4 DEF StartRestore
  <2>2. upload \in Seq(Files)
    BY FilesAssumption DEF FilesTypeOK
  <2>3. operation' \in [Requesters -> Operation]
    BY <2>1, <2>2, StartsAreOperations, OperationMoves
  <2> QED
    BY <1>4, <2>1, <2>3 DEF StartRestore, MayStart, FilesTypeOK
<1>5. ASSUME NEW r \in Requesters, CheckFile(r) PROVE FilesTypeOK'
  <2>1. operation[r] \in Operation /\ operation[r].checks # <<>>
    BY <1>5 DEF CheckFile, FilesTypeOK
  <2>2. operation' \in [Requesters -> Operation] /\ halfWritten' \in BOOLEAN
    <3>1. CASE Head(operation[r].checks) \in present
      BY <1>5, <3>1, FailsProperties, NoWorkProperties, OperationMoves DEF CheckFile
    <3>2. CASE Head(operation[r].checks) \notin present
      <4>1. /\ operation' = [operation EXCEPT ![r].checks = Tail(@)]
            /\ halfWritten' = halfWritten
        BY <1>5, <3>2 DEF CheckFile
      <4>2. operation' = [operation EXCEPT ![r] = [operation[r] EXCEPT !.checks = Tail(@)]]
        BY <4>1
      <4> QED
        BY <2>1, <4>1, <4>2, RestProperties, OperationMoves DEF FilesTypeOK
    <3> QED
      BY <3>1, <3>2
  <2> QED
    BY <1>5, <2>2 DEF CheckFile, FilesTypeOK
<1>6. ASSUME NEW r \in Requesters, WriteFile(r) PROVE FilesTypeOK'
  <2> DEFINE w == operation[r]
             v == IF Len(w.writes) = 1 THEN NoWork
                  ELSE [w EXCEPT !.writes = Tail(@), !.wrote = @ \cup {Head(w.writes)}]
  <2>1. w \in Operation /\ w.writes # <<>> /\ w.writes \in Seq(Files)
    BY <1>6 DEF WriteFile, MayWrite, FilesTypeOK, Operation
  <2>2. v \in Operation
    BY <2>1, NoWorkProperties, RestProperties
  <2>3. operation' = [operation EXCEPT ![r] = v]
    BY <1>6 DEF WriteFile
  <2> HIDE DEF v
  <2>4. operation' \in [Requesters -> Operation]
    BY <2>2, <2>3, OperationMoves
  <2>5. Head(w.writes) \in Files
    BY <2>1, HeadAndTail
  <2> QED
    BY <1>6, <2>4, <2>5 DEF WriteFile, FilesTypeOK
<1>7. ASSUME NEW r \in Requesters, FailWrite(r) PROVE FilesTypeOK'
  <2>1. operation[r].writes \in Seq(Files) /\ operation[r].writes # <<>>
    BY <1>7 DEF FailWrite, MayWrite, FilesTypeOK, Operation
  <2>2. Head(operation[r].writes) \in Files
    BY <2>1, HeadAndTail
  <2>3. operation' \in [Requesters -> Operation] /\ halfWritten' \in BOOLEAN
    BY <1>7, FailsProperties, NoWorkProperties, OperationMoves DEF FailWrite
  <2>4. PICK cut \in {{}, {Head(operation[r].writes)}} :
            /\ present' = present \cup cut
            /\ torn' = torn \cup cut
            /\ overwritten' = (overwritten \/ (cut # {} /\ Overwrites(r)))
    BY <1>7 DEF FailWrite
  <2> QED
    BY <1>7, <2>2, <2>3, <2>4 DEF FailWrite, FilesTypeOK
<1>8. CASE Backup
  BY <1>8, ListingIsList DEF Backup, ghosts, FilesTypeOK
<1>9. CASE StartEmpty
  BY <1>9 DEF StartEmpty, ghosts, FilesTypeOK
<1>10. CASE Kill
  <2>1. PICK cut \in SUBSET {r \in Requesters : MayWrite(r) /\ InPlace(r)} :
            LET files == {Head(operation[r].writes) : r \in cut} IN
            /\ present' = present \cup files
            /\ torn' = torn \cup files
            /\ overwritten' = (overwritten \/ \E r \in cut : Overwrites(r))
    BY <1>10 DEF Kill
  <2>2. ASSUME NEW r \in cut PROVE Head(operation[r].writes) \in Files
    <3>1. operation[r].writes \in Seq(Files) /\ operation[r].writes # <<>>
      BY DEF MayWrite, FilesTypeOK, Operation
    <3> QED
      BY <3>1, HeadAndTail
  <2>3. present' \subseteq Files /\ torn' \subseteq present' /\ overwritten' \in BOOLEAN
    BY <2>1, <2>2 DEF FilesTypeOK
  <2>4. operation' \in [Requesters -> Operation] /\ kills' \in Nat
        /\ UNCHANGED <<archive, operations, foreign, halfWritten>>
    BY <1>10, NoWorkProperties DEF Kill, FilesTypeOK
  <2> QED
    BY <2>3, <2>4 DEF FilesTypeOK
<1>11. CASE FilesNext
  BY <1>2, <1>3, <1>4, <1>5, <1>6, <1>7, <1>8, <1>9, <1>10, <1>11 DEF FilesNext
<1> QED
  BY <1>1, <1>11

\* Initially nothing exists and nobody works.
LEMMA InitFilesInv == FilesInit => FilesInv
<1> SUFFICES ASSUME FilesInit PROVE FilesInv
  OBVIOUS
<1>1. NoWork \in Operation
  BY NoWorkProperties
<1>2. FilesTypeOK
  <2>1. operation \in [Requesters -> Operation]
    BY <1>1 DEF FilesInit
  <2>2. archive \in Seq(Files)
    BY EmptySeq DEF FilesInit
  <2>3. operations \in Nat /\ kills \in Nat /\ present = {} /\ torn = {}
    BY DEF FilesInit
  <2>4. foreign \in BOOLEAN /\ overwritten \in BOOLEAN /\ halfWritten \in BOOLEAN
    BY DEF FilesInit
  <2> QED
    BY <2>1, <2>2, <2>3, <2>4 DEF FilesTypeOK
<1>3. ASSUME NEW r \in Requesters
      PROVE  Fits(operation[r], present, torn, archive)
  BY <1>3 DEF FilesInit, NoWork, Fits, Sound, ContractFirst, Holds
<1>4. ASSUME NEW q \in Requesters, NEW r \in Requesters PROVE Apart(operation[q], operation[r])
  BY DEF FilesInit, NoWork, Apart, Holds
<1>5. ASSUME NEW r \in Requesters PROVE Restores(operation[r], present, torn)
  BY <1>5 DEF FilesInit, NoWork, Restores
<1> QED
  BY <1>2, <1>3, <1>4, <1>5
     DEF FilesInit, FilesInv, Contracted, ContractFirst, SimulationLast

\* One operation becomes another that fits what is there then: the others still fit.
LEMMA OneOperationMoves ==
    ASSUME FilesInv, NEW r \in Requesters, NEW w \in Operation,
           operation' = [operation EXCEPT ![r] = w],
           FilesTypeOK', archive' = archive, ~ foreign',
           "simulation" \in present' => "contract" \in present' \ torn',
           Fits(w, present', torn', archive), Restores(w, present', torn'),
           "contract" \in present \ torn => "contract" \in present' \ torn',
           \A q \in Requesters \ {r} :
                /\ Apart(operation[q], w)
                /\ operation[q].kind = "restore"
                    => (present \ torn) \ {"template"} \subseteq present' \ torn'
                /\ Holds(operation[q].writes, "contract") /\ "contract" \in present'
                    => "contract" \in present
    PROVE  FilesInv'
<1>1. FilesTypeOK
  BY DEF FilesInv
<1>2. /\ operation'[r] = w
      /\ \A q \in Requesters \ {r} : operation'[q] = operation[q]
  BY <1>1, OperationMoves
<1>3. ASSUME NEW q \in Requesters
      PROVE  Restores(operation'[q], present', torn')
  <2>1. CASE q # r
    BY <1>2, <2>1 DEF FilesInv, Restores
  <2> QED
    BY <1>2, <2>1
<1>4. ASSUME NEW q \in Requesters
      PROVE  Fits(operation'[q], present', torn', archive')
  <2>1. CASE q = r
    BY <1>2, <2>1
  <2>2. CASE q # r
    <3>1. Fits(operation[q], present, torn, archive)
      BY DEF FilesInv
    <3>2. Fits(operation[q], present', torn', archive)
      BY <2>2, <3>1 DEF Fits, WritesContract
    <3> QED
      BY <1>2, <2>2, <3>2
  <2> QED
    BY <2>1, <2>2
<1>5. ASSUME NEW q \in Requesters, NEW p \in Requesters, q # p
      PROVE  Apart(operation'[q], operation'[p])
  <2>1. CASE q # r /\ p # r
    BY <1>2, <1>5, <2>1 DEF FilesInv
  <2>2. CASE p = r
    BY <1>2, <1>5, <2>2
  <2>3. CASE q = r
    <3>1. Apart(operation[p], w)
      BY <1>5, <2>3
    <3>2. Apart(w, operation[p])
      BY <3>1 DEF Apart
    <3> QED
      BY <1>2, <1>5, <2>3, <3>2
  <2> QED
    BY <2>1, <2>2, <2>3
<1>6. ContractFirst(archive') /\ SimulationLast(archive')
  BY DEF FilesInv
<1> QED
  BY <1>3, <1>4, <1>5, <1>6 DEF FilesInv, Contracted

\* An operation may end at any time.
LEMMA EndFits ==
    ASSUME NEW p, NEW t, NEW a, NEW v
    PROVE  Fits(NoWork, p, t, a) /\ Restores(NoWork, p, t) /\ Apart(v, NoWork)
<1>1. NoWork.kind = "none" /\ NoWork.checks = <<>> /\ NoWork.writes = <<>> /\ NoWork.wrote = {}
  BY DEF NoWork
<1>2. ContractFirst(<<>>) /\ ~ Holds(<<>>, "contract")
  BY DEF ContractFirst, Holds
<1> QED
  BY <1>1, <1>2 DEF Fits, Sound, Restores, Apart

\* So they do if it writes no file.
LEMMA OneWorks ==
    ASSUME FilesInv, NEW r \in Requesters, NEW w \in Operation,
           operation' = [operation EXCEPT ![r] = w],
           FilesTypeOK', UNCHANGED <<present, torn, archive>>, ~ foreign',
           Fits(w, present, torn, archive), Restores(w, present, torn),
           \A q \in Requesters \ {r} : Apart(operation[q], w)
    PROVE  FilesInv'
<1>1. Contracted
  BY DEF FilesInv
<1>2. present' = present /\ torn' = torn /\ archive' = archive
  OBVIOUS
<1>3. /\ "simulation" \in present' => "contract" \in present' \ torn'
      /\ "contract" \in present \ torn => "contract" \in present' \ torn'
      /\ Fits(w, present', torn', archive)
      /\ Restores(w, present', torn')
  BY <1>1, <1>2 DEF Contracted
<1>4. \A q \in Requesters \ {r} :
        /\ Apart(operation[q], w)
        /\ operation[q].kind = "restore"
            => (present \ torn) \ {"template"} \subseteq present' \ torn'
        /\ Holds(operation[q].writes, "contract") /\ "contract" \in present'
            => "contract" \in present
  BY <1>2
<1> QED
  BY <1>2, <1>3, <1>4, OneOperationMoves

\* A request that starts fits: a creation or an import finds nothing of the simulation.
LEMMA RequestKeeps ==
    ASSUME FilesInv, NEW r \in Requesters, NEW kind \in DOMAIN Writes, StartRequest(r, kind),
           FilesTypeOK'
    PROVE  FilesInv'
<1> DEFINE none == <<>>
           w == Work(kind, none, Writes[kind])
<1>1. kind \in Kinds /\ Writes[kind] \in Seq(Files) /\ none \in Seq(Files)
  <2>1. kind \in Kinds
    BY DEF Kinds
  <2>2. <<>> \in Seq(Files)
    BY EmptySeq, Zenon
  <2> QED
    BY <2>1, <2>2, WritesProperties
<1> HIDE DEF none
<1>2. /\ w \in Operation /\ w.kind = kind /\ w.checks = none /\ w.writes = Writes[kind]
      /\ w.wrote = {}
  BY <1>1, WorkProperties
<1>3. operation' = [operation EXCEPT ![r] = w]
  BY DEF StartRequest, none
<1> HIDE DEF w
<1>4. kind \notin {"template", "restore"}
  BY DEF Writes
<1>5. UNCHANGED <<present, torn, archive>> /\ ~ foreign'
  BY DEF StartRequest, ghosts, FilesInv
<1>6. FilesTypeOK /\ Contracted
  BY DEF FilesInv
<1>7. CASE kind \in {"create", "import"}
  <2>1. Unknown
    BY <1>7 DEF StartRequest
  <2>2. ASSUME NEW q \in Requesters PROVE ~ Holds(operation[q].writes, "contract")
    <3>1. operation[q].writes \in Seq(Files)
      BY <1>6 DEF FilesTypeOK, Operation
    <3>2. ToSet(operation[q].writes) \subseteq {"template"}
      BY <2>1 DEF Unknown
    <3> QED
      BY <3>1, <3>2, HoldsMember
  <2>3. "contract" \notin present /\ ~ Holds(archive, "contract")
    <3>1. (present \cup ToSet(archive)) \subseteq {"template"} /\ archive \in Seq(Files)
      BY <1>6, <2>1 DEF Unknown, FilesTypeOK
    <3> QED
      BY <3>1, HoldsMember
  <2>4. ContractFirst(w.writes)
    BY <1>2, <1>7, WritesProperties
  <2>5. Fits(w, present, torn, archive)
    BY <1>2, <1>4, <1>7, <2>3, <2>4 DEF Fits, Sound, WritesContract, Creating, none
  <2>7. Restores(w, present, torn)
    BY <1>2, <1>4 DEF Restores
  <2>6. \A q \in Requesters \ {r} : Apart(operation[q], w)
    BY <1>2, <1>4, <2>2 DEF Apart
  <2> QED
    BY <1>2, <1>3, <1>5, <2>5, <2>6, <2>7, OneWorks
<1>8. CASE kind \notin {"create", "import"}
  <2>1. "simulation" \in present
    BY <1>8 DEF StartRequest
  <2>2. "contract" \in present \ torn
    BY <1>6, <2>1 DEF Contracted
  <2>3. ~ Holds(w.writes, "contract")
    BY <1>2, <1>8, WritesProperties
  <2>4. Fits(w, present, torn, archive)
    BY <1>2, <1>4, <2>2, <2>3 DEF Fits, Sound, none
  <2>6. Restores(w, present, torn)
    BY <1>2, <1>4 DEF Restores
  <2>5. \A q \in Requesters \ {r} : Apart(operation[q], w)
    BY <1>2, <1>4, <2>3 DEF Apart
  <2> QED
    BY <1>2, <1>3, <1>5, <2>4, <2>5, <2>6, OneWorks
<1> QED
  BY <1>7, <1>8

\* The creation of a template has nothing to do with the simulation.
LEMMA TemplateKeeps ==
    ASSUME FilesInv, NEW r \in Requesters, StartTemplate(r), FilesTypeOK'
    PROVE  FilesInv'
<1> DEFINE s == <<"template">>
           w == Work("template", s, s)
<1>0. "template" \in Kinds
  BY DEF Kinds
<1>1. s \in Seq(Files) /\ ~ Holds(s, "contract") /\ ContractFirst(s)
  BY DEF Files, Holds, ContractFirst
<1> HIDE DEF s
<1>2. /\ w \in Operation /\ w.kind = "template" /\ w.checks = s /\ w.writes = s
      /\ w.wrote = {}
  BY <1>0, <1>1, WorkProperties
<1>3. operation' = [operation EXCEPT ![r] = w]
  BY DEF StartTemplate, s
<1>4. w.writes = <<"template">>
  BY <1>2 DEF s
<1> HIDE DEF w
<1>5. UNCHANGED <<present, torn, archive>> /\ ~ foreign'
  BY DEF StartTemplate, ghosts, FilesInv
<1>6. FilesTypeOK /\ Contracted
  BY DEF FilesInv
<1>7. Fits(w, present, torn, archive)
  BY <1>1, <1>2, <1>4 DEF Fits, Sound
<1>8. Restores(w, present, torn)
  BY <1>2 DEF Restores
<1>9. \A q \in Requesters \ {r} : Apart(operation[q], w)
  BY <1>1, <1>2 DEF Apart
<1> QED
  BY <1>2, <1>3, <1>5, <1>7, <1>8, <1>9, OneWorks

\* A restore that starts fits the backup it restores, which no creation has met.
LEMMA RestoreKeeps ==
    ASSUME FilesInv, NEW r \in Requesters, StartRestore(r), FilesTypeOK', ~ foreign'
    PROVE  FilesInv'
<1> DEFINE w == Work("restore", archive, archive)
<1>1. "restore" \in Kinds /\ archive \in Seq(Files) /\ ContractFirst(archive)
      /\ SimulationLast(archive)
  BY DEF FilesInv, FilesTypeOK, Kinds
<1>2. /\ w \in Operation /\ w.kind = "restore" /\ w.checks = archive /\ w.writes = archive
      /\ w.wrote = {}
  BY <1>1, WorkProperties
<1>3. operation' = [operation EXCEPT ![r] = w]
  BY DEF StartRestore
<1> HIDE DEF w
<1>4. UNCHANGED <<present, torn, archive>> /\ ~ foreign'
  BY DEF StartRestore, ghosts, FilesInv
<1>5. FilesTypeOK /\ Contracted
  BY DEF FilesInv
<1>6. Fits(w, present, torn, archive)
  BY <1>1, <1>2 DEF Fits, Sound, WritesContract, Creating
<1>7. Restores(w, present, torn)
  BY <1>1, <1>2 DEF Restores
<1>8. ASSUME NEW q \in Requesters \ {r} PROVE Apart(operation[q], w)
  <2>1. operation[q].kind # "restore"
    BY DEF StartRestore
  <2>2. Holds(operation[q].writes, "contract") => ~ Holds(archive, "contract")
    BY <2>1 DEF FilesInv, Fits, WritesContract
  <2> QED
    BY <1>2, <2>1, <2>2 DEF Apart
<1> QED
  BY <1>2, <1>3, <1>4, <1>5, <1>6, <1>7, <1>8, OneWorks

\* A check ends the operation, before it has written, or finds the file absent.
LEMMA CheckKeeps ==
    ASSUME FilesInv, NEW r \in Requesters, CheckFile(r), FilesTypeOK'
    PROVE  FilesInv'
<1> DEFINE w == operation[r]
<1>1. /\ w \in Operation
      /\ Fits(w, present, torn, archive)
      /\ Restores(w, present, torn)
  BY DEF FilesInv, FilesTypeOK, Operation
<1>2. w.checks # <<>> /\ w.checks \in Seq(Files) /\ w.wrote = {}
  BY <1>1 DEF CheckFile, Operation, Fits, Sound
<1>3. UNCHANGED <<present, torn, archive>> /\ ~ foreign'
  BY DEF CheckFile, FilesInv
<1>4. CASE Head(w.checks) \in present
  <2>1. operation' = [operation EXCEPT ![r] = NoWork]
    BY <1>4 DEF CheckFile, Fails
  <2> QED
    BY <1>3, <2>1, NoWorkProperties, EndFits, OneWorks
<1>5. CASE Head(w.checks) \notin present
  <2> DEFINE v == [w EXCEPT !.checks = Tail(@)]
  <2>1. operation' = [operation EXCEPT ![r] = v]
    BY <1>5 DEF CheckFile
  <2>2. /\ v \in Operation /\ v.kind = w.kind /\ v.checks = Tail(w.checks)
        /\ v.writes = w.writes /\ v.wrote = w.wrote
    BY <1>1, <1>2, RestProperties
  <2> HIDE DEF v
  <2>3. Sound(v)
    BY <1>1, <1>2, <2>2 DEF Fits, Sound
  <2>4. "contract" \in present /\ Holds(w.checks, "contract") => Holds(v.checks, "contract")
    BY <1>2, <1>5, <2>2, HoldsTail
  <2>5. Fits(v, present, torn, archive)
    BY <1>1, <2>2, <2>3, <2>4 DEF Fits, WritesContract, Creating
  <2>6. \A q \in Requesters \ {r} : Apart(operation[q], v)
    BY <2>2 DEF FilesInv, Apart
  <2>7. Restores(v, present, torn)
    BY <1>1, <2>2 DEF Restores
  <2> QED
    BY <1>3, <2>1, <2>2, <2>5, <2>6, <2>7, OneWorks
<1> QED
  BY <1>4, <1>5

\* A write of the contract makes the simulation's files whole; a write of the simulation
\* comes after it; other writes change nothing about the two.
LEMMA WriteKeeps ==
    ASSUME FilesInv, NEW r \in Requesters, WriteFile(r), FilesTypeOK'
    PROVE  FilesInv'
<1> DEFINE w == operation[r]
           file == Head(w.writes)
           v == IF Len(w.writes) = 1 THEN NoWork
                ELSE [w EXCEPT !.writes = Tail(@), !.wrote = @ \cup {file}]
<1>1. /\ FilesTypeOK /\ Contracted /\ w \in Operation
      /\ Fits(w, present, torn, archive)
      /\ Restores(w, present, torn)
  BY DEF FilesInv, FilesTypeOK
<1>2. w.checks = <<>> /\ w.writes # <<>> /\ w.writes \in Seq(Files)
  BY <1>1 DEF WriteFile, MayWrite, Operation
<1>3. ~ Holds(w.checks, "contract")
  BY <1>2 DEF Holds
<1>4. /\ file \in Files /\ Len(w.writes) \in Nat /\ file = w.writes[1]
  BY <1>2, HeadAndTail
<1>5. /\ present' = present \cup {file} /\ torn' = torn \ {file} /\ archive' = archive
      /\ operation' = [operation EXCEPT ![r] = v]
  BY DEF WriteFile
<1>6. ~ foreign'
  BY DEF WriteFile, FilesInv
<1>7. present \ torn \subseteq present' \ torn' /\ file \in present' \ torn'
  BY <1>5
<1>8. /\ v \in Operation
      /\ \/ v = NoWork
         \/ /\ v.kind = w.kind /\ v.checks = w.checks /\ v.writes = Tail(w.writes)
            /\ v.wrote = w.wrote \cup {file}
            /\ Len(w.writes) # 1
  <2>1. CASE Len(w.writes) = 1
    BY <2>1, NoWorkProperties
  <2>2. CASE Len(w.writes) # 1
    BY <1>1, <1>2, <2>2, RestProperties
  <2> QED
    BY <2>1, <2>2
<1>9. \A q \in Requesters \ {r} : Apart(operation[q], w)
  BY DEF FilesInv
<1> HIDE DEF v, file, w
<1>10. Sound(v)
  <2>1. CASE v = NoWork
    BY <2>1, EndFits DEF Fits
  <2>2. CASE v # NoWork
    <3>1. w.kind # "template"
      <4>1. Len(<<"template">>) = 1
        OBVIOUS
      <4> QED
        BY <1>1, <1>8, <2>2, <4>1 DEF Fits, Sound
    <3> QED
      BY <1>2, <1>8, <2>2, <3>1 DEF Sound
  <2> QED
    BY <2>1, <2>2
<1>11. ASSUME NEW other, Holds(v.writes, other)
       PROVE  v # NoWork /\ Holds(Tail(w.writes), other) /\ Holds(w.writes, other)
  <2>1. v # NoWork
    BY <1>11 DEF NoWork, Holds
  <2> QED
    BY <1>2, <1>8, <1>11, <2>1, HoldsTail
<1>12. ASSUME NEW q \in Requesters \ {r} PROVE Apart(operation[q], v)
  <2>1. v.kind = "restore" => w.kind = "restore"
    BY <1>8 DEF NoWork
  <2> QED
    BY <1>9, <1>11, <2>1 DEF Apart
<1>13. Restores(v, present', torn')
  <2>1. CASE v = NoWork
    BY <2>1, EndFits
  <2>2. CASE v # NoWork
    <3>1. SimulationLast(w.writes) => SimulationLast(Tail(w.writes))
      BY <1>2, TailSimulationLast
    <3> QED
      BY <1>1, <1>7, <1>8, <2>2, <3>1 DEF Restores
  <2> QED
    BY <2>1, <2>2
<1>14. CASE file = "contract"
  <2>1. Holds(w.writes, "contract")
    BY <1>2, <1>14, HoldsTail DEF file
  <2>2. ContractFirst(w.writes)
    BY <1>1, <2>1 DEF Fits, WritesContract
  <2>3. ~ Holds(v.writes, "contract")
    BY <1>2, <1>11, <1>14, <2>2, TailContractFirst DEF file
  <2>4. "contract" \in present' \ torn'
    BY <1>5, <1>14
  <2>5. Fits(v, present', torn', archive)
    BY <1>10, <2>3, <2>4 DEF Fits
  <2>6. \A q \in Requesters \ {r} : ~ Holds(operation[q].writes, "contract")
    BY <1>9, <2>1 DEF Apart
  <2> QED
    BY <1>5, <1>6, <1>7, <1>8, <1>12, <1>13, <2>4, <2>5, <2>6, OneOperationMoves
<1>15. CASE file # "contract"
  <2>1. "contract" \in present' <=> "contract" \in present
    BY <1>5, <1>15
  <2>2. "contract" \in present \ torn => "contract" \in present' \ torn'
    BY <1>5, <1>15
  <2>3. ContractFirst(w.writes) => file # "simulation" /\ ContractFirst(Tail(w.writes))
    BY <1>2, <1>15, TailContractFirst DEF file
  <2>4. "simulation" \in present' => "contract" \in present' \ torn'
    <3>1. CASE file = "simulation"
      BY <1>1, <2>2, <2>3, <3>1 DEF Fits
    <3>2. CASE file # "simulation"
      BY <1>1, <1>5, <2>2, <3>2 DEF Contracted
    <3> QED
      BY <3>1, <3>2
  <2>5. Fits(v, present', torn', archive)
    <3>1. CASE v = NoWork
      BY <3>1, EndFits
    <3>2. CASE v # NoWork
      <4>1. "contract" \in present' \ torn' \/ ContractFirst(v.writes)
        BY <1>1, <1>8, <2>2, <2>3, <3>2 DEF Fits
      <4>2. ASSUME Holds(v.writes, "contract") PROVE WritesContract(v, present', archive)
        <5>1. WritesContract(w, present, archive)
          BY <1>1, <1>11, <4>2 DEF Fits
        <5> QED
          BY <1>3, <1>8, <2>1, <2>3, <3>2, <5>1 DEF WritesContract, Creating
      <4> QED
        BY <1>10, <4>1, <4>2 DEF Fits
    <3> QED
      BY <3>1, <3>2
  <2> QED
    BY <1>5, <1>6, <1>7, <1>8, <1>12, <1>13, <2>1, <2>2, <2>4, <2>5, OneOperationMoves
<1> QED
  BY <1>14, <1>15

\* A write that fails ends its operation; a contract that it cuts off is a restored one,
\* whose simulation is not there yet.
LEMMA FailKeeps ==
    ASSUME FilesInv, NEW r \in Requesters, FailWrite(r), FilesTypeOK'
    PROVE  FilesInv'
<1> DEFINE w == operation[r]
           file == Head(w.writes)
<1>1. /\ FilesTypeOK /\ Contracted /\ w \in Operation
      /\ Fits(w, present, torn, archive)
  BY DEF FilesInv, FilesTypeOK
<1>2. w.checks = <<>> /\ w.writes # <<>> /\ w.writes \in Seq(Files)
  BY <1>1 DEF FailWrite, MayWrite, Operation
<1>3. PICK cut \in {{}} \cup IF InPlace(r) THEN {{file}} ELSE {} :
        present' = present \cup cut /\ torn' = torn \cup cut
  BY DEF FailWrite
<1>4. /\ operation' = [operation EXCEPT ![r] = NoWork]
      /\ archive' = archive /\ ~ foreign'
  BY DEF FailWrite, Fails, FilesInv
<1>5. ASSUME cut # {} PROVE cut = {file} /\ (w.kind = "restore" \/ file = "template")
  <2>1. cut = {file} /\ w.kind \in {"template", "restore"}
    BY <1>3, <1>5 DEF InPlace
  <2>2. Head(<<"template">>) = "template"
    OBVIOUS
  <2> QED
    BY <1>1, <2>1, <2>2 DEF Fits, Sound
<1>6. ASSUME file = "contract"
      PROVE  "contract" \notin present /\ Holds(w.writes, "contract")
  <2>1. Holds(w.writes, "contract") /\ ~ Holds(w.checks, "contract")
    BY <1>2, <1>6, HoldsTail DEF Holds
  <2> QED
    BY <1>1, <2>1 DEF Fits, WritesContract
<1>7. file = "simulation" => "contract" \in present \ torn
  BY <1>1, <1>2, TailContractFirst DEF Fits
<1>8. /\ "simulation" \in present' => "contract" \in present' \ torn'
      /\ "contract" \in present \ torn => "contract" \in present' \ torn'
  <2>1. CASE cut = {}
    BY <1>1, <1>3, <2>1 DEF Contracted
  <2>2. CASE cut # {} /\ file = "contract"
    BY <1>1, <1>3, <1>5, <1>6, <2>2 DEF Contracted
  <2>3. CASE cut # {} /\ file # "contract"
    BY <1>1, <1>3, <1>5, <1>7, <2>3 DEF Contracted
  <2> QED
    BY <2>1, <2>2, <2>3
<1>9. ASSUME NEW q \in Requesters \ {r}
      PROVE  /\ operation[q].kind = "restore"
                => (present \ torn) \ {"template"} \subseteq present' \ torn'
             /\ Holds(operation[q].writes, "contract") /\ "contract" \in present'
                => "contract" \in present
  <2>1. Apart(operation[q], w)
    BY DEF FilesInv
  <2>2. CASE cut = {}
    BY <1>3, <2>2
  <2>3. CASE cut # {}
    BY <1>3, <1>5, <1>6, <2>1, <2>3 DEF Apart
  <2> QED
    BY <2>2, <2>3
<1> QED
  BY <1>4, <1>8, <1>9, NoWorkProperties, EndFits, OneOperationMoves

\* A backup has the contract only if it is there, so no creation has it still to write.
LEMMA BackupKeeps ==
    ASSUME FilesInv, Backup, FilesTypeOK'
    PROVE  FilesInv'
<1>1. /\ archive' = Listing /\ ContractFirst(Listing) /\ SimulationLast(Listing)
      /\ Holds(Listing, "contract") => "contract" \in present
  BY ListingProperties DEF Backup, FilesInv
<1>2. UNCHANGED <<present, torn, operation, foreign>>
  BY DEF Backup, ghosts
<1>3. ASSUME NEW r \in Requesters PROVE Fits(operation[r], present, torn, archive')
  <2>1. Fits(operation[r], present, torn, archive)
    BY DEF FilesInv
  <2>2. ASSUME Holds(operation[r].writes, "contract")
        PROVE  WritesContract(operation[r], present, archive')
    <3>1. WritesContract(operation[r], present, archive)
      BY <2>1, <2>2 DEF Fits
    <3>2. ASSUME Creating(operation[r]) PROVE "contract" \notin present
      <4>1. operation[r].checks = <<>>
        BY <2>1, <3>2 DEF Fits, Sound, Creating
      <4>2. ~ Holds(operation[r].checks, "contract")
        BY <4>1 DEF Holds
      <4> QED
        BY <3>1, <4>2 DEF WritesContract
    <3> QED
      BY <1>1, <3>1, <3>2 DEF WritesContract
  <2> QED
    BY <2>1, <2>2 DEF Fits
<1> QED
  BY <1>1, <1>2, <1>3 DEF FilesInv, Contracted

\* When all operations have ended, only the files and the backup are left to speak of.
LEMMA AllEnded ==
    ASSUME FilesTypeOK', Contracted', ContractFirst(archive'), SimulationLast(archive'),
           ~ foreign',
           operation' = [r \in Requesters |-> NoWork]
    PROVE  FilesInv'
<1>1. \A r \in Requesters : operation'[r] = NoWork
  OBVIOUS
<1>2. \A r \in Requesters : Fits(operation'[r], present', torn', archive')
  BY <1>1, EndFits
<1>3. \A q, r \in Requesters : Apart(operation'[q], operation'[r])
  BY <1>1, EndFits
<1>4. \A r \in Requesters : Restores(operation'[r], present', torn')
  BY <1>1, EndFits
<1> QED
  BY <1>2, <1>3, <1>4 DEF FilesInv

\* A lost workspace has no simulation.
LEMMA EmptyKeeps ==
    ASSUME FilesInv, StartEmpty, FilesTypeOK'
    PROVE  FilesInv'
<1>1. /\ present' = {} /\ torn' = {}
      /\ UNCHANGED <<archive, operation, foreign>>
  BY DEF StartEmpty, ghosts
<1>2. operation' = [r \in Requesters |-> NoWork]
  BY <1>1 DEF StartEmpty, FilesInv, FilesTypeOK
<1> QED
  BY <1>1, <1>2, AllEnded DEF FilesInv, Contracted

\* A contract that is cut off is a restored one, whose simulation is not there yet.
LEMMA KillKeeps ==
    ASSUME FilesInv, Kill, FilesTypeOK'
    PROVE  FilesInv'
<1>1. PICK cut \in SUBSET {r \in Requesters : MayWrite(r) /\ InPlace(r)} :
        LET files == {Head(operation[r].writes) : r \in cut} IN
        present' = present \cup files /\ torn' = torn \cup files
  BY DEF Kill
<1> DEFINE files == {Head(operation[r].writes) : r \in cut}
<1>2. present' = present \cup files /\ torn' = torn \cup files
  BY <1>1
<1>3. ASSUME NEW r \in cut
      PROVE  /\ r \in Requesters
             /\ operation[r].writes \in Seq(Files)
             /\ operation[r].writes # <<>>
             /\ operation[r].checks = <<>>
             /\ operation[r].kind \in {"template", "restore"}
             /\ Fits(operation[r], present, torn, archive)
  BY DEF MayWrite, InPlace, FilesInv, FilesTypeOK, Operation
<1>5. ASSUME NEW r \in cut, Head(operation[r].writes) \in {"contract", "simulation"}
      PROVE  operation[r].kind = "restore"
  <2>1. Head(<<"template">>) = "template"
    OBVIOUS
  <2> QED
    BY <1>3, <1>5, <2>1 DEF Fits, Sound
<1>6. ASSUME NEW r \in cut, Head(operation[r].writes) = "contract"
      PROVE  "contract" \notin present /\ ContractFirst(operation[r].writes)
  <2>1. Holds(operation[r].writes, "contract")
    BY <1>3, <1>6, HoldsTail
  <2>2. ~ Holds(operation[r].checks, "contract")
    BY <1>3 DEF Holds
  <2> QED
    BY <1>3, <2>1, <2>2 DEF Fits, WritesContract
<1>7. ASSUME NEW r \in cut, Head(operation[r].writes) = "simulation"
      PROVE  "contract" \in present \ torn
  BY <1>3, <1>7, TailContractFirst DEF Fits
<1>8. "simulation" \in present' => "contract" \in present' \ torn'
  <2>1. CASE "contract" \in files
    <3>1. PICK r \in cut : Head(operation[r].writes) = "contract"
      BY <2>1
    <3>2. "contract" \notin present
      BY <3>1, <1>6
    <3>3. "simulation" \notin files
      BY <1>7, <3>2
    <3> QED
      BY <1>2, <3>2, <3>3 DEF FilesInv, Contracted
  <2>2. CASE "contract" \notin files
    <3>1. "simulation" \in files => "contract" \in present \ torn
      BY <1>7
    <3>2. "simulation" \in present => "contract" \in present \ torn
      BY DEF FilesInv, Contracted
    <3> QED
      BY <1>2, <2>2, <3>1, <3>2
  <2> QED
    BY <2>1, <2>2
<1>9. /\ archive' = archive /\ ~ foreign'
      /\ operation' = [r \in Requesters |-> NoWork]
  BY DEF Kill, FilesInv
<1> QED
  BY <1>8, <1>9, AllEnded DEF FilesInv, Contracted

\* Every step keeps every conjunct, while no other archive is uploaded.
LEMMA NextFilesInv == FilesInv /\ [FilesNext]_fileVars /\ ~ foreign' => FilesInv'
<1> SUFFICES ASSUME FilesInv, [FilesNext]_fileVars, ~ foreign' PROVE FilesInv'
  OBVIOUS
<1>1. FilesTypeOK'
  BY NextFilesTypeOK DEF FilesInv
<1>2. CASE UNCHANGED fileVars
  BY <1>1, <1>2 DEF fileVars, FilesInv, Contracted
<1>3. CASE FilesNext
  BY <1>1, <1>3, RequestKeeps, TemplateKeeps, RestoreKeeps, CheckKeeps, WriteKeeps, FailKeeps,
     BackupKeeps, EmptyKeeps, KillKeeps DEF FilesNext
<1> QED
  BY <1>2, <1>3

\* Once another archive was uploaded, nothing more is claimed.
SafeFiles == FilesTypeOK /\ (~ foreign => FilesInv)

LEMMA InitSafeFiles == FilesInit => SafeFiles
  BY InitFilesInv DEF SafeFiles, FilesInv

LEMMA NextSafeFiles == SafeFiles /\ [FilesNext]_fileVars => SafeFiles'
<1> SUFFICES ASSUME SafeFiles, [FilesNext]_fileVars PROVE SafeFiles'
  OBVIOUS
<1>1. FilesTypeOK'
  BY NextFilesTypeOK DEF SafeFiles
<1>2. ~ foreign' => ~ foreign
  BY DEF FilesNext, fileVars, ghosts, StartRequest, StartTemplate, StartRestore, CheckFile,
         WriteFile, FailWrite, Backup, StartEmpty, Kill
<1> QED
  BY <1>1, <1>2, NextFilesInv DEF SafeFiles

\* Wherever a creation, an import, a backup or a restore of any number of requests fails or
\* is cut short, a simulation that is listed has its contract, whole, as long as only
\* backups are restored.
THEOREM ListedAlwaysHasContract == FilesSpec => []ListedHasContract
<1>1. SafeFiles => ListedHasContract
  BY DEF SafeFiles, FilesInv, Contracted, ListedHasContract
<1> QED
  BY <1>1, InitSafeFiles, NextSafeFiles, PTL DEF FilesSpec

\* The step of the restore that lists the simulation.
ListsWhole(r) ==
    LET w == operation[r] IN
    /\ ~ foreign'
    /\ w.kind = "restore" /\ operation'[r] # w
    /\ "simulation" \in present' \ present
    => (w.wrote \cup ToSet(w.writes)) \ {"simulation", "template"} \subseteq present' \ torn'

\* Such a step writes the simulation or is cut short in it: it comes next, and all the others
\* were written before it.
LEMMA ListingStep ==
    ASSUME FilesInv, NEW r \in Requesters, operation[r].kind = "restore", MayWrite(r),
           Head(operation[r].writes) = "simulation",
           (present \ torn) \ {"simulation", "template"} \subseteq present' \ torn'
    PROVE  (operation[r].wrote \cup ToSet(operation[r].writes)) \ {"simulation", "template"}
                \subseteq present' \ torn'
<1> DEFINE w == operation[r]
<1>1. w.writes \in Seq(Files) /\ w.writes # <<>> /\ Restores(w, present, torn)
  BY DEF FilesInv, FilesTypeOK, Operation, MayWrite
<1>2. ToSet(w.writes) \subseteq {"simulation", "template"}
  BY <1>1, TailSimulationLast DEF Restores
<1>3. w.wrote \ {"template"} \subseteq present \ torn
  BY <1>1 DEF Restores
<1> QED
  BY <1>2, <1>3

\* No other step of the files lists a simulation on behalf of a restore.
LEMMA NextListsWhole ==
    ASSUME SafeFiles, FilesNext, NEW r \in Requesters
    PROVE  ListsWhole(r)
<1> SUFFICES ASSUME ~ foreign', operation[r].kind = "restore", operation'[r] # operation[r],
                    "simulation" \in present' \ present
             PROVE  (operation[r].wrote \cup ToSet(operation[r].writes))
                        \ {"simulation", "template"} \subseteq present' \ torn'
  BY DEF ListsWhole
<1>1. ~ foreign
  BY DEF FilesNext, ghosts, StartRequest, StartTemplate, StartRestore, CheckFile, WriteFile,
         FailWrite, Backup, StartEmpty, Kill
<1>2. FilesInv /\ FilesTypeOK
  BY <1>1 DEF SafeFiles
<1>3. ASSUME NEW q \in Requesters, NEW w, operation' = [operation EXCEPT ![q] = w] PROVE q = r
  <2>1. operation \in [Requesters -> Operation]
    BY <1>2 DEF FilesTypeOK
  <2> QED
    BY <1>3, <2>1
<1>4. ASSUME NEW q \in Requesters, WriteFile(q) PROVE q = r
  BY <1>3, <1>4 DEF WriteFile
<1>5. ASSUME NEW q \in Requesters, FailWrite(q) PROVE q = r
  BY <1>3, <1>5 DEF FailWrite, Fails
<1>6. CASE WriteFile(r)
  <2>1. MayWrite(r) /\ present' = present \cup {Head(operation[r].writes)}
        /\ torn' = torn \ {Head(operation[r].writes)}
    BY <1>6 DEF WriteFile
  <2> QED
    BY <1>2, <2>1, ListingStep
<1>7. CASE FailWrite(r)
  <2>1. MayWrite(r)
    BY <1>7 DEF FailWrite
  <2>2. PICK cut \in {{}} \cup IF InPlace(r) THEN {{Head(operation[r].writes)}} ELSE {} :
            present' = present \cup cut /\ torn' = torn \cup cut
    BY <1>7 DEF FailWrite
  <2>3. cut = {"simulation"} /\ Head(operation[r].writes) = "simulation"
    BY <2>2
  <2> QED
    BY <1>2, <2>1, <2>2, <2>3, ListingStep
<1>8. CASE Kill
  <2>1. PICK cut \in SUBSET {q \in Requesters : MayWrite(q) /\ InPlace(q)} :
            LET files == {Head(operation[q].writes) : q \in cut} IN
            present' = present \cup files /\ torn' = torn \cup files
    BY <1>8 DEF Kill
  <2> DEFINE files == {Head(operation[q].writes) : q \in cut}
  <2>2. present' = present \cup files /\ torn' = torn \cup files
    BY <2>1
  <2>3. ASSUME NEW q \in cut, q # r PROVE Head(operation[q].writes) = "template"
    <3>1. q \in Requesters /\ operation[q].kind \in {"template", "restore"}
      BY DEF InPlace
    <3>2. Apart(operation[q], operation[r]) /\ Fits(operation[q], present, torn, archive)
      BY <1>2, <2>3, <3>1 DEF FilesInv
    <3>3. operation[q].writes = <<"template">>
      BY <3>1, <3>2 DEF Apart, Fits, Sound
    <3> QED
      BY <3>3
  <2>4. r \in cut /\ Head(operation[r].writes) = "simulation"
    BY <2>2, <2>3
  <2>5. files \subseteq {"simulation", "template"}
    BY <2>3, <2>4
  <2> QED
    BY <1>2, <2>2, <2>4, <2>5, ListingStep
<1>9. ASSUME \/ \E q \in Requesters :
                \/ \E kind \in DOMAIN Writes : StartRequest(q, kind)
                \/ StartTemplate(q) \/ StartRestore(q) \/ CheckFile(q)
             \/ Backup
      PROVE  FALSE
  BY <1>9 DEF StartRequest, StartTemplate, StartRestore, CheckFile, Backup
<1>10. CASE StartEmpty
  BY <1>10 DEF StartEmpty
<1> QED
  BY <1>4, <1>5, <1>6, <1>7, <1>8, <1>9, <1>10 DEF FilesNext

\* Whatever fails, is killed or runs beside it: the restore of a backup that lists a
\* simulation has written all of its other files, whole.
THEOREM RestoresListWhole == FilesSpec => RestoredIsWhole
<1>1. SafeFiles /\ [FilesNext]_fileVars
        => [\A r \in Requesters :
                LET w == operation[r] IN
                /\ ~ foreign'
                /\ w.kind = "restore" /\ operation'[r] # w
                /\ "simulation" \in present' \ present
                => (w.wrote \cup ToSet(w.writes)) \ {"simulation", "template"}
                        \subseteq present' \ torn']_fileVars
  BY NextListsWhole DEF ListsWhole
<1> QED
  BY <1>1, InitSafeFiles, NextSafeFiles, PTL DEF FilesSpec, RestoredIsWhole
=============================================================================
