--------------------------- MODULE AIActions_proofs ---------------------------
(***************************************************************************)
(* What AIActions guarantees for any number of proposals, concurrent       *)
(* requests and crashes: an operation is begun at most once, what is told  *)
(* of it is true, the message follows the rows, and an action stays        *)
(* approved only in the ways that LeftApproved names.                      *)
(***************************************************************************)
EXTENDS AIActions, FiniteSetTheorems, TLAPS

-----------------------------------------------------------------------------
(* The inductive invariant.                                                *)

\* The request has claimed its action and is not done with it.
Working(r) == pc[r] \in {"operate", "await", "record", "report"}

BusyHasTarget == \A r \in Requests : pc[r] # "idle" => target[r] \in Actions

\* A claim excludes every other one, for good.
ClaimsAreExclusive ==
    /\ \A r, q \in Requests : Working(r) /\ Working(q) /\ target[r] = target[q] => r = q
    /\ \A r \in Requests : Working(r) => status[target[r]] # "proposed"

\* Nothing has happened to an action before it is claimed.
ProposedIsInert ==
    \A a \in Actions :
        status[a] = "proposed" => executions[a] = 0 /\ ended[a] = {} /\ reports[a] = {}

\* How far the operation of a claimed action has come.
Progress ==
    \A r \in Requests :
        /\ pc[r] = "operate" => executions[target[r]] = 0
        /\ pc[r] \in {"operate", "await"} => ended[target[r]] = {}
        /\ pc[r] \in {"record", "report"} => ended[target[r]] = {outcome[r]}
        /\ Working(r) => reports[target[r]] = {}

\* An operation has one outcome; the row and the reports tell it.
OneOutcome ==
    \A a \in Actions :
        /\ ended[a] = {} \/ \E result \in Outcomes : ended[a] = {result}
        /\ "executed" \in {status[a]} \cup reports[a] => ended[a] = {"ok"}
        /\ "failed" \in {status[a]} \cup reports[a] => ended[a] # {} /\ ended[a] \subseteq Failures

IInv ==
    /\ TypeOK /\ BusyHasTarget /\ ClaimsAreExclusive /\ ProposedIsInert /\ Progress
    /\ OneOutcome /\ ExecutedAtMostOnce /\ MessageFollowsRow /\ ApprovedIsInProgress

-----------------------------------------------------------------------------
\* A message just stored satisfies every conjunct.
LEMMA InitIInv == Init => IInv
  BY ActionAssumption DEF Init, IInv, TypeOK, BusyHasTarget, ClaimsAreExclusive,
     ProposedIsInert, Progress, OneOutcome, ExecutedAtMostOnce, MessageFollowsRow,
     ApprovedIsInProgress, Working, Statuses, Routes, Outcomes, Failures, Labels

\* An operation that ends tells its outcome where nothing was told before.
LEMMA OutcomeStep ==
  ASSUME IInv, NEW a \in Actions, ended[a] = {}, NEW result \in Outcomes,
         ended' = [ended EXCEPT ![a] = @ \cup {result}], UNCHANGED <<status, reports>>
  PROVE  OneOutcome'
<1> USE DEF IInv, TypeOK, OneOutcome
<1>1. "executed" \notin {status[a]} \cup reports[a] /\ "failed" \notin {status[a]} \cup reports[a]
  OBVIOUS
<1>2. ended'[a] = {result} /\ \A b \in Actions : b # a => ended'[b] = ended[b]
  OBVIOUS
<1>3. ASSUME NEW b \in Actions PROVE ended'[b] = {} \/ \E o \in Outcomes : ended'[b] = {o}
  BY <1>2
<1>4. ASSUME NEW b \in Actions, "executed" \in {status'[b]} \cup reports'[b] PROVE ended'[b] = {"ok"}
  BY <1>1, <1>2, <1>4
<1>5. ASSUME NEW b \in Actions, "failed" \in {status'[b]} \cup reports'[b]
      PROVE  ended'[b] # {} /\ ended'[b] \subseteq Failures
  BY <1>1, <1>2, <1>5
<1> QED
  BY <1>3, <1>4, <1>5

\* A row or a report that tells the outcome of an ended operation tells the truth.
LEMMA TellingStep ==
  ASSUME IInv, NEW a \in Actions, NEW result \in Outcomes, ended[a] = {result}, UNCHANGED ended,
         \A b \in Actions :
            {status'[b]} \cup reports'[b] \subseteq
                {status[b]} \cup reports[b] \cup (IF b = a THEN {Verdict(result)} ELSE {})
  PROVE  OneOutcome'
<1> USE DEF IInv, OneOutcome
<1>1. ASSUME NEW b \in Actions, "executed" \in {status'[b]} \cup reports'[b] PROVE ended'[b] = {"ok"}
  <2>1. CASE "executed" \in {status[b]} \cup reports[b]
    BY <2>1
  <2>2. CASE "executed" \notin {status[b]} \cup reports[b]
    <3>1. b = a /\ Verdict(result) = "executed"
      BY <1>1, <2>2
    <3> QED
      BY <3>1 DEF Verdict
  <2> QED
    BY <2>1, <2>2
<1>2. ASSUME NEW b \in Actions, "failed" \in {status'[b]} \cup reports'[b]
      PROVE  ended'[b] # {} /\ ended'[b] \subseteq Failures
  <2>1. CASE "failed" \in {status[b]} \cup reports[b]
    BY <2>1
  <2>2. CASE "failed" \notin {status[b]} \cup reports[b]
    <3>1. b = a /\ Verdict(result) = "failed"
      BY <1>2, <2>2
    <3> QED
      BY <3>1 DEF Verdict, Outcomes
  <2> QED
    BY <2>1, <2>2
<1> QED
  BY <1>1, <1>2

\* Every step of a request, the deletion of the conversation and a crash preserve IInv.
LEMMA NextIInv == IInv /\ [Next]_vars => IInv'
<1> SUFFICES ASSUME IInv, [Next]_vars PROVE IInv'
  OBVIOUS
<1> USE ActionAssumption
    DEF IInv, TypeOK, BusyHasTarget, ClaimsAreExclusive, ProposedIsInert, Progress,
        OneOutcome, ExecutedAtMostOnce, MessageFollowsRow, ApprovedIsInProgress,
        LeftApproved, Approving, Working, Statuses, Routes, Outcomes, Failures, Labels, Goto
<1>1. ASSUME NEW r \in Requests, NEW a \in Actions, NEW via \in Routes, InspectForApproval(r, a, via)
      PROVE  IInv'
  BY <1>1 DEF InspectForApproval, rows, ghosts
<1>2. ASSUME NEW r \in Requests, NEW a \in Actions, InspectForRejection(r, a)
      PROVE  IInv'
  BY <1>2 DEF InspectForRejection, rows, ghosts
<1>3. ASSUME NEW r \in Requests, ClaimAction(r) PROVE IInv'
  <2>1. TypeOK'
    BY <1>3 DEF ClaimAction, Return, ghosts
  <2>2. BusyHasTarget'
    BY <1>3 DEF ClaimAction, Return, ghosts
  <2>3. ClaimsAreExclusive'
    BY <1>3 DEF ClaimAction, Return, ghosts
  <2>4. ProposedIsInert'
    BY <1>3 DEF ClaimAction, Return, ghosts
  <2>5. Progress'
    BY <1>3 DEF ClaimAction, Return, ghosts
  <2>6. OneOutcome'
    BY <1>3 DEF ClaimAction, Return, ghosts
  <2>7. ExecutedAtMostOnce'
    BY <1>3 DEF ClaimAction, Return, ghosts
  <2>8. MessageFollowsRow'
    BY <1>3 DEF ClaimAction, Return, ghosts
  <2>9. ApprovedIsInProgress'
    BY <1>3 DEF ClaimAction, Return, ghosts
  <2> QED
    BY <2>1, <2>2, <2>3, <2>4, <2>5, <2>6, <2>7, <2>8, <2>9
<1>4. ASSUME NEW r \in Requests, RefuseArguments(r) PROVE IInv'
  <2>1. TypeOK'
    BY <1>4 DEF RefuseArguments, Conclude, Return, Recorded, rows
  <2>2. BusyHasTarget'
    BY <1>4 DEF RefuseArguments, Conclude, Return, Recorded, rows
  <2>3. ClaimsAreExclusive'
    BY <1>4 DEF RefuseArguments, Conclude, Return, Recorded, rows
  <2>4. ProposedIsInert'
    BY <1>4 DEF RefuseArguments, Conclude, Return, Recorded, rows
  <2>5. Progress'
    BY <1>4 DEF RefuseArguments, Conclude, Return, Recorded, rows
  <2>6. OneOutcome'
    <3>1. PICK result \in Outcomes : Conclude(r, result)
      BY <1>4 DEF RefuseArguments, Outcomes, Failures
    <3>2. /\ target[r] \in Actions /\ ended[target[r]] = {}
          /\ ended' = [ended EXCEPT ![target[r]] = @ \cup {result}]
          /\ UNCHANGED <<status, reports>>
      BY <1>4, <3>1 DEF RefuseArguments, Conclude, rows
    <3> QED
      BY <3>2, OutcomeStep
  <2>7. ExecutedAtMostOnce'
    BY <1>4 DEF RefuseArguments, Conclude, Return, Recorded, rows
  <2>8. MessageFollowsRow'
    BY <1>4 DEF RefuseArguments, Conclude, Return, Recorded, rows
  <2>9. ApprovedIsInProgress'
    <3>1. PICK result \in Outcomes : Conclude(r, result)
      BY <1>4 DEF RefuseArguments, Outcomes, Failures
    <3>2. target[r] \in Actions /\ result \in ended'[target[r]]
      BY <1>4, <3>1 DEF RefuseArguments, Conclude
    <3>3. \A a \in Actions : LeftApproved(a) => LeftApproved(a)'
      BY <1>4, <3>1 DEF RefuseArguments, Conclude, rows
    <3>4. CASE result \in Recorded(route[r])
      BY <1>4, <3>1, <3>2, <3>3, <3>4 DEF RefuseArguments, Conclude, rows
    <3>5. CASE result \notin Recorded(route[r])
      <4>1. result \in {"LookupError", "RuntimeError"}
        BY <3>5 DEF Recorded
      <4>2. \A a \in Actions : a = target[r] => LeftApproved(a)'
        BY <3>2, <4>1
      <4>3. \A q \in Requests : q # r => pc'[q] = pc[q] /\ target'[q] = target[q]
        BY <1>4, <3>1, <3>5 DEF RefuseArguments, Conclude, Return
      <4>4. status' = status
        BY <1>4 DEF RefuseArguments, rows
      <4>5. ASSUME NEW a \in Actions, a # target[r], status'[a] = "approved"
            PROVE  (\E q \in Requests : Approving(q)' /\ target'[q] = a) \/ LeftApproved(a)'
        <5>1. CASE LeftApproved(a)
          BY <3>3, <5>1
        <5>2. CASE \E q \in Requests : Approving(q) /\ target[q] = a
          BY <4>3, <4>5, <5>2
        <5> QED
          BY <4>4, <4>5, <5>1, <5>2
      <4> QED
        BY <4>2, <4>5
    <3> QED
      BY <3>4, <3>5
  <2> QED
    BY <2>1, <2>2, <2>3, <2>4, <2>5, <2>6, <2>7, <2>8, <2>9
<1>5. ASSUME NEW r \in Requests, OperateInline(r) PROVE IInv'
  <2>1. TypeOK'
    BY <1>5 DEF OperateInline, Execute, Conclude, Return, Recorded, rows
  <2>2. BusyHasTarget'
    BY <1>5 DEF OperateInline, Execute, Conclude, Return, Recorded, rows
  <2>3. ClaimsAreExclusive'
    BY <1>5 DEF OperateInline, Execute, Conclude, Return, Recorded, rows
  <2>4. ProposedIsInert'
    BY <1>5 DEF OperateInline, Execute, Conclude, Return, Recorded, rows
  <2>5. Progress'
    BY <1>5 DEF OperateInline, Execute, Conclude, Return, Recorded, rows
  <2>6. OneOutcome'
    <3>1. PICK result \in Outcomes : Conclude(r, result)
      BY <1>5 DEF OperateInline
    <3>2. /\ target[r] \in Actions /\ ended[target[r]] = {}
          /\ ended' = [ended EXCEPT ![target[r]] = @ \cup {result}]
          /\ UNCHANGED <<status, reports>>
      BY <1>5, <3>1 DEF OperateInline, Execute, Conclude, rows
    <3> QED
      BY <3>2, OutcomeStep
  <2>7. ExecutedAtMostOnce'
    BY <1>5 DEF OperateInline, Execute, Conclude, Return, Recorded, rows
  <2>8. MessageFollowsRow'
    BY <1>5 DEF OperateInline, Execute, Conclude, Return, Recorded, rows
  <2>9. ApprovedIsInProgress'
    <3>1. PICK result \in Outcomes : Conclude(r, result)
      BY <1>5 DEF OperateInline
    <3>2. target[r] \in Actions /\ result \in ended'[target[r]]
      BY <1>5, <3>1 DEF OperateInline, Execute, Conclude
    <3>3. \A a \in Actions : LeftApproved(a) => LeftApproved(a)'
      BY <1>5, <3>1 DEF OperateInline, Execute, Conclude, rows
    <3>4. CASE result \in Recorded(route[r])
      BY <1>5, <3>1, <3>2, <3>3, <3>4 DEF OperateInline, Execute, Conclude, rows
    <3>5. CASE result \notin Recorded(route[r])
      <4>1. result \in {"LookupError", "RuntimeError"}
        BY <3>5 DEF Recorded
      <4>2. \A a \in Actions : a = target[r] => LeftApproved(a)'
        BY <3>2, <4>1
      <4>3. \A q \in Requests : q # r => pc'[q] = pc[q] /\ target'[q] = target[q]
        BY <1>5, <3>1, <3>5 DEF OperateInline, Execute, Conclude, Return
      <4>4. status' = status
        BY <1>5 DEF OperateInline, rows
      <4>5. ASSUME NEW a \in Actions, a # target[r], status'[a] = "approved"
            PROVE  (\E q \in Requests : Approving(q)' /\ target'[q] = a) \/ LeftApproved(a)'
        <5>1. CASE LeftApproved(a)
          BY <3>3, <5>1
        <5>2. CASE \E q \in Requests : Approving(q) /\ target[q] = a
          BY <4>3, <4>5, <5>2
        <5> QED
          BY <4>4, <4>5, <5>1, <5>2
      <4> QED
        BY <4>2, <4>5
    <3> QED
      BY <3>4, <3>5
  <2> QED
    BY <2>1, <2>2, <2>3, <2>4, <2>5, <2>6, <2>7, <2>8, <2>9
<1>6. ASSUME NEW r \in Requests, OperateAwait(r) PROVE IInv'
  BY <1>6 DEF OperateAwait, Execute, rows
<1>7. ASSUME NEW r \in Requests, Resume(r) PROVE IInv'
  <2>1. TypeOK'
    BY <1>7 DEF Resume, Conclude, Return, Recorded, rows
  <2>2. BusyHasTarget'
    BY <1>7 DEF Resume, Conclude, Return, Recorded, rows
  <2>3. ClaimsAreExclusive'
    BY <1>7 DEF Resume, Conclude, Return, Recorded, rows
  <2>4. ProposedIsInert'
    BY <1>7 DEF Resume, Conclude, Return, Recorded, rows
  <2>5. Progress'
    BY <1>7 DEF Resume, Conclude, Return, Recorded, rows
  <2>6. OneOutcome'
    <3>1. PICK result \in Outcomes : Conclude(r, result)
      BY <1>7 DEF Resume
    <3>2. /\ target[r] \in Actions /\ ended[target[r]] = {}
          /\ ended' = [ended EXCEPT ![target[r]] = @ \cup {result}]
          /\ UNCHANGED <<status, reports>>
      BY <1>7, <3>1 DEF Resume, Conclude, rows
    <3> QED
      BY <3>2, OutcomeStep
  <2>7. ExecutedAtMostOnce'
    BY <1>7 DEF Resume, Conclude, Return, Recorded, rows
  <2>8. MessageFollowsRow'
    BY <1>7 DEF Resume, Conclude, Return, Recorded, rows
  <2>9. ApprovedIsInProgress'
    <3>1. PICK result \in Outcomes : Conclude(r, result)
      BY <1>7 DEF Resume
    <3>2. target[r] \in Actions /\ result \in ended'[target[r]]
      BY <1>7, <3>1 DEF Resume, Conclude
    <3>3. \A a \in Actions : LeftApproved(a) => LeftApproved(a)'
      BY <1>7, <3>1 DEF Resume, Conclude, rows
    <3>4. CASE result \in Recorded(route[r])
      BY <1>7, <3>1, <3>2, <3>3, <3>4 DEF Resume, Conclude, rows
    <3>5. CASE result \notin Recorded(route[r])
      <4>1. result \in {"LookupError", "RuntimeError"}
        BY <3>5 DEF Recorded
      <4>2. \A a \in Actions : a = target[r] => LeftApproved(a)'
        BY <3>2, <4>1
      <4>3. \A q \in Requests : q # r => pc'[q] = pc[q] /\ target'[q] = target[q]
        BY <1>7, <3>1, <3>5 DEF Resume, Conclude, Return
      <4>4. status' = status
        BY <1>7 DEF Resume, rows
      <4>5. ASSUME NEW a \in Actions, a # target[r], status'[a] = "approved"
            PROVE  (\E q \in Requests : Approving(q)' /\ target'[q] = a) \/ LeftApproved(a)'
        <5>1. CASE LeftApproved(a)
          BY <3>3, <5>1
        <5>2. CASE \E q \in Requests : Approving(q) /\ target[q] = a
          BY <4>3, <4>5, <5>2
        <5> QED
          BY <4>4, <4>5, <5>1, <5>2
      <4> QED
        BY <4>2, <4>5
    <3> QED
      BY <3>4, <3>5
  <2> QED
    BY <2>1, <2>2, <2>3, <2>4, <2>5, <2>6, <2>7, <2>8, <2>9
<1>8. ASSUME NEW r \in Requests, RecordOutcome(r) PROVE IInv'
  <2>1. TypeOK'
    BY <1>8 DEF RecordOutcome, UpdateAction, Verdict, Return, ghosts
  <2>2. BusyHasTarget'
    BY <1>8 DEF RecordOutcome, UpdateAction, Verdict, Return, ghosts
  <2>3. ClaimsAreExclusive'
    BY <1>8 DEF RecordOutcome, UpdateAction, Verdict, Return, ghosts
  <2>4. ProposedIsInert'
    BY <1>8 DEF RecordOutcome, UpdateAction, Verdict, Return, ghosts
  <2>5. Progress'
    BY <1>8 DEF RecordOutcome, UpdateAction, Verdict, Return, ghosts
  <2>6. OneOutcome'
    <3>1. target[r] \in Actions /\ outcome[r] \in Outcomes /\ ended[target[r]] = {outcome[r]}
      BY <1>8 DEF RecordOutcome
    <3>2. UNCHANGED ended
      BY <1>8 DEF RecordOutcome, ghosts
    <3>3. \A b \in Actions :
              {status'[b]} \cup reports'[b] \subseteq
                  {status[b]} \cup reports[b] \cup
                      (IF b = target[r] THEN {Verdict(outcome[r])} ELSE {})
      BY <1>8, <3>1 DEF RecordOutcome, UpdateAction, ghosts
    <3> QED
      BY <3>1, <3>2, <3>3, TellingStep
  <2>7. ExecutedAtMostOnce'
    BY <1>8 DEF RecordOutcome, UpdateAction, Verdict, Return, ghosts
  <2>8. MessageFollowsRow'
    BY <1>8 DEF RecordOutcome, UpdateAction, Verdict, Return, ghosts
  <2>9. ApprovedIsInProgress'
    BY <1>8 DEF RecordOutcome, UpdateAction, Verdict, Return, ghosts
  <2> QED
    BY <2>1, <2>2, <2>3, <2>4, <2>5, <2>6, <2>7, <2>8, <2>9
<1>9. ASSUME NEW r \in Requests, ReportOutcome(r) PROVE IInv'
  <2>1. TypeOK'
    BY <1>9 DEF ReportOutcome, Verdict, Return, ghosts
  <2>2. BusyHasTarget'
    BY <1>9 DEF ReportOutcome, Verdict, Return, ghosts
  <2>3. ClaimsAreExclusive'
    BY <1>9 DEF ReportOutcome, Verdict, Return, ghosts
  <2>4. ProposedIsInert'
    BY <1>9 DEF ReportOutcome, Verdict, Return, ghosts
  <2>5. Progress'
    BY <1>9 DEF ReportOutcome, Verdict, Return, ghosts
  <2>6. OneOutcome'
    <3>1. target[r] \in Actions /\ outcome[r] \in Outcomes /\ ended[target[r]] = {outcome[r]}
      BY <1>9 DEF ReportOutcome
    <3>2. UNCHANGED ended
      BY <1>9 DEF ReportOutcome, ghosts
    <3>3. \A b \in Actions :
              {status'[b]} \cup reports'[b] \subseteq
                  {status[b]} \cup reports[b] \cup
                      (IF b = target[r] THEN {Verdict(outcome[r])} ELSE {})
      BY <1>9, <3>1 DEF ReportOutcome, ghosts
    <3> QED
      BY <3>1, <3>2, <3>3, TellingStep
  <2>7. ExecutedAtMostOnce'
    BY <1>9 DEF ReportOutcome, Verdict, Return, ghosts
  <2>8. MessageFollowsRow'
    BY <1>9 DEF ReportOutcome, Verdict, Return, ghosts
  <2>9. ApprovedIsInProgress'
    BY <1>9 DEF ReportOutcome, Verdict, Return, ghosts
  <2> QED
    BY <2>1, <2>2, <2>3, <2>4, <2>5, <2>6, <2>7, <2>8, <2>9
<1>10. ASSUME NEW r \in Requests, RejectAction(r) PROVE IInv'
  BY <1>10 DEF RejectAction, UpdateAction, Return, ghosts
<1>11. CASE DeleteThread
  BY <1>11 DEF DeleteThread, local, ghosts
<1>12. CASE Crash
  BY <1>12 DEF Crash, rows, ghosts
<1>13. CASE UNCHANGED vars
  BY <1>13 DEF vars, rows, local, ghosts
<1> HIDE DEF IInv
<1>14. QED
  BY <1>1, <1>2, <1>3, <1>4, <1>5, <1>6, <1>7, <1>8, <1>9, <1>10, <1>11, <1>12, <1>13
     DEF Next, Decide, Proceed, Operate

\* The inductive invariant holds in every reachable state.
LEMMA Invariance == Spec => []IInv
  BY InitIInv, NextIInv, PTL DEF Spec

-----------------------------------------------------------------------------
(* The theorems.                                                           *)

\* Every variable keeps its type.
THEOREM TypeCorrect == Spec => []TypeOK
<1>1. IInv => TypeOK
  BY DEF IInv
<1> QED
  BY <1>1, Invariance, PTL

\* The atomic claim lets an operation begin at most once.
THEOREM AtMostOneExecution == Spec => []ExecutedAtMostOnce
<1>1. IInv => ExecutedAtMostOnce
  BY DEF IInv
<1> QED
  BY <1>1, Invariance, PTL

\* Neither the row nor the conversation tells an outcome that did not happen.
THEOREM OutcomesAlwaysTrue == Spec => []OutcomesAreTrue
<1>1. IInv => OutcomesAreTrue
  <2> SUFFICES ASSUME IInv, NEW a \in Actions PROVE Cardinality(ended[a]) <= 1
    BY DEF OutcomesAreTrue, IInv, OneOutcome
  <2>1. CASE ended[a] = {}
    BY <2>1, FS_EmptySet
  <2>2. CASE \E result \in Outcomes : ended[a] = {result}
    BY <2>2, FS_Singleton
  <2> QED
    BY <2>1, <2>2 DEF IInv, OneOutcome
<1> QED
  BY <1>1, Invariance, PTL

\* The message is at most one claim behind the rows of its actions.
THEOREM MessageAlwaysFollows == Spec => []MessageFollowsRow
<1>1. IInv => MessageFollowsRow
  BY DEF IInv
<1> QED
  BY <1>1, Invariance, PTL

\* An approved action is being worked on, or was left in one of the known ways.
THEOREM ApprovedAlwaysInProgress == Spec => []ApprovedIsInProgress
<1>1. IInv => ApprovedIsInProgress
  BY DEF IInv
<1> QED
  BY <1>1, Invariance, PTL
=============================================================================
