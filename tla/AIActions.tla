------------------------------ MODULE AIActions ------------------------------
(***************************************************************************)
(* The operations that the AI copilot proposed in ONE message of ONE       *)
(* conversation, and the requests that decide on them.  An approval        *)
(* (REST route or MCP tool) is a coroutine of the event loop: it holds the *)
(* loop between two awaits, so no other approval runs there.  A rejection  *)
(* and the deletion of the conversation run in worker threads and          *)
(* interleave with everything.  Each statement of PlatformStore is a       *)
(* transaction under the lock of the store, hence one step.                *)
(*                                                                         *)
(* Three records tell what became of an action: its row, the copy of it in *)
(* the message, and the outcome message appended to the conversation.      *)
(***************************************************************************)
EXTENDS Naturals, FiniteSets

CONSTANTS
    Actions,    \* the actions the message proposes
    Requests,   \* requests that may be in progress at the same time
    NoAction,   \* a request that decides on nothing
    MaxCrashes  \* bound: process crashes in a behaviour

ASSUME ActionAssumption == NoAction \notin Actions /\ MaxCrashes \in Nat

VARIABLES
    thread,     \* the conversation: live, or deleted with all its rows
    status,     \* platform_ai_actions.status
    shown,      \* the status of each action in platform_ai_messages.actions
    reports,    \* the outcome messages appended for each action
    pc,         \* what each request does next
    target,     \* the action each request decides on
    route,      \* how an approval arrived: REST or MCP
    outcome,    \* what the operation of an approval came to
    crashes,    \* number of crashes
    executions, \* ghost: how often the operation of each action was begun
    ended       \* ghost: what each operation came to

rows   == <<thread, status, shown, reports>>
local  == <<pc, target, route, outcome>>
ghosts == <<executions, ended>>
vars   == <<rows, local, crashes, ghosts>>

-----------------------------------------------------------------------------
Statuses == {"proposed", "approved", "executed", "failed", "rejected"}

Routes == {"rest", "mcp"}

\* How an operation can end: well, or by one of the classes of exceptions that
\* the approval handlers tell apart ("RuntimeError" stands for every other one).
Failures == {"ValueError", "HTTPError", "LookupError", "RuntimeError"}
Outcomes == {"ok"} \cup Failures

\* Mutant: the REST handler has no clause for a runtime that fails.
RecordedLess(via) == IF via = "mcp" THEN Outcomes ELSE {"ok", "ValueError"}

\* The outcomes for which a route has an except clause that updates the row.
Recorded(via) ==
    IF via = "mcp" THEN Outcomes ELSE {"ok", "ValueError", "HTTPError"}

\* Mutant: the class of the exception becomes the status.
VerdictVerbatim(result) == result

\* Mutant: every operation that ended counts as executed.
VerdictAlwaysExecuted(result) == "executed"

Verdict(result) == IF result = "ok" THEN "executed" ELSE "failed"

Labels == {"idle", "claim", "operate", "await", "record", "report", "reject"}

\* Mutant: an approval keeps the loop while it awaits the runtime.
LoopIsFreeUnlessAwaiting == \A r \in Requests : pc[r] \in {"idle", "reject"}

\* The labels at which an approval has the event loop to itself.
LoopIsFree == \A r \in Requests : pc[r] \in {"idle", "await", "reject"}

Goto(r, label) == pc' = [pc EXCEPT ![r] = label]

Return(r) ==
    /\ Goto(r, "idle")
    /\ target' = [target EXCEPT ![r] = NoAction]
    /\ route' = [route EXCEPT ![r] = "rest"]
    /\ outcome' = [outcome EXCEPT ![r] = "ok"]

\* Mutant: the message is rendered before the row is set.
UpdateActionLate(a, new) ==
    /\ status' = [status EXCEPT ![a] = new]
    /\ shown' = status

\* update_ai_action(): the row is set, whatever it was, and the message is
\* rendered again with the rows of all its actions.
UpdateAction(a, new) ==
    /\ status' = [status EXCEPT ![a] = new]
    /\ shown' = status'

-----------------------------------------------------------------------------
(* Approval.                                                               *)

\* The row is read; an action that is not proposed any more is refused (409).
InspectForApproval(r, a, via) ==
    /\ pc[r] = "idle"
    /\ LoopIsFree
    /\ thread = "live"
    /\ status[a] = "proposed"
    /\ Goto(r, "claim")
    /\ target' = [target EXCEPT ![r] = a]
    /\ route' = [route EXCEPT ![r] = via]
    /\ UNCHANGED <<rows, outcome, crashes, ghosts>>

\* Mutant: the claim looks at the row and does not mark it.
ClaimActionUnmarked(r) ==
    LET a == target[r] IN
    /\ pc[r] = "claim"
    /\ IF thread = "live" /\ status[a] = "proposed"
       THEN Goto(r, "operate") /\ UNCHANGED <<target, route, outcome>>
       ELSE Return(r)
    /\ UNCHANGED <<rows, crashes, ghosts>>

\* claim_ai_action(): one UPDATE ... WHERE status = 'proposed'.  The copy in the
\* message is not rendered again.
ClaimAction(r) ==
    LET a == target[r] IN
    /\ pc[r] = "claim"
    /\ IF thread = "live" /\ status[a] = "proposed"
       THEN /\ status' = [status EXCEPT ![a] = "approved"]
            /\ Goto(r, "operate")
            /\ UNCHANGED <<target, route, outcome>>
       ELSE Return(r) /\ UNCHANGED status
    /\ UNCHANGED <<thread, shown, reports, crashes, ghosts>>

\* The handler for an outcome: a row is updated next, or the exception leaves the
\* handler with the row as it is.
Conclude(r, result) ==
    /\ ended' = [ended EXCEPT ![target[r]] = @ \cup {result}]
    /\ IF result \in Recorded(route[r])
       THEN /\ outcome' = [outcome EXCEPT ![r] = result]
            /\ Goto(r, "record")
            /\ UNCHANGED <<target, route>>
       ELSE Return(r)

\* The arguments are not those of the kind (a number out of range is a ValueError, a
\* null for it a TypeError), or the kind is unknown: nothing is run.
RefuseArguments(r) ==
    /\ pc[r] = "operate"
    /\ \E result \in {"ValueError", "RuntimeError"} : Conclude(r, result)
    /\ UNCHANGED <<rows, crashes, executions>>

Execute(r) ==
    /\ pc[r] = "operate"
    /\ executions' = [executions EXCEPT ![target[r]] = @ + 1]

\* generate_data and compile run to their end on the event loop.
OperateInline(r) ==
    /\ Execute(r)
    /\ \E result \in Outcomes : Conclude(r, result)
    /\ UNCHANGED <<rows, crashes>>

\* deploy and reset_scenario await the runtime: the loop is free meanwhile.
OperateAwait(r) ==
    /\ Execute(r)
    /\ Goto(r, "await")
    /\ UNCHANGED <<rows, target, route, outcome, crashes, ended>>

Resume(r) ==
    /\ pc[r] = "await"
    /\ LoopIsFree
    /\ \E result \in Outcomes : Conclude(r, result)
    /\ UNCHANGED <<rows, crashes, executions>>

\* The outcome is recorded, unless the conversation was deleted (KeyError).
RecordOutcome(r) ==
    /\ pc[r] = "record"
    /\ IF thread = "live"
       THEN /\ UpdateAction(target[r], Verdict(outcome[r]))
            /\ Goto(r, "report")
            /\ UNCHANGED <<target, route, outcome>>
       ELSE Return(r) /\ UNCHANGED <<status, shown>>
    /\ UNCHANGED <<thread, reports, crashes, ghosts>>

\* add_ai_message(): the outcome is told in the conversation.
ReportOutcome(r) ==
    /\ pc[r] = "report"
    /\ reports' = IF thread = "live"
                  THEN [reports EXCEPT ![target[r]] = @ \cup {Verdict(outcome[r])}]
                  ELSE reports
    /\ Return(r)
    /\ UNCHANGED <<thread, status, shown, crashes, ghosts>>

-----------------------------------------------------------------------------
(* Rejection, deletion of the conversation, crash.                         *)

InspectForRejection(r, a) ==
    /\ pc[r] = "idle"
    /\ thread = "live"
    /\ status[a] = "proposed"
    /\ Goto(r, "reject")
    /\ target' = [target EXCEPT ![r] = a]
    /\ UNCHANGED <<rows, route, outcome, crashes, ghosts>>

\* The status read before is not looked at again.
RejectAction(r) ==
    /\ pc[r] = "reject"
    /\ IF thread = "live" THEN UpdateAction(target[r], "rejected")
                          ELSE UNCHANGED <<status, shown>>
    /\ Return(r)
    /\ UNCHANGED <<thread, reports, crashes, ghosts>>

\* The foreign keys cascade: messages and actions are gone with the thread.  What
\* the variables still hold of them is never read again.
DeleteThread ==
    /\ thread = "live"
    /\ thread' = "deleted"
    /\ UNCHANGED <<status, shown, reports, local, crashes, ghosts>>

\* The process dies and is started again.  Nothing recovers approved actions.
Crash ==
    /\ crashes < MaxCrashes
    /\ crashes' = crashes + 1
    /\ pc' = [r \in Requests |-> "idle"]
    /\ target' = [r \in Requests |-> NoAction]
    /\ route' = [r \in Requests |-> "rest"]
    /\ outcome' = [r \in Requests |-> "ok"]
    /\ UNCHANGED <<rows, ghosts>>

\* add_ai_message() stored the message and its proposals in one transaction.
Init ==
    /\ thread = "live"
    /\ status = [a \in Actions |-> "proposed"]
    /\ shown = [a \in Actions |-> "proposed"]
    /\ reports = [a \in Actions |-> {}]
    /\ pc = [r \in Requests |-> "idle"]
    /\ target = [r \in Requests |-> NoAction]
    /\ route = [r \in Requests |-> "rest"]
    /\ outcome = [r \in Requests |-> "ok"]
    /\ crashes = 0
    /\ executions = [a \in Actions |-> 0]
    /\ ended = [a \in Actions |-> {}]

Decide(r) ==
    \E a \in Actions :
        InspectForRejection(r, a) \/ \E via \in Routes : InspectForApproval(r, a, via)

Operate(r) == RefuseArguments(r) \/ OperateInline(r) \/ OperateAwait(r)

Proceed(r) ==
    \/ ClaimAction(r) \/ Operate(r) \/ Resume(r)
    \/ RecordOutcome(r) \/ ReportOutcome(r) \/ RejectAction(r)

Next ==
    \/ \E r \in Requests : Decide(r) \/ Proceed(r)
    \/ DeleteThread \/ Crash

Spec == Init /\ [][Next]_vars

\* The loop serves its ready coroutines in turn, threads run on, and the runtime
\* answers or times out (the HTTP client has a timeout).
Fairness == \A r \in Requests : SF_vars(Proceed(r))

FairSpec == Spec /\ Fairness

-----------------------------------------------------------------------------
(* Properties.                                                             *)

TypeOK ==
    /\ thread \in {"live", "deleted"}
    /\ status \in [Actions -> Statuses]
    /\ shown \in [Actions -> Statuses]
    /\ reports \in [Actions -> SUBSET {"executed", "failed"}]
    /\ pc \in [Requests -> Labels]
    /\ target \in [Requests -> Actions \cup {NoAction}]
    /\ route \in [Requests -> Routes]
    /\ outcome \in [Requests -> Outcomes]
    /\ crashes \in Nat
    /\ executions \in [Actions -> Nat]
    /\ ended \in [Actions -> SUBSET Outcomes]

\* "An atomic SQL claim ensures it executes at most once"
\* (docs/technical-guide.md:185): whatever approvals over both routes, rejections
\* that overwrite an approval, and crashes do, no operation is begun twice.
ExecutedAtMostOnce == \A a \in Actions : executions[a] <= 1

\* Whatever the row or the conversation says of an operation is what happened to
\* it: an operation has one outcome, and nothing tells another.
OutcomesAreTrue ==
    \A a \in Actions :
        /\ Cardinality(ended[a]) <= 1
        /\ "executed" \in {status[a]} \cup reports[a] => ended[a] = {"ok"}
        /\ "failed" \in {status[a]} \cup reports[a] => ended[a] # {} /\ ended[a] \subseteq Failures

\* The copy of an action in its message lags behind its row by a claim at most.
MessageFollowsRow ==
    \A a \in Actions :
        \/ shown[a] = status[a]
        \/ shown[a] = "proposed" /\ status[a] = "approved"

Approving(r) == pc[r] \in {"operate", "await", "record"}

\* The ways in which an action is left approved for good: a crash, or an exception
\* that the REST handler answers (404) or lets pass (500) without a word in the row.
LeftApproved(a) ==
    crashes > 0 \/ thread = "deleted" \/ ended[a] \cap {"LookupError", "RuntimeError"} # {}

\* An action is approved with nobody at work on it only in these ways.
ApprovedIsInProgress ==
    \A a \in Actions :
        status[a] = "approved" =>
            (\E r \in Requests : Approving(r) /\ target[r] = a) \/ LeftApproved(a)

\* Every approval leads to a recorded outcome, up to the same exceptions.
ApprovalsConclude ==
    \A a \in Actions :
        status[a] = "approved" ~> status[a] # "approved" \/ LeftApproved(a)

\* Only an inert proposal can be rejected (docs/api.md:48): the operation of an
\* action that stands as rejected was never begun.
RejectedNeverRan ==
    \A a \in Actions : thread = "live" /\ status[a] = "rejected" => executions[a] = 0
=============================================================================
