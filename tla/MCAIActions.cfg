CONSTANTS
    Actions = {a1, a2}
    Requests = {r1, r2}
    NoAction = NoAction
    MaxCrashes = 1
SPECIFICATION FairSpec
INVARIANTS TypeOK ExecutedAtMostOnce OutcomesAreTrue MessageFollowsRow ApprovedIsInProgress
PROPERTIES ApprovalsConclude
CHECK_DEADLOCK FALSE
