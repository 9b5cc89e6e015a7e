CONSTANTS
    Actions = {a1, a2}
    Requests = {r1, r2, r3}
    NoAction = NoAction
    MaxCrashes = 1
SPECIFICATION Spec
SYMMETRY Symmetry
INVARIANTS RejectedNeverRan
CHECK_DEADLOCK FALSE
