CONSTANTS
    d1 = d1
    d2 = d2
    Definitions = {d1, d2}
    Breaking <- OneWay
    NoDefinition = NoDefinition
    NoFile = NoFile
    Threads = {t1}
    Persistent = TRUE
    MaxRevisions = 3
    MaxReviews = 2
    MaxReleases = 1
    MaxPolicies = 1
    MaxCrashes = 0
SPECIFICATION Spec
INVARIANTS ServedIsApproved
CHECK_DEADLOCK FALSE
