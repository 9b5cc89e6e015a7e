CONSTANTS
    d1 = d1
    d2 = d2
    Definitions = {d1, d2}
    Breaking <- OneWay
    NoDefinition = NoDefinition
    NoFile = NoFile
    Threads = {t1}
    Persistent = TRUE
    MaxRevisions = 2
    MaxReviews = 1
    MaxReleases = 2
    MaxPolicies = 1
    MaxCrashes = 1
SPECIFICATION Spec
INVARIANTS TypeOK ScenarioReleasesAreGoverned ServedIsReleased RollbacksPinTheirSource
CHECK_DEADLOCK FALSE
