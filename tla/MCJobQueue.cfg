CONSTANTS
    Jobs = {j1, j2, j3}
    NoJob = NoJob
    MaxDowns = 2
SPECIFICATION FairSpec
INVARIANTS TypeOK OneExecutor RepeatedOnlyByCrashes
PROPERTIES RefinesLifecycle QueuedJobsEnd
CHECK_DEADLOCK FALSE
