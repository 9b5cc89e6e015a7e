CONSTANTS
    Threads = {t1, t2}
    Definitions = {d1, d2}
    NoDefinition = NoDefinition
    NoThread = NoThread
    MaxRequests = 6
    MaxCrashes = 0
SPECIFICATION Spec
PROPERTIES UnchangedSaveCreatesNothing
CHECK_DEADLOCK FALSE
