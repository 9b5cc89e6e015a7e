CONSTANTS
    Threads = {t1, t2}
    Definitions = {d1, d2}
    NoDefinition = NoDefinition
    NoThread = NoThread
    MaxRequests = 3
    MaxCrashes = 1
SPECIFICATION FairSpec
INVARIANTS TypeOK HeadIsFiled AnswersStayOnFile
PROPERTIES NoLostUpdate RefinesRevisionLog RequestsComplete
CHECK_DEADLOCK FALSE
