CONSTANTS
    StateNames <- mcStateNames
    Documented <- mcDocumented
    Conforming <- mcConforming
    Candidates <- mcCandidates
    MaxPlan = 7
    MaxRevisions = 2
    Ids <- mcIds
    Success <- mcSuccess
    Error <- mcError
    Sample <- mcSample
    Template <- mcTemplate
    Baseline <- mcBaseline
    Workspaces <- mcWorkspaces
    Options <- mcOptions
    Requests <- mcRequests
    MaxDataset = 2
    PlannedEdges = 2
    CompiledEdges = 3
    MaxEdges = 6
    Resolution = 10000
    MaxRequests = 1
    OperationsToCover <- mcOperationsToCover
    Limits <- mcLimits
    MaxFactors = 12
    MaxValues = 4
SPECIFICATION Spec
CHECK_DEADLOCK FALSE
INVARIANTS
    NonBreakingKeepsClients
    ReplaysAreShortest
    PassedMeansServed
    GeneratedCasesPass
    EdgesKeepPolarity
    CoveringIsComplete
