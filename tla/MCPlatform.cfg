CONSTANTS
    sim1 = sim1
    sim2 = sim2
    o1 = o1
    o2 = o2
    Simulations = {sim1, sim2}
    Compiled <- mcCompiled
    Configured <- mcConfigured
    Journeys = {"journey"}
    Requests = {"buy", "get", "begin", "see"}
    JournalLimit = 2
    Persistent = FALSE
    MaxServed = 4
    ScenarioIds <- mcScenarioIds
    Released <- mcReleased
    Topics = {"t"}
    Advances = {1, 3}
    Operations = {o1, o2}
    NotDeployed = NotDeployed
    Remotes = {FALSE, TRUE}
    MaxSaves = 2
    MaxCalls = 3
    MaxFailures = 1
    MaxCrashes = 1
    owner = owner
    alice = alice
    bob = bob
    Subjects = {owner, alice, bob}
    PlatformAdmins = {owner}
    Creator = owner
    Threads = {t1, t2}
    NoRequest = NoRequest
    Deliveries = {d1, d2}
    Values = {v1}
    Nothing = Nothing
    DefaultKey = DefaultKey
    MaxAttempts = 2
    Threshold = 2
    Cooldown = 2
    MaxDispatches = 4
    MaxTime = 4
    Logs = {l1, l2}
    MaxEvents = 5
    MaxOutages = 2
    Requesters = {r1, r2}
    Foreign <- mcForeign
    MaxOperations = 4
    MaxKills = 1
SPECIFICATION PlatformSpec
SYMMETRY Symmetry
CHECK_DEADLOCK FALSE
INVARIANTS
    ScenariosAreIsolated
    JournalIsOwnNewest
    ServedIsLastRelease
    StatesAreReleased
    NoTimeIsLost
    TypeOK
    PausedIffFailing
    AcknowledgedEventsVerify
    ListedHasContract
PROPERTIES
    RestoredIsWhole
    RemovalsKeepAnAdmin
    ClosedEarlyOnlyByEarlier
