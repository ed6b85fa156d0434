SPECIFICATION Spec
CONSTANTS
    r1 = r1
    r2 = r2
    Resources = {r1, r2}
    Refreshing = Refreshing
    Managing = Managing
    Uses = {"session", "client", "management"}
    Policies = {"never", "refresh", "every"}
    Concurrency = 2
    Skew = 1
    AccessLifetime = 2
    OneTimeLifetime = 1
    Troubles = {401}
    ExpiresIn = {0, 3}
    NoToken = NoToken
    MaxTime = 2
    MaxRotations = 1
INVARIANTS
    TypeOK
    HandedOutIsLive
    DeadMeansDropped
    ManagementTellsTheTruth
PROPERTIES
    EveryBatchReturns
