SPECIFICATION Spec
CONSTANTS
    r1 = r1
    r2 = r2
    Resources = {r1}
    Refreshing = Refreshing
    Managing = Managing
    Uses = {"session"}
    Policies = {"every"}
    Concurrency = 2
    Skew = 1
    AccessLifetime = 2
    OneTimeLifetime = 1
    Troubles = {401}
    ExpiresIn = {0, 3}
    NoToken = NoToken
    MaxTime = 2
    MaxRotations = 1
INVARIANTS
    SessionOutlivesItsBatches
