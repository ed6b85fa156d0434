SPECIFICATION Spec
CONSTANTS
    Absent = Absent
    WrongType = WrongType
    NonText = {"7"}
    Backends = {"Alcohol Zinc", "alcohol-zinc"}
    Slug <- MCSlug
    Issuer = "issuer"
    Audience = "alcohol-zinc"
    Algorithms = {"RS256", "ES256"}
    LibraryAlgorithms = {"none", "HS256", "RS256", "ES256"}
    Leeway = 1
    Users = {u1, u2}
    Clients = {u1}
    Roles = {"admin"}
    Keys = {1, 2}
    OtherKey = OtherKey
    Requests <- MCRequests
    Policies <- MCPolicies
    SyncBackend = "alcohol-zinc"
    Lifetime = 1
    Drift = 1
    Environments <- MCEnvironments
    MaxTime = 3
    MaxChanges = 1
    MaxFaults = 1
INVARIANTS
    TypeOK
    RevocationLapses
    OnlyOurLiveTokensPass
    OnboardsOnlySelf
    GoodTokenIsNotRefused
PROPERTIES
    RecoverableIsRecovered
