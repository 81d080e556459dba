CONSTANTS
    Specs = {s1, s2}
    RetryMax = 1
    DeployMode = "dual"
    LifecycleManaged = FALSE
    MaxRequests = 2
    Requests = {r1}
    KafkaTasks = {}
    Periodic = p
    NoSpec = none
    Outages = {"offline", "deleted"}
    MaxAttempts = 2
    MaxCrashes = 1
    MaxTampering = 1
SPECIFICATION Spec
SYMMETRY Symmetry
INVARIANTS
    SyncedGenerationIsLive
