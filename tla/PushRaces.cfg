CONSTANTS
    Specs = {s1, s2}
    RetryMax = 1
    DeployMode = "legacy"
    LifecycleManaged = FALSE
    MaxRequests = 2
    Requests = {r1}
    KafkaTasks = {k1}
    Periodic = p
    NoSpec = none
    Outages = {"offline"}
    MaxAttempts = 2
    MaxCrashes = 0
    MaxTampering = 0
SPECIFICATION Spec
SYMMETRY Symmetry
INVARIANTS
    TypeOK
    PushInvariant
    GenerationsWithinDesired
    SyncedWasPushed
