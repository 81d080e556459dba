CONSTANTS
    Specs = {s1, s2}
    RetryMax = 1
    DeployMode = "sse_only"
    LifecycleManaged = TRUE
    MaxRequests = 3
    Requests = {r1}
    Handlers = {h1, h2}
    Envoy = FALSE
    Polling = FALSE
    QueueMax = 1
    MaxAcks = 2
    MaxFaults = 2
SPECIFICATION Spec
SYMMETRY Symmetry
INVARIANTS
    GenerationOrder
    SyncedWasApplied
CHECK_DEADLOCK FALSE
