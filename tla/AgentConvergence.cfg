CONSTANTS
    Specs = {s1, s2}
    RetryMax = 1
    DeployMode = "sse_only"
    LifecycleManaged = FALSE
    MaxRequests = 3
    Requests = {r1}
    Handlers = {h1}
    Envoy = TRUE
    Polling = TRUE
    QueueMax = 1
    MaxAcks = 2
    MaxFaults = 1
SPECIFICATION LiveSpec
PROPERTIES
    Convergence
