CONSTANTS
    Specs = {s1, s2}
    RetryMax = 1
    DeployMode = "dual"
    LifecycleManaged = FALSE
    MaxRequests = 3
    Requests = {r1}
    Handlers = {h1}
    Envoy = TRUE
    Polling = FALSE
    QueueMax = 1
    MaxAcks = 2
    MaxFaults = 1
SPECIFICATION Spec
SYMMETRY Symmetry
INVARIANTS
    TypeOK
    GenerationOrder
    ProtocolInvariant
    RemovedStaysRemoved
PROPERTIES
    AcksRespectTombstones
    ObservesGenerations
CHECK_DEADLOCK FALSE
