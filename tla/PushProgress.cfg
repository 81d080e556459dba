CONSTANTS
    Specs = {s1, s2}
    RetryMax = 1
    DeployMode = "dual"
    LifecycleManaged = FALSE
    MaxRequests = 1
    Requests = {r1}
    KafkaTasks = {k1}
    Periodic = p
    NoSpec = none
    Outages = {"offline", "deleted"}
    MaxAttempts = 2
    MaxCrashes = 1
    MaxTampering = 0
SPECIFICATION LiveSpec
PROPERTIES
    NotInProgressForever
    PushesStop
