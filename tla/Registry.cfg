CONSTANTS
    Rust = {r1, r2}
    Go = {}
    Apps = {a1}
    Healths = {"OFFLINE"}
    None = none
    Replicas = 2
    MaxEvents = 1
SPECIFICATION LiveSpec
INVARIANTS
    TypeOK
PROPERTIES
    GatewayIsListed
    StoppedGoesOffline
    EntriesFollowArgo
