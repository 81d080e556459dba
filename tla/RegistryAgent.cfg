CONSTANTS
    Rust = {}
    Go = {c1}
    Apps = {}
    Healths = {"ONLINE", "OFFLINE"}
    None = none
    Replicas = 1
    MaxEvents = 3
SPECIFICATION LiveSpec
PROPERTIES
    AgentReturns
