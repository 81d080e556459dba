CONSTANTS
    Specs = {s1}
    Imported = {s1}
    Users = {u1}
    Environments = {"dev", "staging"}
    Deployers = {1, 2}
    Editors = {}
    None = none
    MaxRequests = 5
    MaxFaults = 0
SPECIFICATION Spec
INVARIANT
    OpenPromotionOwnsRow
CHECK_DEADLOCK FALSE
