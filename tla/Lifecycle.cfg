CONSTANTS
    Specs = {s1, s2}
    Imported = {s1}
    Users = {u1}
    Environments = {"dev", "staging"}
    Deployers = {1, 2}
    Editors = {e1}
    None = none
    MaxRequests = 5
    MaxFaults = 1
SPECIFICATION LiveSpec
INVARIANTS
    TypeOK
    PublishedWasServed
    OpenPromotionHasRow

    
CHECK_DEADLOCK FALSE
