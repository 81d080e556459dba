CONSTANTS
    Subs = {1}
    Expiries = {30}
    Slots = {1, 2}
    MaxRequests = 5
    MaxFaults = 1
SPECIFICATION LiveSpec
INVARIANTS
    TypeOK
    ExtensionsCounted
    AppsOnRecord
    DeprovisionedIsGone
PROPERTIES
    ProvisioningEnds
CHECK_DEADLOCK FALSE
