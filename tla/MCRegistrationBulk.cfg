SPECIFICATION FairSpec
CONSTANTS
    Tokens = {t1}
    Accounts = {a1, a2}
    Handlers = {h1}
    Workers = {k1}
    NoOne = NoOne
    MaxRows = 2
    MaxRequests = 2
    MaxFaults = 1
INVARIANTS
    AsAsked
PROPERTIES
    RevokedStops
CHECK_DEADLOCK FALSE
