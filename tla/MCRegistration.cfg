SPECIFICATION Spec
CONSTANTS
    Tokens = {t1, t2}
    Accounts = {a1}
    Handlers = {h1, h2}
    Workers = {k1}
    NoOne = NoOne
    MaxRows = 1
    MaxRequests = 4
    MaxFaults = 0
SYMMETRY MCSymmetry
INVARIANTS
    TypeOK
    AsAsked
PROPERTIES
    DeletedForCause
CHECK_DEADLOCK FALSE
