SPECIFICATION Spec
CONSTANTS
    Account = acc
    NoJob = NoJob
    Chunks = {g1}
    Consumers = {c1, c2}
    MaxFaults = 1
    Devices = {d1}
    Stuck = {}
    Refreshers = {}
    Registrars = {}
    MaxMessages = 3
    MaxRemovals = 0
    PageLimit = 2
    StuckLimit = 3
    PrivateMessages <- MCPrivate
INVARIANTS
    TypeOK
    Accounted
    NoFlood
PROPERTIES
    PushedOnceInOrder
    ImplementsDelivery
