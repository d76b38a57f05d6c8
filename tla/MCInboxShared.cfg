SPECIFICATION Spec
CONSTANTS
    Account = acc
    NoJob = NoJob
    Chunks = {g1}
    Consumers = {c1}
    MaxFaults = 1
    Devices = {d1, d2}
    Stuck = {}
    Refreshers = {f1}
    Registrars = {r1}
    MaxMessages = 2
    MaxRemovals = 0
    PageLimit = 1
    StuckLimit = 2
    PrivateMessages <- MCPrivate
INVARIANTS
    Accounted
PROPERTIES
    PushedOnceInOrder
    ImplementsDelivery
