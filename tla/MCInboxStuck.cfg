SPECIFICATION FairSpec
CONSTANTS
    Account = acc
    NoJob = NoJob
    Chunks = {g1}
    Consumers = {c1}
    MaxFaults = 1
    Devices = {d1}
    Stuck = {s1}
    Refreshers = {}
    Registrars = {}
    MaxMessages = 2
    MaxRemovals = 1
    PageLimit = 2
    StuckLimit = 2
    PrivateMessages <- MCPrivate
INVARIANTS
    Accounted
PROPERTIES
    EventuallyPolled
