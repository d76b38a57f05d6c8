SPECIFICATION FairSpec
CONSTANTS
    Account = acc
    NoJob = NoJob
    Chunks = {g1}
    Consumers = {c1}
    MaxFaults = 0
    Devices = {d1}
    Stuck = {}
    Refreshers = {f1}
    Registrars = {}
    MaxMessages = 2
    MaxRemovals = 0
    PageLimit = 2
    StuckLimit = 2
    PrivateMessages <- MCPrivate
PROPERTIES
    LastWriterIsBenign
