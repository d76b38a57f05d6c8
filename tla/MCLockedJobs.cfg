SPECIFICATION FairSpec
CONSTANTS
    Ids = {a1, a2}
    NoJob = NoJob
    Chunks = {g1}
    Consumers = {c1, c2}
    MaxFaults = 2
    accountEnqueueSeconds = 60
INVARIANTS
    TypeOK
    ExclusiveWork
    OneJobPerLease
    NoSilentLeak
PROPERTIES
    WorkedAgain
