SPECIFICATION FairSpec
CONSTANTS
    Tokens = {t1}
    NoJob = NoJob
    NoRow = NoRow
    Chunks = {g1}
    Consumers = {c1, c2}
    MaxFaults = 1
    Duration = 1
    Grace = 1
    MaxTime = 3
    MaxRegistrations = 2
INVARIANTS
    TypeOK
PROPERTIES
    ImplementsQueue
    NothingAfterEnd
    LivesItsTime
    EventuallyRemoved
