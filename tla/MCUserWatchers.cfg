SPECIFICATION FairSpec
CONSTANTS
    Consumers = {c1, c2}
    Watchers = {w1}
    NoWatcher = NoWatcher
    MaxPosts = 2
    Private <- MCPrivate
    Elsewhere <- MCElsewhere
    MaxTime = 3
    MaxEdits = 1
    MaxFaults = 1
INVARIANTS
    TypeOK
    PassedOverForCause
    NoOrphans
PROPERTIES
    NotifiedOnce
    EventuallyUnwatched
CHECK_DEADLOCK FALSE
