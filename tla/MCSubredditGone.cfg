SPECIFICATION FairSpec
CONSTANTS
    Consumers = {c1}
    Watchers = {w1, w2}
    Devices = {d1}
    Nobody = Nobody
    NoWatcher = NoWatcher
    Pages = 2
    PageLimit = 1
    Window = 1
    MaxPosts = 1
    MaxTime = 2
    MaxEdits = 2
    MaxFaults = 1
PROPERTIES
    EventuallyCleaned
