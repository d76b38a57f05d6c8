SPECIFICATION Spec
SYMMETRY MCSymmetry
CONSTANTS
    Consumers = {c1, c2}
    Watchers = {w1, w2}
    Devices = {d1, d2}
    Nobody = Nobody
    NoWatcher = NoWatcher
    Pages = 2
    PageLimit = 1
    Window = 1
    MaxPosts = 1
    MaxTime = 3
    MaxEdits = 0
    MaxFaults = 1
INVARIANTS
    TypeOK
    MarkedIsSent
PROPERTIES
    NotifiedOnce
