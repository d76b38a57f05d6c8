SPECIFICATION FairSpec
CONSTANTS
    poller = poller
    other = other
    Consumers = {poller, other}
    Accounts = {a1}
    NoAccount = NoAccount
    Serves <- MCServes
    Retries = 1
    Life = 5
    Expiries = {3}
    MaxTime = 6
    MaxChanges = 1
    MaxFaults = 1
INVARIANTS
    TypeOK
PROPERTIES
    AccountForCause
    ActivityForCause
    WatcherForCause
    RevokedIsLeft
CHECK_DEADLOCK FALSE
