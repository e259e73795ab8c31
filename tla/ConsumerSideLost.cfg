SPECIFICATION Spec
CONSTANTS
    a = a
    b = b
    r = r
    Events = {e1, e2}
    Clients = {a, r}
    NoClient = NoClient
    TopicOf <- MainAndRetry
    ChannelSize = 1
    MaxRetryAttempts = 2
    MaxRetryRounds = 1
    MaxCrashes = 0
    MaxSideFailures = 1
    Stoppable = {}
    MaxStops = 0
INVARIANTS NothingSkipped
CHECK_DEADLOCK FALSE
