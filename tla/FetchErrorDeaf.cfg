SPECIFICATION FairSpec
CONSTANTS
    a = a
    b = b
    r = r
    Events = {e1}
    Clients = {a}
    NoClient = NoClient
    TopicOf <- MainAndRetry
    ChannelSize = 1
    MaxRetryAttempts = 1
    MaxRetryRounds = 1
    MaxCrashes = 0
    MaxSideFailures = 0
    Stoppable = {a}
    MaxStops = 1
PROPERTIES AtLeastOnce
CHECK_DEADLOCK FALSE
