SPECIFICATION DeliverySpec
CONSTANTS
    a = a
    b = b
    c = c
    r = r
    Events = {e, f}
    Clients = {a, b, c, r}
    NoClient = NoClient
    TopicOf <- TwoTopics
    ChannelSize = 1
    MaxRetryAttempts = 2
    MaxRetryRounds = 1
    MaxCrashes = 1
    MaxSideFailures = 0
    Stoppable = {a}
    MaxStops = 1
    Casts <- GroupOrPair
    MaxTroubles = 1
    Relays = {p, q}
    Shards = 2
    Rows = {1, 2, 3}
    ShardOf <- RowOdd
    KeyOf <- RowOdd
    BatchSize = 2
    Backlog = 2
    Limits = {0, 1}
    MaxRefused = 2
    MaxRuns = 2
    MaxFaults = 1
INVARIANTS AllTypes DuplicatesAreFaults NothingSkipped HandedOver
PROPERTIES Delivered ConsumersEnd
CHECK_DEADLOCK FALSE
