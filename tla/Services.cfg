SPECIFICATION Spec
CONSTANTS
    d1 = d1
    d2 = d2
    d3 = d3
    d4 = d4
    Views = {1, 2, 3}
    Capacity = 1
    FlushSize = 2
    Listed = {1, 2, 3}
    DocOf <- DocOfEvent
    VersionOf <- VersionOfEvent
    Removed = {2}
    Invalid = {3}
    Handlers = {d1, d2, d3}
    IndexBatch = 2
    BufferSize = 1
    Facts = {1, 2, 3}
    Broken = {3}
    Adds = {d1, d2, d3, d4}
    NoCaller = NoCaller
    MaxBatch = 2
    Processes = {"wallet", "order", "orderWorker", "search", "analytics", "media", "catalog", "thumbnail"}
    MaxFailures = 1
    Requests = {d1, d2, d3}
    MaxAttempts = 2
    MinRequests = 2
    Probes = 1
    MaxGenerations = 1
    Cards = {1, 2}
    PageSize = 1
    Runs = 2
    MaxFaults = 1
    Handled <- Deliveries
    Added <- Rows
INVARIANTS TypeOK HandledIsKept SentAsPromised SearchStays
PROPERTIES NobodyWaitsForEver
CHECK_DEADLOCK FALSE
