------------------------------ MODULE Services ------------------------------
(* The goroutines that batch, the lives of the service processes, the calls   *)
(* between them, and search-reindex. They meet in the stores and in topics    *)
(* only, so a behaviour is of one part, which Init chooses, and the others    *)
(* stand still.                                                               *)
EXTENDS Integers, Sequences

CONSTANTS
    Views, Capacity, FlushSize,                             \* of ViewBatcher
    Listed, DocOf, VersionOf, Removed, Invalid,             \* of SearchIndexer
    Handlers, IndexBatch, BufferSize,
    Facts, Broken, Adds, NoCaller, MaxBatch,                \* of AnalyticsWriter
    Processes, MaxFailures,                                 \* of Lifecycle
    Requests, MaxAttempts, MinRequests, Probes, MaxGenerations, \* of ClientCalls
    Cards, PageSize, Runs,                                  \* of Reindex
    MaxFaults,
    Handled, Added  \* bound: which event each call of the handlers may be about

VARIABLES
    part,
    view, late, buf, batch, run, done, topic, viewFaults,
    call, submit, bulk, indexRun, indexDone, stopped, index, indexFaults,
    add, pending, timer, fired, inserting, rows, rowFaults,
    service, phase, opened, signalled, ready, server, active, task, joined, rang, expired,
    failures,
    idempotent, rpc, breaker, outage, wasOut,
    published, replica, unindexed, docs, searchable, alias, tool, page, kept, toolFaults

Batcher == INSTANCE ViewBatcher WITH faults <- viewFaults
Indexer == INSTANCE SearchIndexer WITH
    Events <- Listed, Calls <- Handlers, BatchSize <- IndexBatch,
    batch <- bulk, run <- indexRun, done <- indexDone, faults <- indexFaults
Writer == INSTANCE AnalyticsWriter WITH
    Events <- Facts, Calls <- Adds, call <- add, faults <- rowFaults
Life == INSTANCE Lifecycle WITH Services <- Processes
Client == INSTANCE ClientCalls WITH Calls <- Requests, call <- rpc
Reindex == INSTANCE Reindex WITH
    BatchSize <- PageSize, pending <- unindexed, faults <- toolFaults

ASSUME ServicesAssumption ==
    /\ Batcher!BatcherAssumption
    /\ Indexer!IndexerAssumption
    /\ Writer!WriterAssumption
    /\ Life!LifecycleAssumption
    /\ Client!ClientAssumption
    /\ Reindex!ReindexAssumption
    /\ Handled \subseteq [Handlers -> Listed] /\ Added \subseteq [Adds -> Facts]

batcherVars == <<view, late, buf, batch, run, done, topic, viewFaults>>
indexerVars == <<call, submit, bulk, indexRun, indexDone, stopped, index, indexFaults>>
writerVars == <<add, pending, timer, fired, inserting, rows, rowFaults>>
lifeVars == <<service, phase, opened, signalled, ready, server, active, task, joined,
              rang, expired, failures>>
clientVars == <<idempotent, rpc, breaker, outage, wasOut>>
reindexVars == <<published, replica, unindexed, docs, searchable, alias, tool, page, kept, toolFaults>>
vars == <<part, batcherVars, indexerVars, writerVars, lifeVars, clientVars, reindexVars>>

\* What a part chooses at its start is chosen for a part that stands still.
Init ==
    /\ part \in {"views", "indexer", "writer", "life", "client", "reindex"}
    /\ Batcher!Init
    /\ Indexer!Init /\ [c \in Handlers |-> call[c].event] \in Handled
    /\ part # "indexer" =>
          [c \in Handlers |-> call[c].event] = CHOOSE h \in Handled : TRUE
    /\ Writer!Init /\ [c \in Adds |-> add[c].event] \in Added
    /\ part # "writer" => [c \in Adds |-> add[c].event] = CHOOSE a \in Added : TRUE
    /\ Life!Init /\ (part # "life" => service = CHOOSE p \in Processes : TRUE)
    /\ Client!Init /\ (part # "client" => ~idempotent)
    /\ Reindex!Init /\ (part # "reindex" => alias = Reindex!First)

BatcherNext ==
    /\ part = "views" /\ Batcher!Next
    /\ UNCHANGED <<part, indexerVars, writerVars, lifeVars, clientVars, reindexVars>>
IndexerNext ==
    /\ part = "indexer" /\ Indexer!Next
    /\ UNCHANGED <<part, batcherVars, writerVars, lifeVars, clientVars, reindexVars>>
WriterNext ==
    /\ part = "writer" /\ Writer!Next
    /\ UNCHANGED <<part, batcherVars, indexerVars, lifeVars, clientVars, reindexVars>>
LifeNext ==
    /\ part = "life" /\ Life!Next
    /\ UNCHANGED <<part, batcherVars, indexerVars, writerVars, clientVars, reindexVars>>
ClientNext ==
    /\ part = "client" /\ Client!Next
    /\ UNCHANGED <<part, batcherVars, indexerVars, writerVars, lifeVars, reindexVars>>
ReindexNext ==
    /\ part = "reindex" /\ Reindex!Next
    /\ UNCHANGED <<part, batcherVars, indexerVars, writerVars, lifeVars, clientVars>>
Next ==
    BatcherNext \/ IndexerNext \/ WriterNext \/ LifeNext \/ ClientNext \/ ReindexNext

\* The fairness of each part, while it is the one that runs.
Spec ==
    /\ Init /\ [][Next]_vars
    /\ WF_Batcher!vars(part = "views" /\ Batcher!Goroutine)
    /\ WF_Indexer!vars(part = "indexer" /\ Indexer!Goroutine)
    /\ \A c \in Handlers :
          WF_Indexer!vars(part = "indexer" /\ (Indexer!Submit(c) \/ Indexer!Receive(c)))
    /\ WF_Writer!vars(part = "writer" /\ Writer!Fire)
    /\ WF_Writer!vars(part = "writer" /\ Writer!FlushTimer)
    /\ WF_Writer!vars(part = "writer" /\ \E b \in inserting : Writer!Insert(b))
    /\ \A c \in Adds : WF_Writer!vars(part = "writer" /\ Writer!Flushing(c))
    /\ WF_Life!vars(part = "life" /\ Life!Process)
    /\ WF_Life!vars(part = "life" /\ Life!JoinedReturns)
    /\ \A i \in 0..Runs : WF_Reindex!vars(part = "reindex" /\ Reindex!Refresh(i))

-----------------------------------------------------------------------------
\* The variables of every part have the values its code can give them.
TypeOK ==
    /\ Batcher!TypeOK /\ Indexer!TypeOK /\ Writer!TypeOK
    /\ Life!TypeOK /\ Client!TypeOK /\ Reindex!TypeOK

\* An event whose offset is committed is in the index, or in its table; a view that
\* was taken is in the topic when Close returns (bulk_indexer.go:44-68,
\* batch.go:33-45, view_batcher.go:140-176).
HandledIsKept ==
    /\ Batcher!PublishedOnce /\ Batcher!CloseFlushes
    /\ Indexer!HandledIsIndexed
    /\ Writer!HandledIsStored /\ Writer!RowsAreFlushed

\* What Run joins, or a request uses, is closed only after it ended or its time was
\* over, on every way out of every Run (bootstrap/app.go and main.go of each service).
EndedBeforeClosed == Life!EndedBeforeClosed

\* A call that is not idempotent is sent once, and one the breaker refuses not at all
\* (retry.go:121-171, client.go:128-131).
SentAsPromised == Client!SentAsPromised

\* The index that search reads has what search found when a reindex began, through
\* its faults and its repetition, and its alias points to an index (reindex.go:86-160).
SearchStays == Reindex!KeptIsServed /\ Reindex!AliasServes

\* Whoever waits for a batch, or for Close, gets an answer, a process that is told to
\* stop exits, whatever its tasks and its servers do, and search finds again what it
\* found before the alias was switched.
NobodyWaitsForEver ==
    /\ part = "views" => Batcher!CloseReturns
    /\ part = "indexer" => Indexer!EveryCallEnds
    /\ part = "writer" => Writer!AddReturns
    /\ part = "life" => Life!Exits
    /\ part = "reindex" => Reindex!FoundAgain
=============================================================================
