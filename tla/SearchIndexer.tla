--------------------------- MODULE SearchIndexer ---------------------------
(* services/search: the handler of catalog.listing.published and the          *)
(* BulkIndexer that puts its documents into the index, for one process.       *)
(* Elasticsearch is external; it keeps a document unless the version is older *)
(* (external_gte), and is taken to remember the versions of deleted ones.     *)
EXTENDS Integers, Sequences, SequencesExt, FiniteSets

CONSTANTS
    Events,         \* listing.published events
    DocOf, VersionOf, Removed, Invalid,
                    \* their listing, occurred_at, and which are removals or
                    \* documents that the mapping refuses
    Calls,          \* deliveries of an event to the handler
    BatchSize, BufferSize,
    MaxFaults       \* bound: bulk requests that fail, with or without effect

IndexerAssumption ==
    /\ VersionOf \in [Events -> Nat]
    /\ Removed \subseteq Events /\ Invalid \subseteq Events \ Removed
    /\ {BatchSize, BufferSize} \subseteq Nat \ {0}
    /\ MaxFaults \in Nat

VARIABLES
    call,   \* the handler's calls: event, place, and the result channel's value
    submit, \* the channel, of calls
    batch,
    run,    \* where the goroutine is
    done,   \* close(b.done)
    stopped,\* the consumers' context is cancelled
    index,  \* index[d]: version and presence of a document
    faults
vars == <<call, submit, batch, run, done, stopped, index, faults>>

Docs == {DocOf[e] : e \in Events}
Answers == {"nil", "invalid", "unavailable"}
Closed == {"handled", "dead", "again", "cancelled"}
TypeOK ==
    /\ call \in [Calls -> [at : {"none", "submit", "wait"} \cup Closed,
                           event : Events, result : Answers \cup {"none"}]]
    /\ submit \in Seq(Calls) /\ Len(submit) <= BufferSize
    /\ batch \in Seq(Calls)
    /\ run \in {"select", "flush", "drain", "last flush", "returned"}
    /\ {done, stopped} \subseteq BOOLEAN
    /\ index \in [Docs -> [version : Nat, there : BOOLEAN]]
    /\ faults \in 0..MaxFaults

Init ==
    /\ call \in [Calls -> [at : {"none"}, event : Events, result : {"none"}]]
    /\ submit = <<>> /\ batch = <<>>
    /\ run = "select"
    /\ done = FALSE /\ stopped = FALSE
    /\ index = [d \in Docs |-> [version |-> 0, there |-> FALSE]]
    /\ faults = 0

loop == <<batch, run, index, faults>>

-----------------------------------------------------------------------------
(* HandleListingPublished, IndexListing or DeleteListing, and do.             *)

Deliver(c) ==
    /\ call[c].at = "none" /\ ~stopped
    /\ call' = [call EXCEPT ![c].at = "submit"]
    /\ UNCHANGED <<submit, done, stopped, loop>>

\* select: the channel, when it has room; b.done; the context. Any that is ready.
Submit(c) ==
    /\ call[c].at = "submit"
    /\ \/ /\ Len(submit) < BufferSize
          /\ submit' = Append(submit, c)
          /\ call' = [call EXCEPT ![c].at = "wait"]
       \/ done /\ call' = [call EXCEPT ![c].at = "again"] /\ UNCHANGED submit
       \/ stopped /\ call' = [call EXCEPT ![c].at = "cancelled"] /\ UNCHANGED submit
    /\ UNCHANGED <<done, stopped, loop>>

\* classifyESErr: an invalid document is permanent, anything else is retried.
Classified(result) ==
    CASE result = "nil" -> "handled" [] result = "invalid" -> "dead" [] OTHER -> "again"
\* As if the wait did not look at the context.
ReceiveOnly(c) ==
    /\ call[c].at = "wait" /\ call[c].result # "none"
    /\ call' = [call EXCEPT ![c].at = Classified(call[c].result)]
    /\ UNCHANGED <<submit, done, stopped, loop>>

Receive(c) ==
    /\ call[c].at = "wait"
    /\ \/ /\ call[c].result # "none"
          /\ call' = [call EXCEPT ![c].at = Classified(call[c].result)]
       \/ stopped /\ call' = [call EXCEPT ![c].at = "cancelled"]
    /\ UNCHANGED <<submit, done, stopped, loop>>

\* SIGTERM; main closes the indexer after the consumers, or after their timeout.
Stop ==
    /\ ~stopped /\ stopped' = TRUE
    /\ UNCHANGED <<call, submit, done, loop>>
Close ==
    /\ stopped /\ ~done /\ done' = TRUE
    /\ UNCHANGED <<call, submit, stopped, loop>>

-----------------------------------------------------------------------------
(* The goroutine.                                                             *)

Take ==
    /\ run \in {"select", "drain"} /\ submit # <<>>
    /\ batch' = Append(batch, Head(submit)) /\ submit' = Tail(submit)
    /\ run' = IF run = "select" /\ Len(batch') >= BatchSize THEN "flush" ELSE run
    /\ UNCHANGED <<call, done, stopped, index, faults>>
Tick ==
    /\ run = "select" /\ batch # <<>>
    /\ run' = "flush"
    /\ UNCHANGED <<call, submit, done, stopped, batch, index, faults>>
Done ==
    /\ run = "select" /\ done
    /\ run' = "drain"
    /\ UNCHANGED <<call, submit, done, stopped, batch, index, faults>>
Drained ==
    /\ run = "drain" /\ submit = <<>>
    /\ run' = IF batch = <<>> THEN "returned" ELSE "last flush"
    /\ UNCHANGED <<call, submit, done, stopped, batch, index, faults>>

EventAt(i) == call[batch[i]].event

\* As if the version were not sent along: the last action of a document wins.
LastWins(actions, i) ==
    /\ i \in actions /\ EventAt(i) \notin Invalid
    /\ \A j \in actions : DocOf[EventAt(j)] = DocOf[EventAt(i)] /\ j > i => EventAt(j) \in Invalid

\* Which of the actions at some places of a batch a document owes its version to,
\* when _bulk has executed them in their order: the newest, of equals the last.
Wins(actions, i) ==
    /\ i \in actions /\ EventAt(i) \notin Invalid
    /\ VersionOf[EventAt(i)] >= index[DocOf[EventAt(i)]].version
    /\ \A j \in actions :
          DocOf[EventAt(j)] = DocOf[EventAt(i)] /\ EventAt(j) \notin Invalid =>
              \/ VersionOf[EventAt(j)] < VersionOf[EventAt(i)]
              \/ VersionOf[EventAt(j)] = VersionOf[EventAt(i)] /\ j <= i
Document(e) == [version |-> VersionOf[e], there |-> e \notin Removed]
Bulk(actions) ==
    [d \in Docs |->
        IF \E i \in actions : DocOf[EventAt(i)] = d /\ Wins(actions, i)
        THEN Document(EventAt(CHOOSE i \in actions : DocOf[EventAt(i)] = d /\ Wins(actions, i)))
        ELSE index[d]]

\* A removal that is not older than what is known of its document, and finds none:
\* Elasticsearch keeps the version and answers 404, without a type of error.
NotFound(actions, i) ==
    LET e == EventAt(i)
        was == Bulk({j \in actions : j < i})[DocOf[e]]
    IN  e \in Removed /\ VersionOf[e] >= was.version /\ ~was.there
\* classifyBulkItemErr: a version conflict is no error, a status without one is.
ItemResult(actions, i) ==
    IF EventAt(i) \in Invalid THEN "invalid"
    ELSE IF NotFound(actions, i) THEN "unavailable" ELSE "nil"
\* The answer to the call at each place of the batch.
Answered(result) ==
    [c \in Calls |->
        IF \E i \in DOMAIN result : batch[i] = c
        THEN [call[c] EXCEPT !.result = result[CHOOSE i \in DOMAIN result : batch[i] = c]]
        ELSE call[c]]

\* flush. The whole request may fail, before or after Elasticsearch has acted on
\* a part of it; or single items may (a shard is down), and their neighbours not.
Flush ==
    /\ run \in {"flush", "last flush"}
    /\ LET places == 1..Len(batch) IN
       \/ /\ index' = Bulk(places)
          /\ call' = Answered([i \in places |-> ItemResult(places, i)])
          /\ UNCHANGED faults
       \/ /\ faults < MaxFaults /\ faults' = faults + 1
          /\ \E good \in SUBSET places, answered \in BOOLEAN :
                /\ index' = Bulk(good)
                /\ call' = Answered([i \in places |->
                      IF answered /\ i \in good THEN ItemResult(good, i) ELSE "unavailable"])
    /\ batch' = <<>>
    /\ run' = IF run = "flush" THEN "select" ELSE "returned"
    /\ UNCHANGED <<submit, done, stopped>>

Goroutine == Take \/ Tick \/ Done \/ Drained \/ Flush
Next ==
    \/ \E c \in Calls : Deliver(c) \/ Submit(c) \/ Receive(c)
    \/ Goroutine \/ Stop \/ Close

Spec == Init /\ [][Next]_vars
FairSpec == Spec /\ WF_vars(Goroutine) /\ \A c \in Calls : WF_vars(Submit(c) \/ Receive(c))

-----------------------------------------------------------------------------
\* The offset of an event is committed only when the index has it, or a newer one
\* of its listing; an event that lost to a newer one is no error
\* (bulk_indexer.go:44-68, errors.go:31-46).
HandledIsIndexed ==
    \A c \in Calls : call[c].at = "handled" =>
        LET e == call[c].event IN
        /\ index[DocOf[e]].version >= VersionOf[e]
        /\ index[DocOf[e]].version = VersionOf[e] => index[DocOf[e]].there = (e \notin Removed)

\* A handler that waits for its batch gets an answer, also when it submitted after
\* the goroutine had drained the channel for the last time.
EveryCallEnds == \A c \in Calls : call[c].at # "none" ~> call[c].at \in Closed
=============================================================================
