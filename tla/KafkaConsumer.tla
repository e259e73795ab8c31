--------------------------- MODULE KafkaConsumer ---------------------------
(* pkg/kafkax: Consumer over a topic, RetryConsumer over its retry topic, and *)
(* the partitionEngine under both, for one partition of each topic. The group *)
(* coordinator, the broker's logs and franz-go's poll lock are external.      *)
EXTENDS Integers, FiniteSets, Sequences

CONSTANTS
    Events, Clients, NoClient,
    TopicOf,            \* "main" for a Consumer, "retry" for a RetryConsumer
    ChannelSize,        \* the buffer of partitionWorker.recs
    MaxRetryAttempts, MaxRetryRounds,
    MaxCrashes,         \* bound: crashes, expired sessions, failed commits
    MaxSideFailures,    \* bound: failed sends to the retry topic and the DLQ
    Stoppable,          \* the clients that may be asked to stop, or meet a fetch error
    MaxStops            \* bound: how often that happens

ConsumerAssumption ==
    /\ NoClient \notin Clients
    /\ TopicOf \in [Clients -> {"main", "retry"}]
    /\ {ChannelSize, MaxRetryAttempts, MaxRetryRounds} \subseteq Nat \ {0}
    /\ {MaxCrashes, MaxSideFailures, MaxStops} \subseteq Nat
    /\ Stoppable \subseteq Clients

VARIABLES
    log,        \* log[t]: the records of the topic's partition; round is retry_count
    dead,       \* the events in the DLQ
    applied,    \* the events whose handler returned nil
    committed,  \* committed[t]: the group's offset, the number of records behind it
    owner,      \* owner[t]: to whom the coordinator gave the partition
    client,     \* the loop of Run, and what the kgo client of it knows
    worker,     \* the goroutine of the partition, if the client has one
    crashes, sideFailures, stops
vars == <<log, dead, applied, committed, owner, client, worker, crashes,
          sideFailures, stops>>

Topics == {"main", "retry"}
Down == [loop |-> "down", poller |-> FALSE, mine |-> FALSE, stopping |-> FALSE,
         joined |-> FALSE, position |-> 0, fetched |-> <<>>]
NoWorker == [at |-> "none", quit |-> FALSE, recs |-> <<>>, batch |-> <<>>, attempt |-> 0]
Busy == {"next", "wait", "handle", "side", "dlq", "commit"}

TypeOK ==
    /\ log \in [Topics -> Seq([event : Events, round : 0..MaxRetryRounds])]
    /\ dead \subseteq Events /\ applied \subseteq Events
    /\ \A t \in Topics : committed[t] \in 0..Len(log[t])
    /\ owner \in [Topics -> Clients \cup {NoClient}]
    /\ client \in [Clients -> [loop : {"down", "poll", "dispatch", "callback", "stopAll",
                                       "returned", "closed"},
                               poller : BOOLEAN, mine : BOOLEAN, stopping : BOOLEAN,
                               joined : BOOLEAN, position : Nat, fetched : Seq(Nat)]]
    /\ worker \in [Clients -> [at : {"none", "idle", "done"} \cup Busy, quit : BOOLEAN,
                               recs : Seq(Seq(Nat)), batch : Seq(Nat),
                               attempt : 0..MaxRetryAttempts]]
    /\ \A c \in Clients : Len(worker[c].recs) <= ChannelSize
    /\ crashes \in 0..MaxCrashes /\ sideFailures \in 0..MaxSideFailures /\ stops \in 0..MaxStops

Init ==
    /\ log = [t \in Topics |-> <<>>]
    /\ dead = {} /\ applied = {}
    /\ committed = [t \in Topics |-> 0]
    /\ owner = [t \in Topics |-> NoClient]
    /\ client = [c \in Clients |-> Down]
    /\ worker = [c \in Clients |-> NoWorker]
    /\ crashes = 0 /\ sideFailures = 0 /\ stops = 0

NoFault == UNCHANGED <<crashes, sideFailures, stops>>
Crashing == crashes < MaxCrashes /\ crashes' = crashes + 1 /\ UNCHANGED <<sideFailures, stops>>
broker == <<log, dead, applied, committed>>

\* Producer.Publish: the record is in the log when the call returns.
Publish(e) ==
    /\ \A i \in 1..Len(log["main"]) : log["main"][i].event # e
    /\ log' = [log EXCEPT !["main"] = Append(@, [event |-> e, round |-> 0])]
    /\ UNCHANGED <<dead, applied, committed, owner, client, worker>> /\ NoFault

-----------------------------------------------------------------------------
(* Membership: the callbacks of partitionEngine. kgo.BlockRebalanceOnPoll     *)
(* holds every callback, and Close, while a poll is not yet allowed to end.   *)

\* NewConsumer, NewRetryConsumer and the first lines of Run.
Run(c) ==
    /\ client[c].loop = "down"
    /\ client' = [client EXCEPT ![c] = [Down EXCEPT !.loop = "poll", !.joined = TRUE]]
    /\ UNCHANGED <<broker, owner, worker>> /\ NoFault

Assigned(c) ==
    /\ client[c].loop = "poll" /\ ~client[c].poller
    /\ ~client[c].mine /\ owner[TopicOf[c]] = NoClient
    /\ owner' = [owner EXCEPT ![TopicOf[c]] = c]
    /\ client' = [client EXCEPT ![c].mine = TRUE, ![c].joined = FALSE,
                             ![c].position = committed[TopicOf[c]]]
    /\ worker' = [worker EXCEPT ![c] = [NoWorker EXCEPT !.at = "idle"]]
    /\ UNCHANGED broker /\ NoFault

\* The coordinator takes the partition back, once for each member that joins
\* (revoked), or the session has expired (lost): the worker is told to quit.
Revoked(c) ==
    /\ client[c].loop = "poll" /\ ~client[c].poller /\ client[c].mine
    /\ \/ /\ owner[TopicOf[c]] # c
          /\ client' = [client EXCEPT ![c].loop = "callback"]
       \/ \E d \in Clients \ {c} :
             /\ TopicOf[d] = TopicOf[c] /\ client[d].joined
             /\ client' = [client EXCEPT ![c].loop = "callback", ![d].joined = FALSE]
    /\ worker' = [worker EXCEPT ![c].quit = TRUE]
    /\ UNCHANGED <<broker, owner>> /\ NoFault

Released(c) == [owner EXCEPT ![TopicOf[c]] = IF @ = c THEN NoClient ELSE @]

\* As if the callback did not wait for the goroutine.
RevokedAtOnce(c) ==
    /\ client[c].loop = "callback"
    /\ client' = [client EXCEPT ![c].loop = "poll", ![c].mine = FALSE]
    /\ owner' = Released(c)
    /\ UNCHANGED <<broker, worker>> /\ NoFault

\* The callback returns when the goroutine has: <-w.done.
RevokedDone(c) ==
    /\ client[c].loop = "callback" /\ worker[c].at = "done"
    /\ client' = [client EXCEPT ![c].loop = "poll", ![c].mine = FALSE]
    /\ worker' = [worker EXCEPT ![c] = NoWorker]
    /\ owner' = Released(c)
    /\ UNCHANGED broker /\ NoFault

SessionExpires(c) ==
    /\ owner[TopicOf[c]] = c /\ Crashing
    /\ owner' = [owner EXCEPT ![TopicOf[c]] = NoClient]
    /\ UNCHANGED <<broker, client, worker>>

Crash(c) ==
    /\ client[c].loop # "down" /\ Crashing
    /\ client' = [client EXCEPT ![c] = Down]
    /\ worker' = [worker EXCEPT ![c] = NoWorker]
    /\ owner' = Released(c)
    /\ UNCHANGED broker

-----------------------------------------------------------------------------
(* The loop of Run.                                                           *)

Offsets(m, n) == [i \in 1..(n - m) |-> m + i]

\* waitForRetryAt keeps a paused partition out of the poll.
PollFetches(c) ==
    /\ client[c].loop = "poll" /\ client[c].mine /\ ~client[c].stopping
    /\ worker[c].at # "wait"
    /\ \E n \in (client[c].position + 1)..Len(log[TopicOf[c]]) :
          client' = [client EXCEPT ![c].loop = "dispatch", ![c].poller = TRUE,
                                   ![c].position = n,
                                   ![c].fetched = Offsets(client[c].position, n)]
    /\ UNCHANGED <<broker, owner, worker>> /\ NoFault

\* As if the channel took one batch more.
HasRoomAndOne(c) == Len(worker[c].recs) <= ChannelSize

HasRoom(c) == Len(worker[c].recs) < ChannelSize

\* dispatch, which waits for room in the channel, then AllowRebalance.
Dispatch(c) ==
    /\ client[c].loop = "dispatch"
    /\ HasRoom(c)
    /\ worker' = [worker EXCEPT ![c].recs = Append(@, client[c].fetched)]
    /\ client' = [client EXCEPT ![c].loop = "poll", ![c].poller = FALSE, ![c].fetched = <<>>]
    /\ UNCHANGED <<broker, owner>> /\ NoFault

\* SIGTERM: the context of Run, and of every handler under it, is cancelled.
Cancel(c) ==
    /\ c \in Stoppable /\ client[c].loop # "down" /\ ~client[c].stopping
    /\ stops < MaxStops /\ stops' = stops + 1
    /\ client' = [client EXCEPT ![c].stopping = TRUE]
    /\ UNCHANGED <<broker, owner, worker, crashes, sideFailures>>

\* Run returns: the engine is forgotten, so that the callbacks find none, and then
\* stopAll tells the worker to quit and waits for it.
Returns(c, poller, stopping) ==
    /\ client' = [client EXCEPT ![c].loop = "stopAll", ![c].poller = poller,
                                ![c].stopping = stopping]
    /\ worker' = [worker EXCEPT ![c].quit = TRUE]
    /\ UNCHANGED <<broker, owner>>

\* As if the last poll did not call AllowRebalance before it returns.
ReturnPolling(c) ==
    /\ client[c].loop = "poll" /\ client[c].stopping
    /\ Returns(c, TRUE, TRUE) /\ NoFault

\* The poll that meets the cancelled context: AllowRebalance, return, stopAll.
Return(c) ==
    /\ client[c].loop = "poll" /\ client[c].stopping
    /\ Returns(c, FALSE, TRUE) /\ NoFault
\* The poll that meets an error. A service stops by it, or only logs it: then the
\* member stays in its group, and nobody polls.
FetchFails(c) ==
    /\ c \in Stoppable /\ client[c].loop = "poll" /\ ~client[c].stopping
    /\ stops < MaxStops /\ stops' = stops + 1 /\ UNCHANGED <<crashes, sideFailures>>
    /\ \E fatal \in BOOLEAN : Returns(c, FALSE, fatal)
StopAllDone(c) ==
    /\ client[c].loop = "stopAll" /\ worker[c].at \in {"none", "done"}
    /\ client' = [client EXCEPT ![c].loop = "returned"]
    /\ worker' = [worker EXCEPT ![c] = NoWorker]
    /\ UNCHANGED <<broker, owner>> /\ NoFault

\* The callbacks of a member without an engine do nothing: a partition goes at once,
\* though its worker may be busy, and one that comes gets no worker.
NoEngine(c) == client[c].loop \in {"stopAll", "returned"}
RevokedUnheard(c) ==
    /\ NoEngine(c) /\ client[c].mine
    /\ \/ /\ owner[TopicOf[c]] # c
          /\ client' = [client EXCEPT ![c].mine = FALSE]
       \/ \E d \in Clients \ {c} :
             /\ TopicOf[d] = TopicOf[c] /\ client[d].joined
             /\ client' = [client EXCEPT ![c].mine = FALSE, ![d].joined = FALSE]
    /\ owner' = Released(c)
    /\ UNCHANGED <<broker, worker>> /\ NoFault
AssignedUnheard(c) ==
    /\ NoEngine(c) /\ ~client[c].mine /\ owner[TopicOf[c]] = NoClient
    /\ owner' = [owner EXCEPT ![TopicOf[c]] = c]
    /\ client' = [client EXCEPT ![c].mine = TRUE, ![c].joined = FALSE]
    /\ UNCHANGED <<broker, worker>> /\ NoFault

\* Close leaves the group, when no poll is held; it may come before stopAll returns,
\* where Run is joined for a time only, or not at all. Then the process ends.
Close(c) ==
    /\ NoEngine(c) /\ client[c].stopping /\ ~client[c].poller
    /\ client' = [client EXCEPT ![c].loop = "closed", ![c].mine = FALSE]
    /\ owner' = Released(c)
    /\ UNCHANGED <<broker, worker>> /\ NoFault
Exit(c) ==
    /\ client[c].loop = "closed"
    /\ client' = [client EXCEPT ![c] = Down]
    /\ worker' = [worker EXCEPT ![c] = NoWorker]
    /\ UNCHANGED <<broker, owner>> /\ NoFault

-----------------------------------------------------------------------------
(* The goroutine of the partition, and processOne.                            *)

Step(c, w) == worker' = [worker EXCEPT ![c] = w] /\ UNCHANGED <<owner, client>>
At(c, place) == [worker[c] EXCEPT !.at = place]
Record(c) == log[TopicOf[c]][Head(worker[c].batch)]
\* processOne has returned: the next record of the batch, or the next batch.
Next1(c) == [worker[c] EXCEPT !.batch = Tail(@), !.attempt = 0,
                              !.at = IF Len(worker[c].batch) > 1 THEN "next" ELSE "idle"]

\* select picks either branch when quit and recs are both ready.
Take(c) ==
    /\ worker[c].at = "idle" /\ worker[c].recs # <<>>
    /\ Step(c, [At(c, "next") EXCEPT !.batch = Head(worker[c].recs), !.recs = Tail(@)])
    /\ UNCHANGED broker /\ NoFault
Quit(c) ==
    /\ worker[c].at \in {"idle", "next"} /\ worker[c].quit
    /\ Step(c, At(c, "done"))
    /\ UNCHANGED broker /\ NoFault

\* A record of the retry topic is first held until its retry_at, if that is ahead.
Begin(c) ==
    /\ worker[c].at = "next" /\ ~worker[c].quit
    /\ \/ Step(c, [At(c, "handle") EXCEPT !.attempt = 1])
       \/ TopicOf[c] = "retry" /\ Step(c, At(c, "wait"))
    /\ UNCHANGED broker /\ NoFault
WaitForRetryAt(c) ==
    /\ worker[c].at = "wait"
    /\ \/ Step(c, [At(c, "handle") EXCEPT !.attempt = 1])
       \/ client[c].stopping /\ Step(c, Next1(c))
    /\ UNCHANGED broker /\ NoFault

\* The next round, or none is left.
Reescalate(c) == Step(c, At(c, IF Record(c).round < MaxRetryRounds THEN "side" ELSE "dlq"))

\* The handler, and where its error sends the record. A broken envelope is a
\* permanent error that no handler saw.
Handle(c) ==
    /\ worker[c].at = "handle"
    /\ \/ applied' = applied \cup {Record(c).event} /\ Step(c, At(c, "commit"))
       \/ UNCHANGED applied /\ Step(c, At(c, "dlq"))
       \/ /\ UNCHANGED applied /\ TopicOf[c] = "main"
          /\ IF worker[c].attempt < MaxRetryAttempts
             THEN Step(c, [worker[c] EXCEPT !.attempt = @ + 1])
             ELSE Step(c, At(c, "side"))
       \/ UNCHANGED applied /\ TopicOf[c] = "retry" /\ Reescalate(c)
    /\ UNCHANGED <<log, dead, committed>> /\ NoFault

\* As if the send were not waited for, and lost.
SideLost(c) == UNCHANGED <<log, dead>>

\* sendToRetry, reescalate, sendToDLQ: what the broker has after the send.
SideSent(c) ==
    IF worker[c].at = "dlq"
    THEN dead' = dead \cup {Record(c).event} /\ UNCHANGED log
    ELSE /\ log' = [log EXCEPT !["retry"] = Append(@, [Record(c) EXCEPT !.round = @ + 1])]
         /\ UNCHANGED dead

\* finishWithRetry and finishWithDLQ of both consumers. Without the broker's answer
\* the offset is not committed, and the goroutine goes on to the next record.
Side(c) ==
    /\ worker[c].at \in {"side", "dlq"}
    /\ \/ SideSent(c) /\ Step(c, At(c, "commit")) /\ NoFault
       \/ /\ \/ client[c].loop = "closed" /\ NoFault
             \/ /\ sideFailures < MaxSideFailures /\ sideFailures' = sideFailures + 1
                /\ UNCHANGED <<crashes, stops>>
          /\ Step(c, Next1(c))
          /\ SideSent(c) \/ UNCHANGED <<log, dead>>
    /\ UNCHANGED <<applied, committed>>

\* CommitRecords of this record; the coordinator takes it from any member of the
\* group, refuses one it has dropped, and an error is logged.
Commit(c) ==
    /\ worker[c].at = "commit"
    /\ \/ /\ client[c].loop # "closed" /\ (client[c].mine => owner[TopicOf[c]] = c)
          /\ committed' = [committed EXCEPT ![TopicOf[c]] = Head(worker[c].batch)]
          /\ NoFault
       \/ owner[TopicOf[c]] # c /\ UNCHANGED committed /\ NoFault
       \/ owner[TopicOf[c]] = c /\ UNCHANGED committed /\ Crashing
    /\ Step(c, Next1(c))
    /\ UNCHANGED <<log, dead, applied>>

WorkerStep(c) ==
    Take(c) \/ Quit(c) \/ Begin(c) \/ WaitForRetryAt(c) \/ Handle(c) \/ Side(c) \/ Commit(c)
LoopStep(c) ==
    \/ Run(c) \/ Assigned(c) \/ RevokedDone(c) \/ PollFetches(c) \/ Dispatch(c)
    \/ Return(c) \/ StopAllDone(c) \/ AssignedUnheard(c) \/ Close(c) \/ Exit(c)
Next ==
    \/ \E e \in Events : Publish(e)
    \/ \E c \in Clients :
          \/ WorkerStep(c) \/ LoopStep(c)
          \/ Revoked(c) \/ RevokedUnheard(c)
          \/ SessionExpires(c) \/ Crash(c) \/ Cancel(c) \/ FetchFails(c)

Spec == Init /\ [][Next]_vars
FairSpec == Spec /\ \A c \in Clients : WF_vars(WorkerStep(c)) /\ WF_vars(LoopStep(c))

-----------------------------------------------------------------------------
Carried(e, after) == \E i \in 1..Len(log["retry"]) : i > after /\ log["retry"][i].event = e

\* An offset passes no record that was neither applied, nor put in the DLQ, nor
\* carried on by a later record of the retry topic (kafka.go:409-413, retry.go:270).
NothingSkipped ==
    \A t \in Topics : \A i \in 1..committed[t] :
        LET e == log[t][i].event IN
        e \in applied \cup dead \/ Carried(e, IF t = "retry" THEN i ELSE 0)

\* Two members work on one partition only after a crash or an expired session, or
\* while one of them stops: whoever polls is waited for when it is revoked. The
\* comment in engine.go:20-30 promises it without the second case.
TwoBusy(c, d) ==
    c # d /\ TopicOf[c] = TopicOf[d] /\ worker[c].at \in Busy /\ worker[d].at \in Busy
HandedOver ==
    \A c, d \in Clients : TwoBusy(c, d) =>
        crashes > 0 \/ {client[c].loop, client[d].loop} \cap {"stopAll", "closed"} # {}

\* Run reads the topic until its context is cancelled, and every event is handled at
\* least once (kafka.go:278-283).
AtLeastOnce ==
    \A e \in Events :
        (\E i \in 1..Len(log["main"]) : log["main"][i].event = e) ~>
            e \in applied \cup dead \/ Carried(e, 0)
=============================================================================
