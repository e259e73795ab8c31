------------------------------ MODULE Delivery ------------------------------
(* How events travel: the outbox relays of a service, the consumers of a      *)
(* topic and of its retry topic, and kafka-reprocess. They meet in topics     *)
(* only, so a behaviour is of one part, which DeliveryInit chooses, and the   *)
(* others stand still.                                                        *)
EXTENDS KafkaConsumer

CONSTANTS
    Relays, Shards, Rows, ShardOf, KeyOf, BatchSize,  \* of OutboxRelay
    Backlog, Limits, MaxRefused, MaxRuns,             \* of Reprocess
    MaxFaults,                                        \* of both
    Casts,              \* the sets of clients that run together
    MaxTroubles         \* bound: crashes, stops and failed sends of one behaviour

VARIABLES
    part,                                               \* whose behaviour it is
    cast,                                               \* the consumers that run
    row, lock, relay, sent,                             \* of OutboxRelay
    dlq, letterOffset, told, unread, refused, tool,     \* of Reprocess
    faults

Relay == INSTANCE OutboxRelay
Reprocess == INSTANCE Reprocess WITH committed <- letterOffset

ASSUME DeliveryAssumption ==
    /\ ConsumerAssumption
    /\ Relay!RelayAssumption
    /\ Reprocess!ReprocessAssumption
    /\ Casts \subseteq SUBSET Clients
    /\ MaxTroubles \in Nat

relayVars == <<row, lock, relay, sent>>
reprocessVars == <<dlq, letterOffset, told, unread, refused, tool>>
deliveryVars == <<part, cast, vars, relayVars, reprocessVars, faults>>

DeliveryInit ==
    /\ Init /\ Relay!Init /\ Reprocess!Init
    /\ \/ part \in {"relay", "reprocess"} /\ cast = {}
       \/ part = "consumers" /\ cast \in Casts

RelayNext ==
    /\ part = "relay" /\ Relay!Next
    /\ UNCHANGED <<part, cast, vars, reprocessVars>>
ConsumersNext ==
    /\ part = "consumers" /\ Next
    /\ \A c \in Clients \ cast : client'[c] = client[c]
    /\ crashes' + sideFailures' + stops' <= MaxTroubles
    /\ UNCHANGED <<part, cast, relayVars, reprocessVars, faults>>
ReprocessNext ==
    /\ part = "reprocess" /\ Reprocess!Next
    /\ UNCHANGED <<part, cast, vars, relayVars>>
DeliveryNext == RelayNext \/ ConsumersNext \/ ReprocessNext

\* The fairness of each part, while it is the one that runs.
DeliverySpec ==
    /\ DeliveryInit /\ [][DeliveryNext]_deliveryVars
    /\ \A r \in Relays : WF_Relay!vars(part = "relay" /\ Relay!RelayStep(r))
    /\ \A c \in Clients :
          /\ WF_vars(part = "consumers" /\ c \in cast /\ WorkerStep(c))
          /\ WF_vars(part = "consumers" /\ c \in cast /\ LoopStep(c))

-----------------------------------------------------------------------------
\* The variables of every part have the values its code can give them.
AllTypes == TypeOK /\ Relay!TypeOK /\ Reprocess!TypeOK

\* What leaves the outbox is a row that was committed, once for each row and fault
\* (relay.go:209-251); what leaves the dead letter topic likewise
\* (kafka-reprocess/main.go:140-217).
DuplicatesAreFaults ==
    /\ Relay!OnlyFacts /\ Relay!DuplicatesAreFaults
    /\ Reprocess!MovedOnce

\* Every committed row of an outbox reaches the broker (relay.go:150-155).
Delivered == Relay!Delivered

\* Every published event is applied or ends in the DLQ, or waits in the retry topic
\* where no RetryConsumer runs, after all the rebalances, restarts and crashes, unless
\* the partition stays for ever with a member that met a fetch error and went on
\* without Run; and a client that is told to stop leaves (kafka.go:298-321).
Published == {log["main"][i].event : i \in 1..Len(log["main"])}
Waits(e) == (\A c \in cast : TopicOf[c] = "main") /\ Carried(e, 0)
Deaf(c) == NoEngine(c) /\ ~client[c].stopping /\ owner[TopicOf[c]] = c
ConsumersEnd ==
    /\ (\A c \in Clients : []<>~Deaf(c)) =>
           <>[](\A e \in Published : e \in applied \cup dead \/ Waits(e))
    /\ \A c \in Stoppable : client[c].stopping ~> client[c].loop = "down"
=============================================================================
