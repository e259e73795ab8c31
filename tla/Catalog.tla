------------------------------ MODULE Catalog ------------------------------
(* services/catalog: the indexer that makes and publishes cards from two      *)
(* topics of media, the cache of cards, and the readers that fill it from a   *)
(* replica. A topic has one event for a photo; its consumer delivers it at    *)
(* least once and in retry rounds, as KafkaConsumer says. PostgreSQL, its     *)
(* replication and Redis are external.                                        *)
EXTENDS Integers, FiniteSets

CONSTANTS
    Photos,
    Processes,  \* the processes of catalog that serve readers
    NoPhoto,
    MaxRounds,  \* retry rounds before the DLQ
    MaxFaults   \* bound: failed or unanswered calls, crashes, redeliveries

CatalogAssumption ==
    /\ NoPhoto \notin Photos
    /\ {MaxRounds, MaxFaults} \subseteq Nat

VARIABLES
    card,      \* the status in listings, on the primary
    replica,   \* the same on the replica
    claims,    \* processed_events
    told,      \* the listing.published events in the outbox, for each card
    record,    \* record[t][p]: what the consumer of topic t has made of the event
    rounds,    \* rounds[t][p]: the retry rounds it has gone through
    handler,   \* handler[t]: where the handler of t is in afterApply
    cached,    \* the status in the card that Redis has
    flight,    \* the load that a process has in its singleflight group
    faults
tables == <<card, claims, told>>
events == <<record, rounds, handler>>
reading == <<replica, cached, flight>>
vars == <<tables, events, reading, faults>>

Topics == {"uploaded", "thumbnail-ready"}
Statuses == {"none", "draft", "published"}
NoFlight == [at |-> "idle", photo |-> NoPhoto, status |-> "none"]
NoHandler == [at |-> "idle", photo |-> NoPhoto]

TypeOK ==
    /\ {card, replica, cached} \subseteq [Photos -> Statuses]
    /\ claims \subseteq Topics \X Photos
    /\ told \in [Photos -> Nat]
    /\ record \in [Topics -> [Photos -> {"none", "pending", "handled", "dead"}]]
    /\ rounds \in [Topics -> [Photos -> 0..MaxRounds]]
    /\ handler \in [Topics -> [at : {"idle", "invalidate", "notify"}, photo : Photos \cup {NoPhoto}]]
    /\ flight \in [Processes -> [at : {"idle", "load", "set"}, photo : Photos \cup {NoPhoto},
                                 status : Statuses]]
    /\ faults \in 0..MaxFaults

Init ==
    /\ card = [p \in Photos |-> "none"] /\ replica = card /\ cached = card
    /\ claims = {}
    /\ told = [p \in Photos |-> 0]
    /\ record = [t \in Topics |-> [p \in Photos |-> "none"]]
    /\ rounds = [t \in Topics |-> [p \in Photos |-> 0]]
    /\ handler = [t \in Topics |-> NoHandler]
    /\ flight = [i \in Processes |-> NoFlight]
    /\ faults = 0

Fault == faults < MaxFaults /\ faults' = faults + 1
NoFault == UNCHANGED faults

-----------------------------------------------------------------------------
(* The topics.                                                                *)

\* media publishes uploaded, then the worker thumbnail-ready.
Arrive(t, p) ==
    /\ record[t][p] = "none"
    /\ t = "thumbnail-ready" => record["uploaded"][p] # "none"
    /\ record' = [record EXCEPT ![t][p] = "pending"]
    /\ UNCHANGED <<tables, rounds, handler, reading, faults>>

Redeliver(t, p) ==
    /\ record[t][p] = "handled" /\ Fault
    /\ record' = [record EXCEPT ![t][p] = "pending"]
    /\ UNCHANGED <<tables, rounds, handler, reading>>

-----------------------------------------------------------------------------
(* The indexer.                                                               *)

\* HandlePhotoUploaded under WithClaim: INSERT ... ON CONFLICT DO NOTHING. media
\* has the photo, since it wrote the event with its row.
UpsertListing(p) ==
    /\ card' = [card EXCEPT ![p] = IF @ = "none" THEN "draft" ELSE @]
    /\ UNCHANGED told
\* HandlePhotoThumbnailReady under WithClaim: the row FOR UPDATE, and the outbox.
ApplyThumbnails(p) ==
    /\ card[p] # "none"
    /\ card' = [card EXCEPT ![p] = "published"]
    /\ told' = [told EXCEPT ![p] = @ + 1]
\* As if the transaction did not record the claim.
WithoutClaim(t, p) ==
    /\ IF t = "uploaded" THEN UpsertListing(p) ELSE ApplyThumbnails(p)
    /\ UNCHANGED claims

WithClaim(t, p) ==
    /\ claims' = claims \cup {<<t, p>>}
    /\ IF t = "uploaded" THEN UpsertListing(p) ELSE ApplyThumbnails(p)

\* kafkax.Retryable: the next round, or the DLQ when they are used up.
Retryable(t, p) ==
    /\ IF rounds[t][p] < MaxRounds
       THEN rounds' = [rounds EXCEPT ![t][p] = @ + 1] /\ UNCHANGED record
       ELSE record' = [record EXCEPT ![t][p] = "dead"] /\ UNCHANGED rounds
    /\ UNCHANGED handler
Handled(t, p) ==
    /\ record' = [record EXCEPT ![t][p] = "handled"]
    /\ handler' = [handler EXCEPT ![t] = NoHandler]
    /\ UNCHANGED rounds

Handle(t, p) ==
    /\ record[t][p] = "pending" /\ handler[t].at = "idle"
    /\ \/ /\ <<t, p>> \notin claims /\ WithClaim(t, p)
          /\ handler' = [handler EXCEPT ![t] = [at |-> "invalidate", photo |-> p]]
          /\ UNCHANGED <<record, rounds>> /\ NoFault
       \/ <<t, p>> \in claims /\ Handled(t, p) /\ UNCHANGED tables /\ NoFault
       \/ \* ErrNotFound: thumbnail-ready has overtaken uploaded
          /\ <<t, p>> \notin claims /\ t = "thumbnail-ready" /\ card[p] = "none"
          /\ Retryable(t, p) /\ UNCHANGED tables /\ NoFault
       \/ \* the database or media fails, or a COMMIT has no answer
          /\ Fault /\ Retryable(t, p)
          /\ \/ UNCHANGED tables
             \/ <<t, p>> \notin claims /\ WithClaim(t, p)
    /\ UNCHANGED reading

\* afterApply; an error of Redis is logged.
Invalidate(t) ==
    /\ handler[t].at = "invalidate"
    /\ handler' = [handler EXCEPT ![t].at = "notify"]
    /\ \/ cached' = [cached EXCEPT ![handler[t].photo] = "none"] /\ NoFault
       \/ UNCHANGED cached /\ Fault
    /\ UNCHANGED <<tables, record, rounds, replica, flight>>
Notify(t) ==
    /\ handler[t].at = "notify"
    /\ Handled(t, handler[t].photo)
    /\ UNCHANGED <<tables, reading, faults>>

\* The process dies in afterApply: the event comes again, and finds its claim.
Crash(t) ==
    /\ handler[t].at # "idle" /\ Fault
    /\ handler' = [handler EXCEPT ![t] = NoHandler]
    /\ UNCHANGED <<tables, record, rounds, reading>>

-----------------------------------------------------------------------------
(* The readers: GetOrLoadProto, whose load reads the replica.                 *)

Miss(i, p) ==
    /\ flight[i].at = "idle" /\ cached[p] = "none"
    /\ flight' = [flight EXCEPT ![i] = [at |-> "load", photo |-> p, status |-> "none"]]
    /\ UNCHANGED <<tables, events, replica, cached, faults>>
\* A card that is not there is an error, and nothing is cached.
Load(i) ==
    /\ flight[i].at = "load"
    /\ LET status == replica[flight[i].photo] IN
       flight' = [flight EXCEPT ![i] = IF status = "none" THEN NoFlight
                                       ELSE [@ EXCEPT !.at = "set", !.status = status]]
    /\ UNCHANGED <<tables, events, replica, cached, faults>>
\* SET, whose error leaves the answer as it is.
Set(i) ==
    /\ flight[i].at = "set"
    /\ flight' = [flight EXCEPT ![i] = NoFlight]
    /\ \/ cached' = [cached EXCEPT ![flight[i].photo] = flight[i].status] /\ NoFault
       \/ UNCHANGED cached /\ Fault
    /\ UNCHANGED <<tables, events, replica>>

\* The TTL, or eviction.
Expire(p) ==
    /\ cached[p] # "none"
    /\ cached' = [cached EXCEPT ![p] = "none"]
    /\ UNCHANGED <<tables, events, replica, flight, faults>>
Replicate ==
    /\ replica # card /\ replica' = card
    /\ UNCHANGED <<tables, events, cached, flight, faults>>

Serve(t) == Invalidate(t) \/ Notify(t) \/ \E p \in Photos : Handle(t, p)
Next ==
    \/ \E t \in Topics : \E p \in Photos : Arrive(t, p) \/ Redeliver(t, p)
    \/ \E t \in Topics : Serve(t) \/ Crash(t)
    \/ \E i \in Processes : Load(i) \/ Set(i) \/ \E p \in Photos : Miss(i, p)
    \/ \E p \in Photos : Expire(p)
    \/ Replicate

Spec == Init /\ [][Next]_vars
FairSpec ==
    /\ Spec
    /\ \A t \in Topics : WF_vars(Serve(t))
    /\ \A i \in Processes : WF_vars(Load(i) \/ Set(i))
    /\ \A p \in Photos : WF_vars(Expire(p))
    /\ WF_vars(Replicate)

-----------------------------------------------------------------------------
\* listing.published is told once of a card, with the change that publishes it
\* (indexer.go:40-51), and an event that was handled has had its effect.
EachPublishIsTold ==
    \A p \in Photos :
        /\ told[p] = IF card[p] = "published" THEN 1 ELSE 0
        /\ record["uploaded"][p] = "handled" => card[p] # "none"
        /\ record["thumbnail-ready"][p] = "handled" => card[p] = "published"

\* Every event is handled or ends in the DLQ, and then Redis has the card as it is
\* or not at all: races and lags pass with the TTL.
CardSettles ==
    /\ \A t \in Topics, p \in Photos : record[t][p] = "pending" ~> record[t][p] \in {"handled", "dead"}
    /\ \A p \in Photos : <>[](cached[p] \in {"none", card[p]})
=============================================================================
