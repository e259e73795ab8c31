-------------------------------- MODULE Cards --------------------------------
(* From a photo to its readers: the upload and the thumbnails of a file, the  *)
(* card of a photo and its cache, the streams that watch a card, and the      *)
(* pages of the two feeds. They meet in topics and tables that each of them   *)
(* has of its own here, so a behaviour is of one part, which Init chooses,    *)
(* and the others stand still.                                                *)
EXTENDS Integers, Sequences

CONSTANTS
    Photos, NoPhoto, Workers, NoWorker, Sizes, MaxFaults,   \* of PhotoPipeline
    Processes, MaxRounds, MaxCardFaults,                    \* of Catalog
    Streams, BufferSize, MaxChanges,                        \* of WatchHub
    Items, Ranks, DefaultLimit, MaxLimit, Asked             \* of Pages

VARIABLES
    part,       \* whose behaviour it is
    upload, images, photo, originals, thumbnails, record, claims, ready, deleted, lock, worker,
    faults,
    card, replica, cardClaims, told, cardRecord, rounds, handler, cached, flight, cardFaults,
    applied, notices, subs, stream,
    feed, rank, cursor, seen, first, moved

Photo == INSTANCE PhotoPipeline
Card == INSTANCE Catalog WITH
    claims <- cardClaims, record <- cardRecord,
    faults <- cardFaults, MaxFaults <- MaxCardFaults
Watch == INSTANCE WatchHub
Feeds == INSTANCE Pages

ASSUME CardsAssumption ==
    /\ Photo!PhotoAssumption
    /\ Card!CatalogAssumption
    /\ Watch!HubAssumption
    /\ Feeds!PagesAssumption

photoVars ==
    <<upload, images, photo, originals, thumbnails, record, claims, ready, deleted, lock, worker,
      faults>>
cardVars == <<card, replica, cardClaims, told, cardRecord, rounds, handler, cached, flight, cardFaults>>
watchVars == <<applied, notices, subs, stream>>
pageVars == <<feed, rank, cursor, seen, first, moved>>
vars == <<part, photoVars, cardVars, watchVars, pageVars>>

Init ==
    /\ part \in {"photo", "card", "watch", "pages"}
    /\ Photo!Init /\ Card!Init /\ Watch!Init /\ Feeds!Init
    /\ part # "pages" => feed = "catalog"

PhotoNext ==
    /\ part = "photo" /\ Photo!Next
    /\ UNCHANGED <<part, cardVars, watchVars, pageVars>>
CardNext ==
    /\ part = "card" /\ Card!Next
    /\ UNCHANGED <<part, photoVars, watchVars, pageVars>>
WatchNext ==
    /\ part = "watch" /\ Watch!Next
    /\ UNCHANGED <<part, photoVars, cardVars, pageVars>>
PagesNext ==
    /\ part = "pages" /\ Feeds!Next
    /\ UNCHANGED <<part, photoVars, cardVars, watchVars>>
Next == PhotoNext \/ CardNext \/ WatchNext \/ PagesNext

\* The fairness of each part, while it is the one that runs.
Spec ==
    /\ Init /\ [][Next]_vars
    /\ \A w \in Workers :
          /\ WF_Photo!vars(part = "photo" /\ Photo!Process(w))
          /\ WF_Photo!vars(part = "photo" /\ \E p \in Photos : Photo!Take(w, p))
    /\ \A p \in Photos :
          /\ WF_Photo!vars(part = "photo" /\ Photo!Expire(p))
          /\ WF_Card!vars(part = "card" /\ Card!Expire(p))
    /\ \A t \in Card!Topics : WF_Card!vars(part = "card" /\ Card!Serve(t))
    /\ \A i \in Processes : WF_Card!vars(part = "card" /\ (Card!Load(i) \/ Card!Set(i)))
    /\ WF_Card!vars(part = "card" /\ Card!Replicate)
    /\ \A s \in Streams :
          /\ WF_Watch!vars(part = "watch" /\ Watch!Snapshot(s))
          /\ WF_Watch!vars(part = "watch" /\ Watch!Loop(s))

-----------------------------------------------------------------------------
\* The variables of every part have the values its code can give them.
TypeOK == Photo!TypeOK /\ Card!TypeOK /\ Watch!TypeOK /\ Feeds!TypeOK

\* A photo becomes ready once, with all its thumbnails and its original, by however
\* many workers at a time (repository.go:111-132, lock.go:36-46).
ReadyOnce == Photo!ReadyOnce

\* Two workers are at one photo only after a delivery and a lock both went wrong, and
\* none of them takes away the other's lock (lock.go:16-34).
AloneUnlessFaults == Photo!AloneUnlessFaults
OnlyOwnLock == Photo!OnlyOwnLock

\* A card is announced once, in the transaction that publishes it, and an event
\* that was handled has had its effect (indexer.go:40-51).
EachPublishIsTold == Card!EachPublishIsTold

\* A watcher is given every notice since it came, in order, or is cut off
\* (server.go:111-117, watchhub.go:74-97).
NoGaps == Watch!NoGaps /\ Watch!OnlyOpenChannels

\* A walk over the pages shows no card twice and misses none that was there at its
\* start (listing_repository.go:224-228, es/cursor.go:28-37); a search with text, if
\* nothing is indexed meanwhile.
WholeFeed == Feeds!WholeFeed

\* Every event of a photo is handled or dead-lettered, the cache comes to agree with
\* the database, and a watcher that was cut off is told.
AllSettles == Photo!PhotoSettles /\ Card!CardSettles /\ Watch!SlowIsTold
=============================================================================
