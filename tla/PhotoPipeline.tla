--------------------------- MODULE PhotoPipeline ---------------------------
(* services/media (upload, delete) and services/thumbnail-worker with the     *)
(* Redis lock it takes: from the file of an author to                         *)
(* media.photo.thumbnail-ready. A photo has one record in                     *)
(* media.photo.uploaded; S3, Redis and PostgreSQL are external.               *)
EXTENDS Integers, FiniteSets

CONSTANTS
    Photos, NoPhoto, Workers, NoWorker,
    Sizes,      \* THUMBNAIL_SIZES
    MaxFaults   \* bound: failed or unanswered calls, crashes, redeliveries

PhotoAssumption ==
    /\ NoWorker \notin Workers /\ NoPhoto \notin Photos
    /\ MaxFaults \in Nat

VARIABLES
    upload,     \* where the request that uploads a photo is
    images,     \* the photos whose file decodes as an image to its end
    photo,      \* the status in its row of photos
    originals,  \* the photos whose object is in the bucket of originals
    thumbnails, \* the <<photo, size>> in the bucket of thumbnails
    record,     \* what the worker's group has made of the uploaded event
    claims,     \* processed_events: the photos whose uploaded event was applied
    ready,      \* how many thumbnail-ready events are in the outbox
    deleted,    \* how many photo.deleted events are in the outbox
    lock,       \* the holder whose token is in the lock's key
    worker,     \* Process, as each worker runs it
    faults
mediaVars == <<upload, images, originals, deleted>>
workVars == <<thumbnails, record, claims, ready, lock, worker>>
vars == <<mediaVars, photo, workVars, faults>>

Resting == [at |-> "idle", photo |-> NoPhoto, todo |-> {}, watched |-> FALSE,
            stale |-> FALSE, result |-> "none"]
Holding == {"original", "object", "decode", "thumbnails", "ready"}

TypeOK ==
    /\ upload \in [Photos -> {"none", "put", "create", "created", "refused", "failed"}]
    /\ photo \in [Photos -> {"none", "uploaded", "ready", "deleted"}]
    /\ images \subseteq Photos /\ originals \subseteq Photos /\ thumbnails \subseteq Photos \X Sizes
    /\ record \in [Photos -> {"none", "pending", "handled", "dead"}]
    /\ claims \subseteq Photos
    /\ ready \in [Photos -> Nat] /\ deleted \in [Photos -> 0..2]
    /\ lock \in [Photos -> Workers \cup {NoWorker}]
    /\ worker \in [Workers ->
          [at : {"idle", "lock", "unlock", "settle"} \cup Holding, photo : Photos \cup {NoPhoto},
           todo : SUBSET Sizes, watched : BOOLEAN, stale : BOOLEAN,
           result : {"none", "nil", "retryable", "permanent"}]]
    /\ faults \in 0..MaxFaults

Init ==
    /\ upload = [p \in Photos |-> "none"]
    /\ photo = [p \in Photos |-> "none"]
    /\ images = {} /\ originals = {} /\ thumbnails = {} /\ claims = {}
    /\ record = [p \in Photos |-> "none"]
    /\ ready = [p \in Photos |-> 0] /\ deleted = [p \in Photos |-> 0]
    /\ lock = [p \in Photos |-> NoWorker]
    /\ worker = [w \in Workers |-> Resting]
    /\ faults = 0

Fault == faults < MaxFaults /\ faults' = faults + 1
NoFault == UNCHANGED faults

-----------------------------------------------------------------------------
(* media.                                                                     *)

\* The handler's refusals, or a request whose file looks like an image.
Upload(p) ==
    /\ upload[p] = "none"
    /\ \E next \in {"refused", "put"} : upload' = [upload EXCEPT ![p] = next]
    /\ images' \in {images, images \cup {p}}
    /\ UNCHANGED <<originals, deleted, photo, workVars, faults>>

Put(p) ==
    /\ upload[p] = "put"
    /\ \/ /\ upload' = [upload EXCEPT ![p] = "create"]
          /\ originals' = originals \cup {p}
          /\ NoFault
       \/ /\ upload' = [upload EXCEPT ![p] = "failed"]
          /\ originals' \in {originals, originals \cup {p}}
          /\ Fault
    /\ UNCHANGED <<images, deleted, photo, workVars>>

\* The row and the uploaded event in one transaction; a relay publishes the event.
Create(p) ==
    /\ upload[p] = "create"
    /\ \E answer \in {"created", "failed"}, done \in BOOLEAN :
          /\ upload' = [upload EXCEPT ![p] = answer]
          /\ IF answer = "created" THEN done /\ NoFault ELSE Fault
          /\ photo' = [photo EXCEPT ![p] = IF done THEN "uploaded" ELSE @]
          /\ record' = [record EXCEPT ![p] = IF done THEN "pending" ELSE @]
    /\ UNCHANGED <<images, originals, deleted, thumbnails, claims, ready, lock, worker>>

\* The UPDATE finds a row that is not deleted, or there is nothing to tell.
Delete(p) ==
    /\ photo[p] \in {"uploaded", "ready"}
    /\ photo' = [photo EXCEPT ![p] = "deleted"]
    /\ deleted' = [deleted EXCEPT ![p] = @ + 1]
    /\ UNCHANGED <<upload, images, originals, workVars, faults>>

-----------------------------------------------------------------------------
(* thumbnail-worker. What a step leaves alone is said by Works.               *)

Works(w, next) == worker' = [worker EXCEPT ![w] = next] /\ UNCHANGED mediaVars
At(w, place) == [worker[w] EXCEPT !.at = place]
\* An error, or the end of the work: the deferred Unlock comes next.
Ends(w, result) == [worker[w] EXCEPT !.at = "unlock", !.result = result]
Fails(w) == Works(w, Ends(w, "retryable")) /\ Fault

\* The consumer hands the record to the handler. A second worker has it only when
\* the first one's session expired, or its partition went while it was told to stop;
\* what the first then commits counts no more.
Take(w, p) ==
    /\ worker[w].at = "idle" /\ record[p] = "pending"
    /\ LET others == {v \in Workers : worker[v].photo = p} IN
       /\ worker' = [v \in Workers |->
             IF v = w THEN [Resting EXCEPT !.at = "lock", !.photo = p]
             ELSE IF v \in others THEN [worker[v] EXCEPT !.stale = TRUE] ELSE worker[v]]
       /\ IF \A v \in others : worker[v].stale THEN NoFault ELSE Fault
    /\ UNCHANGED <<mediaVars, photo, thumbnails, record, claims, ready, lock>>

\* As if SET did without NX.
FreeAnyway(p) == TRUE

\* SET NX with a token, and the watchdog. A lock that is busy is no error.
Free(p) == lock[p] = NoWorker
AcquirePhotoLock(w) ==
    /\ worker[w].at = "lock"
    /\ LET p == worker[w].photo
           taken == [lock EXCEPT ![p] = w]
       IN  \/ /\ Free(p) /\ lock' = taken
              /\ Works(w, [At(w, "original") EXCEPT !.watched = TRUE]) /\ NoFault
           \/ /\ ~Free(p) /\ UNCHANGED lock
              /\ Works(w, [At(w, "settle") EXCEPT !.result = "nil"]) /\ NoFault
           \/ /\ lock' \in {lock, IF Free(p) THEN taken ELSE lock}
              /\ Works(w, [At(w, "settle") EXCEPT !.result = "retryable"]) /\ Fault
    /\ UNCHANGED <<photo, thumbnails, record, claims, ready>>

\* GetOriginal, storage.Get and Decode: what is missing or broken stays so. A stream
\* that breaks under an image is taken for no image, and for good.
GetOriginal(w) ==
    /\ worker[w].at = "original"
    /\ \/ photo[worker[w].photo] # "none" /\ Works(w, At(w, "object")) /\ NoFault
       \/ photo[worker[w].photo] = "none" /\ Works(w, Ends(w, "permanent")) /\ NoFault
       \/ Fails(w)
    /\ UNCHANGED <<photo, thumbnails, record, claims, ready, lock>>
GetObject(w) ==
    /\ worker[w].at = "object"
    /\ \/ worker[w].photo \in originals /\ Works(w, At(w, "decode")) /\ NoFault
       \/ worker[w].photo \notin originals /\ Works(w, Ends(w, "permanent")) /\ NoFault
       \/ Fails(w)
    /\ UNCHANGED <<photo, thumbnails, record, claims, ready, lock>>
Decode(w) ==
    /\ worker[w].at = "decode"
    /\ \/ /\ worker[w].photo \in images /\ NoFault
          /\ Works(w, [At(w, "thumbnails") EXCEPT !.todo = Sizes])
       \/ worker[w].photo \notin images /\ Works(w, Ends(w, "permanent")) /\ NoFault
       \/ Works(w, Ends(w, "permanent")) /\ Fault
    /\ UNCHANGED <<photo, thumbnails, record, claims, ready, lock>>

\* One goroutine of generateAll; the first error cancels those that have not
\* put theirs yet.
Thumbnail(w) ==
    /\ worker[w].at = "thumbnails"
    /\ \E size \in worker[w].todo :
          LET left == worker[w].todo \ {size} IN
          \/ /\ thumbnails' = thumbnails \cup {<<worker[w].photo, size>>}
             /\ Works(w, [At(w, IF left = {} THEN "ready" ELSE "thumbnails") EXCEPT !.todo = left])
             /\ NoFault
          \/ /\ thumbnails' \in {thumbnails, thumbnails \cup {<<worker[w].photo, size>>}}
             /\ Fails(w)
    /\ UNCHANGED <<photo, record, claims, ready, lock>>

\* As if the claim were not looked at.
AppliedAgain(p) ==
    /\ claims' = claims \cup {p}
    /\ photo' = [photo EXCEPT ![p] = "ready"]
    /\ ready' = [ready EXCEPT ![p] = @ + 1]

\* Claim, UPDATE photos and the outbox row: what the transaction leaves.
Applied(p) ==
    IF p \in claims THEN UNCHANGED <<claims, photo, ready>>
    ELSE /\ claims' = claims \cup {p}
         /\ photo' = [photo EXCEPT ![p] = "ready"]
         /\ ready' = [ready EXCEPT ![p] = @ + 1]
CommitReady(w) ==
    /\ worker[w].at = "ready"
    /\ \/ Applied(worker[w].photo) /\ Works(w, Ends(w, "nil")) /\ NoFault
       \/ Applied(worker[w].photo) /\ Fails(w)
       \/ UNCHANGED <<claims, photo, ready>> /\ Fails(w)
    /\ UNCHANGED <<thumbnails, record, lock>>

\* The script deletes the key only while it has our token.
Released(w) == IF lock[worker[w].photo] = w
               THEN [lock EXCEPT ![worker[w].photo] = NoWorker] ELSE lock
Unlock(w) ==
    /\ worker[w].at = "unlock"
    /\ Works(w, [At(w, "settle") EXCEPT !.watched = FALSE])
    /\ \/ lock' = Released(w) /\ NoFault
       \/ lock' \in {lock, Released(w)} /\ Fault
    /\ UNCHANGED <<photo, thumbnails, record, claims, ready>>

\* classify, and what the consumer makes of it: commit, DLQ, or retry rounds
\* that may be used up.
Settle(w) ==
    /\ worker[w].at = "settle"
    /\ LET p == worker[w].photo
           outcome == CASE worker[w].stale -> {record[p]}
                        [] worker[w].result = "nil" -> {"handled"}
                        [] worker[w].result = "permanent" -> {"dead"}
                        [] OTHER -> {"pending", "dead"}
       IN  record' \in {[record EXCEPT ![p] = o] : o \in outcome}
    /\ Works(w, Resting)
    /\ UNCHANGED <<photo, thumbnails, claims, ready, lock, faults>>

\* The watchdog keeps the key alive until an extension fails.
WatchdogGivesUp(w) ==
    /\ worker[w].watched /\ Fault
    /\ Works(w, [worker[w] EXCEPT !.watched = FALSE])
    /\ UNCHANGED <<photo, thumbnails, record, claims, ready, lock>>
Watched(p) == worker[lock[p]].watched /\ worker[lock[p]].photo = p
Expire(p) ==
    /\ lock[p] # NoWorker /\ ~Watched(p)
    /\ lock' = [lock EXCEPT ![p] = NoWorker]
    /\ UNCHANGED <<mediaVars, photo, thumbnails, record, claims, ready, worker, faults>>

\* A pause of the process, or of its network, that outlasts the TTL: the holder works
\* on, and its watchdog too, for which an extension that answers 0 is no error.
Outlasted(p) ==
    /\ lock[p] # NoWorker /\ Watched(p) /\ Fault
    /\ lock' = [lock EXCEPT ![p] = NoWorker]
    /\ UNCHANGED <<mediaVars, photo, thumbnails, record, claims, ready, worker>>

\* A killed process; or one told to stop, whose context is cancelled for the work
\* and for Unlock alike, and whose record is not committed either.
Crash(w) ==
    /\ worker[w].at # "idle" /\ Fault
    /\ Works(w, Resting)
    /\ UNCHANGED <<photo, thumbnails, record, claims, ready, lock>>

\* The outbox and the consumer deliver at least once.
Redeliver(p) ==
    /\ record[p] \in {"handled", "dead"} /\ Fault
    /\ record' = [record EXCEPT ![p] = "pending"]
    /\ UNCHANGED <<mediaVars, photo, thumbnails, claims, ready, lock, worker>>

Process(w) ==
    \/ AcquirePhotoLock(w) \/ GetOriginal(w) \/ GetObject(w) \/ Decode(w)
    \/ Thumbnail(w) \/ CommitReady(w) \/ Unlock(w) \/ Settle(w)
Next ==
    \/ \E p \in Photos :
          \/ Upload(p) \/ Put(p) \/ Create(p) \/ Delete(p) \/ Expire(p) \/ Outlasted(p)
          \/ Redeliver(p)
          \/ \E w \in Workers : Take(w, p)
    \/ \E w \in Workers : Process(w) \/ WatchdogGivesUp(w) \/ Crash(w)

Spec == Init /\ [][Next]_vars
FairSpec ==
    /\ Spec
    /\ \A w \in Workers : WF_vars(Process(w)) /\ WF_vars(\E p \in Photos : Take(w, p))
    /\ \A p \in Photos : WF_vars(Expire(p))

-----------------------------------------------------------------------------
\* A photo becomes ready once, however often its event is handled, in parallel or
\* again (repository.go:111-132), and then it has a thumbnail of every size made
\* from an original that is there (service.go:72-88 of media).
ReadyOnce ==
    \A p \in Photos :
        /\ ready[p] <= 1
        /\ ready[p] > 0 => p \in originals /\ {p} \X Sizes \subseteq thumbnails
        /\ photo[p] # "none" => p \in originals

\* Two workers are at one photo only after two things went wrong: a session or a
\* delivery, and a lock that did not last. One alone does not do it (lock.go:16-46).
AloneUnlessFaults ==
    \A v, w \in Workers :
        v # w /\ {worker[v].at, worker[w].at} \subseteq Holding /\ worker[v].photo = worker[w].photo
            => faults >= 2

\* Nobody takes away the lock of another, not even who still believes to be its
\* holder: it is released in a step of its holder, or expires (lock.go:32-34).
OnlyOwnLock ==
    [][\A p \in Photos :
          lock[p] # NoWorker /\ lock'[p] # lock[p] =>
              worker' = worker \/ worker'[lock[p]] # worker[lock[p]]]_vars

\* Every uploaded event comes to an end, lock or no lock.
PhotoSettles == \A p \in Photos : record[p] = "pending" ~> record[p] \in {"handled", "dead"}

\* The comment of Process (service.go:100-104): who finds the lock busy may skip
\* the work, someone else does it already.
HandledIsDone ==
    \A p \in Photos : record[p] = "handled" =>
        p \in claims \/ \E w \in Workers : worker[w].photo = p /\ worker[w].at \in Holding
=============================================================================
