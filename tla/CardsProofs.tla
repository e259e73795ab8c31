------------------------------ MODULE CardsProofs ------------------------------
(* Proofs of what the way of a photo to its readers promises, for every number  *)
(* of photos, workers, sizes, processes, streams, cards, ranks and faults. Each  *)
(* part has an inductive invariant of its own; the last section puts the parts   *)
(* together.                                                                     *)
EXTENDS Cards, FiniteSetTheorems, SequenceTheorems, TLAPS

Count(b) == IF b THEN 1 ELSE 0

-----------------------------------------------------------------------------
(* The photos and the thumbnail workers.                                      *)

WorkerStates ==
    [at : {"idle", "lock", "unlock", "settle"} \cup Photo!Holding, photo : Photos \cup {NoPhoto},
     todo : SUBSET Sizes, watched : BOOLEAN, stale : BOOLEAN,
     result : {"none", "nil", "retryable", "permanent"}]

\* The photos that have a row.
Known == {p \in Photos : photo[p] # "none"}

\* What a worker w in the state x knows, given the rows and thumbnails.
Knows(w, x, rows, made) ==
    /\ x.at # "idle" => x.photo \in Photos
    /\ x.watched => x.at \in {"unlock"} \cup Photo!Holding
    /\ x.at \in {"object", "decode", "thumbnails", "ready"} => x.photo \in rows
    /\ x.at = "thumbnails" => {x.photo} \X (Sizes \ x.todo) \subseteq made
    /\ x.at = "ready" => {x.photo} \X Sizes \subseteq made

\* What the tables and buckets say of one photo. A photo is deleted at most once
\* before it is made ready, and once after.
PhotoIsTrue(p) ==
    /\ upload[p] \in {"none", "put", "create", "refused"} => photo[p] = "none"
    /\ upload[p] = "create" => p \in originals
    /\ IF photo[p] = "none" THEN deleted[p] = 0 ELSE p \in originals
    /\ p \in claims => p \in originals /\ {p} \X Sizes \subseteq thumbnails
    /\ ready[p] = Count(p \in claims)
    /\ deleted[p] + Count(photo[p] \in {"uploaded", "ready"}) + Count(p \notin claims) <= 2

PhotoTables ==
    /\ upload \in [Photos -> {"none", "put", "create", "created", "refused", "failed"}]
    /\ images \subseteq Photos
    /\ photo \in [Photos -> {"none", "uploaded", "ready", "deleted"}]
    /\ originals \subseteq Photos
    /\ claims \subseteq Photos
    /\ ready \in [Photos -> Nat]
    /\ deleted \in [Photos -> 0..2]
    /\ thumbnails \subseteq Photos \X Sizes
    /\ \A p \in Photos : PhotoIsTrue(p)

PhotoInv ==
    /\ PhotoTables
    /\ record \in [Photos -> {"none", "pending", "handled", "dead"}]
    /\ lock \in [Photos -> Workers \cup {NoWorker}]
    /\ worker \in [Workers -> WorkerStates]
    /\ faults \in 0..MaxFaults
    /\ \A w \in Workers : Knows(w, worker[w], Known, thumbnails)

\* Whether a worker goes on with a record that another was given, and whether one
\* works without the lock it took. Each costs a fault, and no two workers that are at
\* one photo are both to be believed.
Stale == \E w \in Workers : worker[w].stale
Secure(w, x, locks) == x.at \in Photo!Holding => x.watched /\ locks[x.photo] = w
Insecure == \E w \in Workers : ~Secure(w, worker[w], lock)
OneIsStale ==
    \A v, w \in Workers :
        v # w /\ worker[v].at # "idle" /\ worker[w].at # "idle" /\ worker[v].photo = worker[w].photo
            => worker[v].stale \/ worker[w].stale
LockInv == OneIsStale /\ Count(Stale) + Count(Insecure) <= faults

\* What a worker knows stays true while rows and thumbnails only come.
LEMMA KnowsOn ==
    ASSUME NEW w, NEW x \in WorkerStates, NEW rows, NEW rowsAfter,
           NEW made, NEW madeAfter, Knows(w, x, rows, made),
           rows \subseteq rowsAfter, made \subseteq madeAfter
    PROVE  Knows(w, x, rowsAfter, madeAfter)
    BY DEF Knows

\* A worker's step that makes thumbnails at most leaves what the tables say true.
LEMMA TablesOn ==
    ASSUME PhotoTables, UNCHANGED Photo!mediaVars, UNCHANGED <<photo, claims, ready>>,
           thumbnails \subseteq thumbnails', thumbnails' \subseteq Photos \X Sizes
    PROVE  PhotoTables'
<1>1. UNCHANGED <<upload, images, originals, deleted, photo, claims, ready>>
    BY DEF Photo!mediaVars
<1>2. \A p \in Photos : PhotoIsTrue(p)'
    BY <1>1 DEF PhotoTables, PhotoIsTrue, Count
<1> QED
    BY <1>1, <1>2 DEF PhotoTables

\* A step of one worker: it is known what it is, and the others go on.
LEMMA WorkerMoves ==
    ASSUME PhotoInv, PhotoTables', NEW w \in Workers, NEW x \in WorkerStates,
           Photo!Works(w, x), Knows(w, x, Known, thumbnails'),
           thumbnails \subseteq thumbnails', Known \subseteq Known',
           lock' \in [Photos -> Workers \cup {NoWorker}],
           record' \in [Photos -> {"none", "pending", "handled", "dead"}],
           faults' \in 0..MaxFaults
    PROVE  PhotoInv'
<1>1. /\ worker \in [Workers -> WorkerStates]
      /\ \A v \in Workers : Knows(v, worker[v], Known, thumbnails)
    BY DEF PhotoInv
<1>2. worker' = [worker EXCEPT ![w] = x]
    BY DEF Photo!Works
<1>3. \A v \in Workers : Knows(v, worker'[v], Known', thumbnails')
  <2> TAKE v \in Workers
  <2>1. CASE v = w
    <3>1. Knows(w, x, Known', thumbnails')
        BY KnowsOn
    <3> QED
        BY <1>1, <1>2, <2>1, <3>1
  <2>2. CASE v # w
    <3>1. worker'[v] = worker[v] /\ worker[v] \in WorkerStates
        BY <1>1, <1>2, <2>2
    <3> QED
        BY <1>1, <1>2, <2>2, <3>1, KnowsOn
  <2> QED
      BY <2>1, <2>2
<1> QED
    BY <1>1, <1>2, <1>3 DEF PhotoInv

\* A worker goes on, or ends what it does, with nothing but itself changed.
LEMMA AtOrEnds ==
    ASSUME PhotoInv, NEW w \in Workers, worker[w].at \in Photo!Holding,
           NEW result \in {"nil", "retryable", "permanent"}
    PROVE  /\ Photo!Ends(w, result) \in WorkerStates
           /\ \A made : Knows(w, Photo!Ends(w, result), Known, made)
<1>1. worker[w] \in WorkerStates /\ Knows(w, worker[w], Known, thumbnails)
    BY DEF PhotoInv
<1>2. /\ Photo!Ends(w, result) \in WorkerStates /\ Photo!Ends(w, result).at = "unlock"
      /\ Photo!Ends(w, result).photo = worker[w].photo
      /\ Photo!Ends(w, result).watched = worker[w].watched
    BY <1>1 DEF Photo!Ends, WorkerStates
<1>3. worker[w].at # "idle"
    BY DEF Photo!Holding
<1> QED
    BY <1>1, <1>2, <1>3 DEF Knows

\* A worker ends what it does: it comes to its Unlock with a result.
LEMMA WorkerEnds ==
    ASSUME PhotoInv, PhotoTables', NEW w \in Workers, worker[w].at \in Photo!Holding,
           NEW result \in {"nil", "retryable", "permanent"},
           Photo!Works(w, Photo!Ends(w, result)),
           thumbnails \subseteq thumbnails', Known \subseteq Known',
           UNCHANGED <<lock, record>>, Photo!Fault \/ Photo!NoFault
    PROVE  PhotoInv'
<1>1. faults' \in 0..MaxFaults
    BY CardsAssumption DEF PhotoInv, Photo!Fault, Photo!NoFault, Photo!PhotoAssumption
<1>2. /\ lock \in [Photos -> Workers \cup {NoWorker}]
      /\ record \in [Photos -> {"none", "pending", "handled", "dead"}]
    BY DEF PhotoInv
<1> QED
    BY <1>1, <1>2, AtOrEnds, WorkerMoves

\* A worker goes on to another place of its work.
LEMMA WorkerGoesOn ==
    ASSUME PhotoInv, PhotoTables', NEW w \in Workers, worker[w].at \in Photo!Holding,
           NEW x \in WorkerStates, Photo!Works(w, x), x.at \in Photo!Holding,
           x.photo = worker[w].photo, x.watched = worker[w].watched,
           x.at \in {"object", "decode", "thumbnails", "ready"} => x.photo \in Known,
           x.at = "thumbnails" => {x.photo} \X (Sizes \ x.todo) \subseteq thumbnails',
           x.at = "ready" => {x.photo} \X Sizes \subseteq thumbnails',
           thumbnails \subseteq thumbnails', UNCHANGED <<photo, lock, record, faults>>
    PROVE  PhotoInv'
<1>1. /\ lock \in [Photos -> Workers \cup {NoWorker}] /\ faults \in 0..MaxFaults
      /\ record \in [Photos -> {"none", "pending", "handled", "dead"}]
      /\ Knows(w, worker[w], Known, thumbnails)
    BY DEF PhotoInv
<1>2. worker[w].at # "idle"
    BY DEF Photo!Holding
<1>3. Knows(w, x, Known, thumbnails') /\ Known' = Known
    BY <1>1, <1>2 DEF Knows, Known
<1> QED
    BY <1>1, <1>3, WorkerMoves

-----------------------------------------------------------------------------
(* media: the steps that no worker takes.                                     *)

\* What media does to the tables: no worker is disturbed by it.
LEMMA MediaMoves ==
    ASSUME PhotoInv, PhotoTables', UNCHANGED <<thumbnails, lock, worker>>,
           Known \subseteq Known',
           record' \in [Photos -> {"none", "pending", "handled", "dead"}],
           Photo!Fault \/ Photo!NoFault
    PROVE  PhotoInv'
<1>1. /\ worker \in [Workers -> WorkerStates] /\ lock \in [Photos -> Workers \cup {NoWorker}]
      /\ \A v \in Workers : Knows(v, worker[v], Known, thumbnails)
    BY DEF PhotoInv
<1>2. faults' \in 0..MaxFaults
    BY CardsAssumption DEF PhotoInv, Photo!Fault, Photo!NoFault, Photo!PhotoAssumption
<1>3. \A v \in Workers : Knows(v, worker[v], Known', thumbnails)
    BY <1>1, KnowsOn
<1> QED
    BY <1>1, <1>2, <1>3 DEF PhotoInv

\* An upload that begins leaves the invariant true.
LEMMA UploadKeeps ==
    ASSUME PhotoInv, NEW p \in Photos, Photo!Upload(p)
    PROVE  PhotoInv'
<1>1. PICK next \in {"refused", "put"} : upload' = [upload EXCEPT ![p] = next]
    BY DEF Photo!Upload
<1>2. /\ upload[p] = "none" /\ images' \in {images, images \cup {p}}
      /\ UNCHANGED <<originals, deleted, photo, thumbnails, record, claims, ready, lock, worker, faults>>
    BY DEF Photo!Upload, Photo!workVars
<1>3. /\ upload' \in [Photos -> {"none", "put", "create", "created", "refused", "failed"}]
      /\ \A q \in Photos : upload'[q] # "create" \/ upload[q] = "create"
      /\ \A q \in Photos : upload'[q] = upload[q] \/ upload[q] = "none"
    BY <1>1, <1>2 DEF PhotoInv, PhotoTables
<1>4. \A q \in Photos : PhotoIsTrue(q)'
    BY <1>2, <1>3 DEF PhotoInv, PhotoTables, PhotoIsTrue, Count
<1>5. PhotoTables'
    BY <1>2, <1>3, <1>4 DEF PhotoInv, PhotoTables
<1> QED
    BY <1>2, <1>5, MediaMoves DEF PhotoInv, Photo!NoFault, Known

\* PutOriginal, or the refusal of the file, leaves the invariant true.
LEMMA PutKeeps ==
    ASSUME PhotoInv, NEW p \in Photos, Photo!Put(p)
    PROVE  PhotoInv'
<1>1. /\ upload[p] = "put"
      /\ UNCHANGED <<images, deleted, photo, thumbnails, record, claims, ready, lock, worker>>
    BY DEF Photo!Put, Photo!workVars
<1>2. /\ \/ upload' = [upload EXCEPT ![p] = "create"] /\ originals' = originals \cup {p}
         \/ upload' = [upload EXCEPT ![p] = "failed"]
      /\ originals' \in {originals, originals \cup {p}}
      /\ Photo!Fault \/ Photo!NoFault
    BY DEF Photo!Put
<1>3. /\ upload' \in [Photos -> {"none", "put", "create", "created", "refused", "failed"}]
      /\ originals' \subseteq Photos /\ originals \subseteq originals'
      /\ \A q \in Photos : upload'[q] = "create" => upload[q] = "create" \/ q \in originals'
      /\ \A q \in Photos : upload'[q] = upload[q] \/ upload[q] = "put"
    BY <1>1, <1>2 DEF PhotoInv, PhotoTables
<1>4. \A q \in Photos : PhotoIsTrue(q)'
    BY <1>1, <1>3 DEF PhotoInv, PhotoTables, PhotoIsTrue, Count
<1>5. PhotoTables'
    BY <1>1, <1>3, <1>4 DEF PhotoInv, PhotoTables
<1> QED
    BY <1>1, <1>2, <1>3, <1>5, MediaMoves DEF PhotoInv, Known

\* Create, the photo's row, leaves the invariant true.
LEMMA CreateKeeps ==
    ASSUME PhotoInv, NEW p \in Photos, Photo!Create(p)
    PROVE  PhotoInv'
<1>1. PICK answer \in {"created", "failed"}, done \in BOOLEAN :
          /\ upload' = [upload EXCEPT ![p] = answer]
          /\ IF answer = "created" THEN done /\ Photo!NoFault ELSE Photo!Fault
          /\ photo' = [photo EXCEPT ![p] = IF done THEN "uploaded" ELSE @]
          /\ record' = [record EXCEPT ![p] = IF done THEN "pending" ELSE @]
    BY DEF Photo!Create
<1>2. /\ upload[p] = "create"
      /\ UNCHANGED <<images, originals, deleted, thumbnails, claims, ready, lock, worker>>
    BY DEF Photo!Create
<1>3. photo[p] = "none" /\ p \in originals
    BY <1>2 DEF PhotoInv, PhotoTables, PhotoIsTrue
<1>4. /\ upload' \in [Photos -> {"none", "put", "create", "created", "refused", "failed"}]
      /\ \A q \in Photos \ {p} : upload'[q] = upload[q]
      /\ upload'[p] \in {"created", "failed"}
    BY <1>1 DEF PhotoInv, PhotoTables
<1>5. /\ photo' \in [Photos -> {"none", "uploaded", "ready", "deleted"}]
      /\ \A q \in Photos \ {p} : photo'[q] = photo[q]
      /\ photo'[p] \in {"none", "uploaded"}
    BY <1>1, <1>3 DEF PhotoInv, PhotoTables
<1>6. record' \in [Photos -> {"none", "pending", "handled", "dead"}]
    BY <1>1 DEF PhotoInv
<1>7. PhotoIsTrue(p)'
  <2>1. deleted[p] = 0 /\ Count(p \notin claims) \in {0, 1} /\ PhotoIsTrue(p)
      BY <1>3 DEF PhotoInv, PhotoTables, PhotoIsTrue, Count
  <2>2. deleted[p] + Count(photo'[p] \in {"uploaded", "ready"}) + Count(p \notin claims) <= 2
      BY <2>1 DEF Count
  <2> QED
      BY <1>2, <1>3, <1>4, <1>5, <2>1, <2>2 DEF PhotoIsTrue
<1>8. \A q \in Photos \ {p} : PhotoIsTrue(q)'
    BY <1>2, <1>4, <1>5 DEF PhotoInv, PhotoTables, PhotoIsTrue, Count
<1>9. PhotoTables'
    BY <1>2, <1>4, <1>5, <1>7, <1>8 DEF PhotoInv, PhotoTables
<1>10. Known \subseteq Known'
    BY <1>3, <1>5 DEF Known
<1> QED
    BY <1>1, <1>2, <1>6, <1>9, <1>10, MediaMoves

\* A delete, of a photo that was made ready meanwhile too, leaves the invariant true.
LEMMA DeleteKeeps ==
    ASSUME PhotoInv, NEW p \in Photos, Photo!Delete(p)
    PROVE  PhotoInv'
<1>1. /\ photo[p] \in {"uploaded", "ready"} /\ photo' = [photo EXCEPT ![p] = "deleted"]
      /\ deleted' = [deleted EXCEPT ![p] = @ + 1]
      /\ UNCHANGED <<upload, images, originals, thumbnails, record, claims, ready, lock, worker, faults>>
    BY DEF Photo!Delete, Photo!workVars
<1>2. PhotoIsTrue(p) /\ deleted[p] \in 0..2
    BY DEF PhotoInv, PhotoTables
<1>3. deleted[p] + 1 + Count(p \notin claims) <= 2 /\ Count(p \notin claims) \in {0, 1}
    BY <1>1, <1>2 DEF PhotoIsTrue, Count
<1>4. /\ deleted' \in [Photos -> 0..2] /\ deleted'[p] = deleted[p] + 1
      /\ photo' \in [Photos -> {"none", "uploaded", "ready", "deleted"}] /\ photo'[p] = "deleted"
      /\ \A q \in Photos \ {p} : photo'[q] = photo[q] /\ deleted'[q] = deleted[q]
    BY <1>1, <1>2, <1>3 DEF PhotoInv, PhotoTables
<1>5. PhotoIsTrue(p)'
    BY <1>1, <1>2, <1>3, <1>4 DEF PhotoIsTrue, Count
<1>6. \A q \in Photos \ {p} : PhotoIsTrue(q)'
    BY <1>1, <1>4 DEF PhotoInv, PhotoTables, PhotoIsTrue, Count
<1>7. PhotoTables'
    BY <1>1, <1>4, <1>5, <1>6 DEF PhotoInv, PhotoTables
<1>8. Known \subseteq Known'
    BY <1>4 DEF Known
<1> QED
    BY <1>1, <1>7, <1>8, MediaMoves DEF PhotoInv, Photo!NoFault

\* An event that is delivered again leaves the invariant true.
LEMMA RedeliverKeeps ==
    ASSUME PhotoInv, NEW p \in Photos, Photo!Redeliver(p)
    PROVE  PhotoInv'
<1>1. /\ Photo!Fault /\ record' = [record EXCEPT ![p] = "pending"]
      /\ UNCHANGED Photo!mediaVars /\ UNCHANGED <<photo, thumbnails, claims, ready, lock, worker>>
    BY DEF Photo!Redeliver
<1>2. record' \in [Photos -> {"none", "pending", "handled", "dead"}]
    BY <1>1 DEF PhotoInv
<1>3. PhotoTables'
    BY <1>1, TablesOn DEF PhotoInv, PhotoTables
<1> QED
    BY <1>1, <1>2, <1>3, MediaMoves DEF Known

\* A lock whose time is up changes nothing that a worker knows.
LEMMA ExpireKeeps ==
    ASSUME PhotoInv, NEW p \in Photos, Photo!Expire(p) \/ Photo!Outlasted(p)
    PROVE  PhotoInv'
<1>1. /\ lock' = [lock EXCEPT ![p] = NoWorker]
      /\ UNCHANGED Photo!mediaVars
      /\ UNCHANGED <<photo, thumbnails, record, claims, ready, worker>>
      /\ Photo!Fault \/ Photo!NoFault
    BY DEF Photo!Expire, Photo!Outlasted, Photo!NoFault
<1>2. PhotoTables' /\ Known' = Known
    BY <1>1, TablesOn DEF PhotoInv, PhotoTables, Known
<1>3. lock' \in [Photos -> Workers \cup {NoWorker}]
    BY <1>1 DEF PhotoInv
<1>4. faults' \in 0..MaxFaults
    BY <1>1, CardsAssumption DEF PhotoInv, Photo!Fault, Photo!NoFault, Photo!PhotoAssumption
<1> QED
    BY <1>1, <1>2, <1>3, <1>4 DEF PhotoInv

-----------------------------------------------------------------------------
(* thumbnail-worker.                                                          *)

\* Who had the record before is stale now, and the new one has nothing yet.
LEMMA TakeKeeps ==
    ASSUME PhotoInv, NEW w \in Workers, NEW p \in Photos, Photo!Take(w, p)
    PROVE  PhotoInv'
<1>1. /\ worker' = [v \in Workers |->
             IF v = w THEN [Photo!Resting EXCEPT !.at = "lock", !.photo = p]
             ELSE IF worker[v].photo = p THEN [worker[v] EXCEPT !.stale = TRUE] ELSE worker[v]]
      /\ UNCHANGED Photo!mediaVars
      /\ UNCHANGED <<photo, thumbnails, record, claims, ready, lock>>
      /\ Photo!Fault \/ Photo!NoFault
    BY DEF Photo!Take
<1>2. PhotoTables' /\ Known' = Known
    BY <1>1, TablesOn DEF PhotoInv, PhotoTables, Known
<1>3. faults' \in 0..MaxFaults
    BY <1>1, CardsAssumption DEF PhotoInv, Photo!Fault, Photo!NoFault, Photo!PhotoAssumption
<1>4. ASSUME NEW v \in Workers
      PROVE  worker'[v] \in WorkerStates /\ Knows(v, worker'[v], Known, thumbnails)
  <2>1. worker[v] \in WorkerStates /\ Knows(v, worker[v], Known, thumbnails)
      BY DEF PhotoInv
  <2>2. CASE v = w
    <3>1. worker'[v] = [Photo!Resting EXCEPT !.at = "lock", !.photo = p]
        BY <1>1, <2>2
    <3> QED
        BY <3>1 DEF Photo!Resting, WorkerStates, Knows
  <2>3. CASE v # w /\ worker'[v] = worker[v]
      BY <2>1, <2>3
  <2>4. CASE v # w /\ worker'[v] = [worker[v] EXCEPT !.stale = TRUE]
      BY <2>1, <2>4 DEF WorkerStates, Knows
  <2> QED
      BY <1>1, <2>2, <2>3, <2>4
<1>5. worker' \in [Workers -> WorkerStates]
    BY <1>1, <1>4
<1> QED
    BY <1>1, <1>2, <1>3, <1>4, <1>5 DEF PhotoInv

\* Only a lock that nobody holds is taken.
LEMMA AcquireKeeps ==
    ASSUME PhotoInv, NEW w \in Workers, Photo!AcquirePhotoLock(w)
    PROVE  PhotoInv'
<1> DEFINE p == worker[w].photo
           taken == [lock EXCEPT ![p] = w]
           held == [Photo!At(w, "original") EXCEPT !.watched = TRUE]
<1>1. /\ worker[w] \in WorkerStates /\ worker[w].at = "lock"
      /\ Knows(w, worker[w], Known, thumbnails)
      /\ lock \in [Photos -> Workers \cup {NoWorker}]
      /\ record \in [Photos -> {"none", "pending", "handled", "dead"}]
      /\ faults \in 0..MaxFaults
    BY DEF PhotoInv, Photo!AcquirePhotoLock
<1>2. p \in Photos /\ ~worker[w].watched
    BY <1>1 DEF Knows, Photo!Holding
<1>3. /\ UNCHANGED <<photo, thumbnails, record, claims, ready>> /\ UNCHANGED Photo!mediaVars
      /\ Photo!Fault \/ Photo!NoFault
      /\ \/ lock[p] = NoWorker /\ lock' = taken /\ Photo!Works(w, held)
         \/ /\ lock' = lock \/ (lock[p] = NoWorker /\ lock' = taken)
            /\ \E result \in {"nil", "retryable"} :
                  Photo!Works(w, [Photo!At(w, "settle") EXCEPT !.result = result])
    BY DEF Photo!AcquirePhotoLock, Photo!Free, Photo!Works
<1>4. PhotoTables' /\ faults' \in 0..MaxFaults /\ Known' = Known
  <2>1. PhotoTables'
      BY <1>3, TablesOn DEF PhotoInv, PhotoTables
  <2> QED
      BY <1>3, <2>1, CardsAssumption
      DEF PhotoInv, Photo!Fault, Photo!NoFault, Photo!PhotoAssumption, Known
<1>5. lock' \in [Photos -> Workers \cup {NoWorker}]
    BY <1>1, <1>2, <1>3
<1>6. CASE lock[p] = NoWorker /\ lock' = taken /\ Photo!Works(w, held)
  <2>1. /\ held \in WorkerStates /\ held.at = "original" /\ held.photo = p
      BY <1>1 DEF Photo!At, WorkerStates, Photo!Holding
  <2>3. Knows(w, held, Known, thumbnails')
      BY <1>2, <2>1 DEF Knows, Photo!Holding
  <2> HIDE DEF held, taken
  <2> QED
      BY <1>1, <1>3, <1>4, <1>5, <1>6, <2>1, <2>3, WorkerMoves
<1>7. ASSUME NEW result \in {"nil", "retryable"},
             Photo!Works(w, [Photo!At(w, "settle") EXCEPT !.result = result])
      PROVE  PhotoInv'
  <2> DEFINE x == [Photo!At(w, "settle") EXCEPT !.result = result]
  <2>1. x \in WorkerStates /\ x.at = "settle" /\ x.photo = p /\ ~x.watched
      BY <1>1, <1>2 DEF Photo!At, WorkerStates
  <2> HIDE DEF x
  <2>2. Knows(w, x, Known, thumbnails')
      BY <1>2, <2>1 DEF Knows
  <2>3. Photo!Works(w, x)
      BY <1>7 DEF x
  <2> QED
      BY <1>1, <1>3, <1>4, <1>5, <2>1, <2>2, <2>3, WorkerMoves
<1> QED
    BY <1>3, <1>6, <1>7

\* The reads of the row and of the object, and what a call that fails does.
LEMMA ReadKeeps ==
    ASSUME PhotoInv, NEW w \in Workers,
           Photo!GetOriginal(w) \/ Photo!GetObject(w) \/ Photo!Decode(w)
    PROVE  PhotoInv'
<1>1. /\ UNCHANGED <<photo, thumbnails, record, claims, ready, lock>>
      /\ worker[w].at \in {"original", "object", "decode"}
    BY DEF Photo!GetOriginal, Photo!GetObject, Photo!Decode
<1>2. /\ worker[w] \in WorkerStates /\ Knows(w, worker[w], Known, thumbnails)
      /\ worker[w].at \in Photo!Holding
    BY <1>1 DEF PhotoInv, Photo!Holding
<1>3. ASSUME UNCHANGED Photo!mediaVars
      PROVE  PhotoTables' /\ Known' = Known
    BY <1>1, <1>3, TablesOn DEF PhotoInv, PhotoTables, Known
<1>4. ASSUME NEW result \in {"retryable", "permanent"}, Photo!Fault \/ Photo!NoFault,
             Photo!Works(w, Photo!Ends(w, result))
      PROVE  PhotoInv'
    BY <1>1, <1>2, <1>3, <1>4, WorkerEnds DEF Photo!Works
<1>5. ASSUME photo[worker[w].photo] # "none", Photo!NoFault,
             Photo!Works(w, Photo!At(w, "object"))
      PROVE  PhotoInv'
  <2>1. /\ Photo!At(w, "object") \in WorkerStates /\ Photo!At(w, "object").at = "object"
        /\ Photo!At(w, "object").photo = worker[w].photo
        /\ Photo!At(w, "object").watched = worker[w].watched
      BY <1>2 DEF Photo!At, WorkerStates, Photo!Holding
  <2>2. worker[w].photo \in Known
      BY <1>1, <1>2, <1>5 DEF Knows, Known
  <2> QED
      BY <1>1, <1>2, <1>3, <1>5, <2>1, <2>2, WorkerGoesOn DEF Photo!Works, Photo!Holding, Photo!NoFault
<1>6. ASSUME worker[w].at = "object", Photo!NoFault, Photo!Works(w, Photo!At(w, "decode"))
      PROVE  PhotoInv'
  <2>1. /\ Photo!At(w, "decode") \in WorkerStates /\ Photo!At(w, "decode").at = "decode"
        /\ Photo!At(w, "decode").photo = worker[w].photo
        /\ Photo!At(w, "decode").watched = worker[w].watched
      BY <1>2 DEF Photo!At, WorkerStates, Photo!Holding
  <2>2. worker[w].photo \in Known
      BY <1>2, <1>6 DEF Knows
  <2> QED
      BY <1>1, <1>2, <1>3, <1>6, <2>1, <2>2, WorkerGoesOn DEF Photo!Works, Photo!Holding, Photo!NoFault
<1>7. ASSUME worker[w].at = "decode", faults' = faults,
             Photo!Works(w, [Photo!At(w, "thumbnails") EXCEPT !.todo = Sizes])
      PROVE  PhotoInv'
  <2> DEFINE x == [Photo!At(w, "thumbnails") EXCEPT !.todo = Sizes]
  <2>1. /\ x \in WorkerStates /\ x.at = "thumbnails" /\ x.todo = Sizes
        /\ x.photo = worker[w].photo /\ x.watched = worker[w].watched
      BY <1>2 DEF Photo!At, WorkerStates, Photo!Holding
  <2> HIDE DEF x
  <2>2. /\ x.photo \in Known /\ {x.photo} \X (Sizes \ x.todo) \subseteq thumbnails
        /\ x.at \in Photo!Holding /\ Photo!Works(w, x)
      BY <1>2, <1>7, <2>1 DEF x, Knows, Photo!Holding
  <2> QED
      BY <1>1, <1>2, <1>3, <1>7, <2>1, <2>2, WorkerGoesOn DEF Photo!Works
<1>8. CASE Photo!GetOriginal(w)
    BY <1>4, <1>5, <1>8 DEF Photo!GetOriginal, Photo!Fails
<1>9. CASE Photo!GetObject(w)
    BY <1>4, <1>6, <1>9 DEF Photo!GetObject, Photo!Fails
<1>10. CASE Photo!Decode(w)
    BY <1>4, <1>7, <1>10 DEF Photo!Decode, Photo!NoFault
<1> QED
    BY <1>8, <1>9, <1>10

\* A thumbnail is put, and there is no more to do when it was the last size.
LEMMA ThumbnailKeeps ==
    ASSUME PhotoInv, NEW w \in Workers, Photo!Thumbnail(w)
    PROVE  PhotoInv'
<1>1. PICK size \in worker[w].todo :
          \/ /\ thumbnails' = thumbnails \cup {<<worker[w].photo, size>>}
             /\ Photo!Works(w, [Photo!At(w, IF worker[w].todo \ {size} = {} THEN "ready" ELSE "thumbnails")
                                    EXCEPT !.todo = worker[w].todo \ {size}])
             /\ Photo!NoFault
          \/ /\ thumbnails' \in {thumbnails, thumbnails \cup {<<worker[w].photo, size>>}}
             /\ Photo!Fails(w)
    BY DEF Photo!Thumbnail
<1>2. /\ worker[w].at = "thumbnails" /\ UNCHANGED <<photo, record, claims, ready, lock>>
      /\ worker[w] \in WorkerStates /\ Knows(w, worker[w], Known, thumbnails)
      /\ thumbnails \subseteq Photos \X Sizes
    BY DEF PhotoInv, PhotoTables, Photo!Thumbnail
<1>3. /\ worker[w].at \in Photo!Holding /\ worker[w].photo \in Photos /\ size \in Sizes
      /\ worker[w].photo \in Known
      /\ {worker[w].photo} \X (Sizes \ worker[w].todo) \subseteq thumbnails
    BY <1>2 DEF Knows, Photo!Holding, WorkerStates
<1>4. thumbnails \subseteq thumbnails' /\ thumbnails' \subseteq Photos \X Sizes
    BY <1>1, <1>2, <1>3
<1>5. PhotoTables' /\ Known' = Known
    BY <1>1, <1>2, <1>4, TablesOn DEF PhotoInv, Photo!Fails, Photo!Works, Known
<1>6. CASE thumbnails' = thumbnails \cup {<<worker[w].photo, size>>} /\ Photo!NoFault
           /\ Photo!Works(w, [Photo!At(w, IF worker[w].todo \ {size} = {} THEN "ready" ELSE "thumbnails")
                                  EXCEPT !.todo = worker[w].todo \ {size}])
  <2> DEFINE place == IF worker[w].todo \ {size} = {} THEN "ready" ELSE "thumbnails"
             x == [Photo!At(w, place) EXCEPT !.todo = worker[w].todo \ {size}]
  <2>1. /\ x \in WorkerStates /\ x.at = place /\ x.todo = worker[w].todo \ {size}
        /\ x.photo = worker[w].photo /\ x.watched = worker[w].watched
      BY <1>2 DEF Photo!At, WorkerStates, Photo!Holding
  <2>2. Photo!Works(w, x)
      BY <1>6
  <2> HIDE DEF x
  <2>3. {x.photo} \X (Sizes \ x.todo) \subseteq thumbnails'
      BY <1>3, <1>6, <2>1
  <2>4. x.at = "ready" => {x.photo} \X Sizes \subseteq thumbnails'
      BY <2>1, <2>3
  <2>5. x.at \in Photo!Holding /\ x.photo \in Known
      BY <1>3, <2>1 DEF Photo!Holding
  <2> QED
      BY <1>2, <1>3, <1>4, <1>5, <1>6, <2>1, <2>2, <2>3, <2>4, <2>5, WorkerGoesOn DEF Photo!NoFault
<1>7. CASE Photo!Fails(w)
    BY <1>2, <1>3, <1>4, <1>5, <1>7, WorkerEnds DEF Photo!Fails
<1> QED
    BY <1>1, <1>6, <1>7

\* The claim, the photo and the event change together, or have already.
LEMMA AppliedKeeps ==
    ASSUME PhotoInv, NEW p \in Known, {p} \X Sizes \subseteq thumbnails,
           Photo!Applied(p), UNCHANGED Photo!mediaVars, UNCHANGED thumbnails
    PROVE  PhotoTables' /\ Known' = Known
<1>1. UNCHANGED <<upload, images, originals, deleted, thumbnails>>
    BY DEF Photo!mediaVars
<1>2. CASE p \in claims
  <2>1. UNCHANGED <<photo, claims, ready>>
      BY <1>2 DEF Photo!Applied
  <2> QED
      BY <2>1, TablesOn DEF PhotoInv, PhotoTables, Known
<1>3. CASE p \notin claims
  <2>1. /\ claims' = claims \cup {p} /\ photo' = [photo EXCEPT ![p] = "ready"]
        /\ ready' = [ready EXCEPT ![p] = @ + 1]
      BY <1>3 DEF Photo!Applied
  <2>2. PhotoIsTrue(p) /\ deleted[p] \in 0..2 /\ p \in Photos /\ photo[p] # "none"
      BY DEF PhotoInv, PhotoTables, Known
  <2>3. ready[p] = 0 /\ deleted[p] + 1 <= 2
      BY <1>3, <2>2 DEF PhotoIsTrue, Count
  <2>4. /\ claims' \subseteq Photos /\ p \in claims'
        /\ photo' \in [Photos -> {"none", "uploaded", "ready", "deleted"}] /\ photo'[p] = "ready"
        /\ ready' \in [Photos -> Nat] /\ ready'[p] = 1
        /\ \A q \in Photos \ {p} : /\ photo'[q] = photo[q] /\ ready'[q] = ready[q]
                                   /\ q \in claims' <=> q \in claims
      BY <2>1, <2>2, <2>3 DEF PhotoInv, PhotoTables
  <2>5. PhotoIsTrue(p)'
      BY <1>1, <2>2, <2>3, <2>4 DEF PhotoIsTrue, Count
  <2>6. \A q \in Photos \ {p} : PhotoIsTrue(q)'
      BY <1>1, <2>4 DEF PhotoInv, PhotoTables, PhotoIsTrue, Count
  <2>7. Known' = Known
      BY <2>2, <2>4 DEF Known
  <2> QED
      BY <1>1, <2>4, <2>5, <2>6, <2>7 DEF PhotoInv, PhotoTables
<1> QED
    BY <1>2, <1>3

\* CommitReady claims, marks ready once, and leaves the invariant true.
LEMMA CommitReadyKeeps ==
    ASSUME PhotoInv, NEW w \in Workers, Photo!CommitReady(w)
    PROVE  PhotoInv'
<1>1. /\ worker[w].at = "ready" /\ UNCHANGED <<thumbnails, record, lock>>
      /\ UNCHANGED Photo!mediaVars
      /\ Photo!Fault \/ Photo!NoFault
      /\ \E result \in {"nil", "retryable"} : Photo!Works(w, Photo!Ends(w, result))
      /\ Photo!Applied(worker[w].photo) \/ UNCHANGED <<claims, photo, ready>>
    BY DEF Photo!CommitReady, Photo!Fails, Photo!Works
<1>2. /\ worker[w].photo \in Known /\ {worker[w].photo} \X Sizes \subseteq thumbnails
      /\ worker[w].at \in Photo!Holding
    BY <1>1 DEF PhotoInv, Knows, Photo!Holding
<1>3. PhotoTables' /\ Known' = Known
  <2>1. CASE Photo!Applied(worker[w].photo)
      BY <1>1, <1>2, <2>1, AppliedKeeps
  <2>2. CASE UNCHANGED <<claims, photo, ready>>
      BY <1>1, <2>2, TablesOn DEF PhotoInv, PhotoTables, Known
  <2> QED
      BY <1>1, <2>1, <2>2
<1> QED
    BY <1>1, <1>2, <1>3, WorkerEnds

\* The script takes away the lock of the worker that runs it, and no other's.
LEMMA UnlockKeeps ==
    ASSUME PhotoInv, NEW w \in Workers, Photo!Unlock(w)
    PROVE  PhotoInv'
<1> DEFINE x == [Photo!At(w, "settle") EXCEPT !.watched = FALSE]
<1>1. /\ worker[w].at = "unlock" /\ Photo!Works(w, x) /\ lock' \in {lock, Photo!Released(w)}
      /\ UNCHANGED <<photo, thumbnails, record, claims, ready>> /\ UNCHANGED Photo!mediaVars
      /\ Photo!Fault \/ Photo!NoFault
    BY DEF Photo!Unlock, Photo!Works
<1>2. /\ worker[w] \in WorkerStates /\ Knows(w, worker[w], Known, thumbnails)
      /\ lock \in [Photos -> Workers \cup {NoWorker}]
      /\ record \in [Photos -> {"none", "pending", "handled", "dead"}]
    BY DEF PhotoInv
<1>3. worker[w].photo \in Photos
    BY <1>1, <1>2 DEF Knows
<1>4. PhotoTables' /\ Known' = Known /\ faults' \in 0..MaxFaults
  <2>1. PhotoTables' /\ Known' = Known
      BY <1>1, TablesOn DEF PhotoInv, PhotoTables, Known
  <2> QED
      BY <1>1, <2>1, CardsAssumption
      DEF PhotoInv, Photo!Fault, Photo!NoFault, Photo!PhotoAssumption
<1>5. x \in WorkerStates /\ x.at = "settle" /\ x.photo \in Photos /\ ~x.watched
    BY <1>2, <1>3 DEF Photo!At, WorkerStates
<1>6. lock' \in [Photos -> Workers \cup {NoWorker}]
    BY <1>1, <1>2, <1>3 DEF Photo!Released
<1> HIDE DEF x
<1>7. Knows(w, x, Known, thumbnails')
    BY <1>5 DEF Knows
<1> QED
    BY <1>1, <1>2, <1>4, <1>5, <1>6, <1>7, WorkerMoves

\* What the consumer makes of the record, a watchdog that gives up, and a crash.
LEMMA LetsGo ==
    ASSUME PhotoInv, NEW w \in Workers,
           Photo!Settle(w) \/ Photo!WatchdogGivesUp(w) \/ Photo!Crash(w)
    PROVE  PhotoInv'
<1>1. /\ UNCHANGED <<photo, thumbnails, claims, ready, lock>>
      /\ UNCHANGED Photo!mediaVars
      /\ Photo!Fault \/ Photo!NoFault
    BY DEF Photo!Settle, Photo!WatchdogGivesUp, Photo!Crash, Photo!Works, Photo!NoFault
<1>2. /\ worker[w] \in WorkerStates /\ Knows(w, worker[w], Known, thumbnails)
      /\ lock \in [Photos -> Workers \cup {NoWorker}]
      /\ record \in [Photos -> {"none", "pending", "handled", "dead"}]
    BY DEF PhotoInv
<1>3. PhotoTables' /\ Known' = Known /\ faults' \in 0..MaxFaults
  <2>1. PhotoTables' /\ Known' = Known
      BY <1>1, TablesOn DEF PhotoInv, PhotoTables, Known
  <2> QED
      BY <1>1, <2>1, CardsAssumption
      DEF PhotoInv, Photo!Fault, Photo!NoFault, Photo!PhotoAssumption
<1>4. record' \in [Photos -> {"none", "pending", "handled", "dead"}]
  <2>1. CASE Photo!Settle(w)
    <3>1. PICK o : /\ o \in CASE worker[w].stale -> {record[worker[w].photo]}
                               [] worker[w].result = "nil" -> {"handled"}
                               [] worker[w].result = "permanent" -> {"dead"}
                               [] OTHER -> {"pending", "dead"}
                   /\ record' = [record EXCEPT ![worker[w].photo] = o]
        BY <2>1 DEF Photo!Settle
    <3>2. worker[w].photo \in Photos
        BY <1>2, <2>1 DEF Knows, Photo!Settle
    <3>3. o \in {"none", "pending", "handled", "dead"}
        BY <1>2, <3>1, <3>2
    <3> QED
        BY <1>2, <3>1, <3>3
  <2>2. CASE Photo!WatchdogGivesUp(w) \/ Photo!Crash(w)
      BY <1>2, <2>2 DEF Photo!WatchdogGivesUp, Photo!Crash
  <2> QED
      BY <2>1, <2>2
<1>5. PICK x \in WorkerStates :
          /\ Photo!Works(w, x) /\ ~x.watched
          /\ x.at = "idle" \/ x = [worker[w] EXCEPT !.watched = FALSE]
  <2>1. CASE Photo!WatchdogGivesUp(w)
    <3>1. [worker[w] EXCEPT !.watched = FALSE] \in WorkerStates
          /\ ~[worker[w] EXCEPT !.watched = FALSE].watched
        BY <1>2 DEF WorkerStates
    <3> QED
        BY <2>1, <3>1 DEF Photo!WatchdogGivesUp
  <2>2. CASE Photo!Settle(w) \/ Photo!Crash(w)
    <3>1. Photo!Resting \in WorkerStates /\ Photo!Resting.at = "idle" /\ ~Photo!Resting.watched
        BY DEF Photo!Resting, WorkerStates
    <3>2. Photo!Works(w, Photo!Resting)
        BY <2>2 DEF Photo!Settle, Photo!Crash
    <3> QED
        BY <3>1, <3>2
  <2> QED
      BY <2>1, <2>2
<1>6. Knows(w, x, Known, thumbnails')
  <2>1. CASE x.at = "idle"
      BY <1>5, <2>1 DEF Knows
  <2>2. CASE x = [worker[w] EXCEPT !.watched = FALSE]
    <3>1. /\ x.at = worker[w].at /\ x.photo = worker[w].photo /\ x.todo = worker[w].todo
          /\ ~x.watched
        BY <1>2, <2>2 DEF WorkerStates
    <3> QED
        BY <1>1, <1>2, <3>1 DEF Knows
  <2> QED
      BY <1>5, <2>1, <2>2
<1> QED
    BY <1>1, <1>2, <1>3, <1>4, <1>5, <1>6, WorkerMoves

\* Every step of the photos and the workers keeps their invariant.
LEMMA PhotoStep ==
    ASSUME PhotoInv, Photo!Next
    PROVE  PhotoInv'
    BY UploadKeeps, PutKeeps, CreateKeeps, DeleteKeeps, ExpireKeeps, RedeliverKeeps, TakeKeeps,
       AcquireKeeps, ReadKeeps, ThumbnailKeeps, CommitReadyKeeps, UnlockKeeps, LetsGo
    DEF Photo!Next, Photo!Process

-----------------------------------------------------------------------------
(* The locks of the photos.                                                   *)

\* What goes wrong once makes one of the two worse at most.
LEMMA FaultsPay ==
    ASSUME faults \in Nat, LockInv, OneIsStale',
           \/ faults' = faults /\ (Stale' => Stale) /\ (Insecure' => Insecure)
           \/ faults' = faults + 1 /\ ((Stale' => Stale) \/ (Insecure' => Insecure))
    PROVE  LockInv'
<1>1. /\ Count(Stale) \in {0, 1} /\ Count(Insecure) \in {0, 1}
      /\ Count(Stale') \in {0, 1} /\ Count(Insecure') \in {0, 1}
    BY DEF Count
<1>2. /\ (Stale' => Stale) => Count(Stale') <= Count(Stale)
      /\ (Insecure' => Insecure) => Count(Insecure') <= Count(Insecure)
    BY DEF Count
<1>3. Count(Stale)' = Count(Stale') /\ Count(Insecure)' = Count(Insecure')
    BY DEF Count
<1>4. Count(Stale') + Count(Insecure') <= faults'
    BY <1>1, <1>2 DEF LockInv
<1> QED
    BY <1>3, <1>4 DEF LockInv

\* The bound of the faults.
LEMMA FaultFacts ==
    ASSUME PhotoInv
    PROVE  /\ faults \in Nat
           /\ Photo!Fault => faults' = faults + 1
           /\ Photo!NoFault => faults' = faults
    BY CardsAssumption DEF PhotoInv, Photo!Fault, Photo!NoFault, Photo!PhotoAssumption

\* media touches neither a worker nor a lock.
LEMMA LocksStay ==
    ASSUME PhotoInv, LockInv, UNCHANGED <<worker, lock>>, Photo!Fault \/ Photo!NoFault
    PROVE  LockInv'
<1>1. OneIsStale' /\ (Stale' => Stale) /\ (Insecure' => Insecure)
    BY DEF LockInv, OneIsStale, Stale, Insecure
<1> QED
    BY <1>1, FaultFacts, FaultsPay

\* A step of one worker, at the photo it has or to its rest, that leaves the others
\* their locks.
LEMMA LockMoves ==
    ASSUME PhotoInv, LockInv, NEW w \in Workers, NEW x, Photo!Works(w, x),
           \/ x.at = "idle" /\ ~x.stale
           \/ /\ worker[w].at # "idle"
              /\ x.photo = worker[w].photo /\ x.stale = worker[w].stale,
           Photo!Fault \/ (Photo!NoFault /\ (Secure(w, worker[w], lock) => Secure(w, x, lock'))),
           \A v \in Workers \ {w} :
               worker[v].at \in Photo!Holding /\ lock[worker[v].photo] = v
                   => lock'[worker[v].photo] = v
    PROVE  LockInv'
<1>1. /\ worker'[w] = x
      /\ \A v \in Workers \ {w} : worker'[v] = worker[v]
    BY DEF PhotoInv, Photo!Works
<1>2. OneIsStale'
    BY <1>1 DEF LockInv, OneIsStale
<1>3. Stale' => Stale
    BY <1>1 DEF Stale
<1>4. \A v \in Workers \ {w} : Secure(v, worker[v], lock) => Secure(v, worker'[v], lock')
    BY <1>1 DEF Secure
<1>5. CASE Photo!Fault
    BY <1>2, <1>3, <1>5, FaultFacts, FaultsPay
<1>6. CASE Photo!NoFault /\ (Secure(w, worker[w], lock) => Secure(w, x, lock'))
  <2>1. Insecure' => Insecure
      BY <1>1, <1>4, <1>6 DEF Insecure
  <2> QED
      BY <1>2, <1>3, <1>6, <2>1, FaultFacts, FaultsPay
<1> QED
    BY <1>5, <1>6

\* Who had the record before is stale, and was not without a fault.
LEMMA TakeLocks ==
    ASSUME PhotoInv, LockInv, NEW w \in Workers, NEW p \in Photos, Photo!Take(w, p)
    PROVE  LockInv'
<1>1. /\ worker' = [v \in Workers |->
             IF v = w THEN [Photo!Resting EXCEPT !.at = "lock", !.photo = p]
             ELSE IF worker[v].photo = p THEN [worker[v] EXCEPT !.stale = TRUE] ELSE worker[v]]
      /\ worker[w].at = "idle" /\ lock' = lock
    BY DEF Photo!Take
<1>2. /\ \A v \in Workers : worker[v] \in WorkerStates
      /\ worker'[w].at = "lock" /\ worker'[w].photo = p /\ worker'[w].stale = FALSE
    BY <1>1 DEF PhotoInv, Photo!Resting
<1>3. \A v \in Workers \ {w} :
          /\ worker'[v].at = worker[v].at /\ worker'[v].photo = worker[v].photo
          /\ worker'[v].watched = worker[v].watched
          /\ worker'[v].stale = (worker[v].stale \/ worker[v].photo = p)
    BY <1>1, <1>2 DEF WorkerStates
<1>4. OneIsStale'
  <2> SUFFICES ASSUME NEW u \in Workers, NEW v \in Workers, u # v,
                      worker'[u].at # "idle", worker'[v].at # "idle",
                      worker'[u].photo = worker'[v].photo
               PROVE  worker'[u].stale \/ worker'[v].stale
      BY DEF OneIsStale
  <2>1. CASE u = w
      BY <1>2, <1>3, <2>1
  <2>2. CASE v = w
      BY <1>2, <1>3, <2>2
  <2>3. CASE u # w /\ v # w
      BY <1>3, <2>3 DEF LockInv, OneIsStale
  <2> QED
      BY <2>1, <2>2, <2>3
<1>5. Insecure' => Insecure
  <2>1. Secure(w, worker'[w], lock')
      BY <1>2 DEF Secure, Photo!Holding
  <2>2. \A v \in Workers \ {w} : Secure(v, worker[v], lock) => Secure(v, worker'[v], lock')
      BY <1>1, <1>3 DEF Secure
  <2> QED
      BY <2>1, <2>2 DEF Insecure
<1>6. CASE \A v \in Workers : worker[v].photo = p => worker[v].stale
  <2>1. Stale' => Stale
      BY <1>2, <1>3, <1>6 DEF Stale
  <2>2. Photo!NoFault \/ Photo!Fault
      BY DEF Photo!Take
  <2> QED
      BY <1>4, <1>5, <2>1, <2>2, FaultFacts, FaultsPay
<1>7. CASE ~\A v \in Workers : worker[v].photo = p => worker[v].stale
  <2>1. Photo!Fault
      BY <1>7 DEF Photo!Take
  <2> QED
      BY <1>4, <1>5, <2>1, FaultFacts, FaultsPay
<1> QED
    BY <1>6, <1>7

\* Only a lock that is free is taken: whoever works without it did so before.
LEMMA AcquireLocks ==
    ASSUME PhotoInv, LockInv, NEW w \in Workers, Photo!AcquirePhotoLock(w)
    PROVE  LockInv'
<1> DEFINE p == worker[w].photo
<1>1. /\ worker[w] \in WorkerStates /\ worker[w].at = "lock" /\ p \in Photos
      /\ lock \in [Photos -> Workers \cup {NoWorker}]
    BY DEF PhotoInv, Knows, Photo!AcquirePhotoLock
<1>2. lock' = lock \/ (lock[p] = NoWorker /\ lock' = [lock EXCEPT ![p] = w])
    BY DEF Photo!AcquirePhotoLock, Photo!Free
<1>3. \A v \in Workers \ {w} :
          worker[v].at \in Photo!Holding /\ lock[worker[v].photo] = v
              => lock'[worker[v].photo] = v
  <2> SUFFICES ASSUME NEW v \in Workers \ {w}, worker[v].at \in Photo!Holding,
                      lock[worker[v].photo] = v
               PROVE  lock'[worker[v].photo] = v
      OBVIOUS
  <2>1. worker[v].photo \in Photos
      BY DEF PhotoInv, Knows, Photo!Holding
  <2>2. lock[p] = NoWorker => worker[v].photo # p
      BY CardsAssumption DEF Photo!PhotoAssumption
  <2> QED
      BY <1>1, <1>2, <2>1, <2>2
<1>4. CASE /\ lock[p] = NoWorker /\ lock' = [lock EXCEPT ![p] = w] /\ Photo!NoFault
           /\ Photo!Works(w, [Photo!At(w, "original") EXCEPT !.watched = TRUE])
  <2> DEFINE x == [Photo!At(w, "original") EXCEPT !.watched = TRUE]
  <2>1. x.photo = p /\ x.stale = worker[w].stale /\ x.watched /\ lock'[p] = w
      BY <1>1, <1>4 DEF Photo!At, WorkerStates
  <2>2. Photo!Works(w, x)
      BY <1>4
  <2> HIDE DEF x
  <2> QED
      BY <1>1, <1>3, <1>4, <2>1, <2>2, LockMoves DEF Secure
<1>5. ASSUME NEW result,
             Photo!Works(w, [Photo!At(w, "settle") EXCEPT !.result = result]),
             Photo!Fault \/ Photo!NoFault
      PROVE  LockInv'
  <2> DEFINE x == [Photo!At(w, "settle") EXCEPT !.result = result]
  <2>1. x.at = "settle" /\ x.photo = p /\ x.stale = worker[w].stale
      BY <1>1 DEF Photo!At, WorkerStates
  <2>2. Photo!Works(w, x)
      BY <1>5
  <2> HIDE DEF x
  <2> QED
      BY <1>1, <1>3, <1>5, <2>1, <2>2, LockMoves DEF Secure, Photo!Holding
<1> QED
    BY <1>4, <1>5 DEF Photo!AcquirePhotoLock, Photo!Free

\* The work itself: a worker stays at its photo, under the lock it had.
LEMMA WorkLocks ==
    ASSUME PhotoInv, LockInv, NEW w \in Workers,
           \/ Photo!GetOriginal(w) \/ Photo!GetObject(w) \/ Photo!Decode(w)
           \/ Photo!Thumbnail(w) \/ Photo!CommitReady(w)
    PROVE  LockInv'
<1>1. /\ worker[w] \in WorkerStates /\ worker[w].at \in Photo!Holding /\ lock' = lock
    BY DEF PhotoInv, Photo!GetOriginal, Photo!GetObject, Photo!Decode, Photo!Thumbnail,
           Photo!CommitReady, Photo!Holding
<1>2. ASSUME NEW x, Photo!Works(w, x), Photo!Fault \/ Photo!NoFault,
             x.photo = worker[w].photo, x.stale = worker[w].stale, x.watched = worker[w].watched
      PROVE  LockInv'
    BY <1>1, <1>2, LockMoves DEF Secure, Photo!Holding
<1>3. ASSUME NEW result, Photo!Works(w, Photo!Ends(w, result)), Photo!Fault \/ Photo!NoFault
      PROVE  LockInv'
  <2>1. /\ Photo!Ends(w, result).photo = worker[w].photo
        /\ Photo!Ends(w, result).stale = worker[w].stale
        /\ Photo!Ends(w, result).watched = worker[w].watched
      BY <1>1 DEF Photo!Ends, WorkerStates
  <2> QED
      BY <1>2, <1>3, <2>1
<1>4. ASSUME NEW place, Photo!Works(w, Photo!At(w, place)), Photo!NoFault
      PROVE  LockInv'
  <2>1. /\ Photo!At(w, place).photo = worker[w].photo
        /\ Photo!At(w, place).stale = worker[w].stale
        /\ Photo!At(w, place).watched = worker[w].watched
      BY <1>1 DEF Photo!At, WorkerStates
  <2> QED
      BY <1>2, <1>4, <2>1
<1>5. ASSUME NEW place, NEW todo, Photo!Works(w, [Photo!At(w, place) EXCEPT !.todo = todo]),
             Photo!NoFault
      PROVE  LockInv'
  <2> DEFINE x == [Photo!At(w, place) EXCEPT !.todo = todo]
  <2>1. x.photo = worker[w].photo /\ x.stale = worker[w].stale /\ x.watched = worker[w].watched
      BY <1>1 DEF Photo!At, WorkerStates
  <2>2. Photo!Works(w, x)
      BY <1>5
  <2> HIDE DEF x
  <2> QED
      BY <1>2, <1>5, <2>1, <2>2
<1>6. CASE Photo!GetOriginal(w)
    BY <1>3, <1>4, <1>6 DEF Photo!GetOriginal, Photo!Fails
<1>7. CASE Photo!GetObject(w)
    BY <1>3, <1>4, <1>7 DEF Photo!GetObject, Photo!Fails
<1>8. CASE Photo!Decode(w)
    BY <1>3, <1>5, <1>8 DEF Photo!Decode
<1>9. CASE Photo!Thumbnail(w)
    BY <1>3, <1>5, <1>9 DEF Photo!Thumbnail, Photo!Fails
<1>10. CASE Photo!CommitReady(w)
    BY <1>3, <1>10 DEF Photo!CommitReady, Photo!Fails
<1> QED
    BY <1>6, <1>7, <1>8, <1>9, <1>10

\* Unlock takes its own lock away at most, at the end of the work.
LEMMA UnlockLocks ==
    ASSUME PhotoInv, LockInv, NEW w \in Workers, Photo!Unlock(w)
    PROVE  LockInv'
<1> DEFINE x == [Photo!At(w, "settle") EXCEPT !.watched = FALSE]
<1>1. /\ worker[w].at = "unlock" /\ Photo!Works(w, x) /\ lock' \in {lock, Photo!Released(w)}
      /\ Photo!Fault \/ Photo!NoFault
    BY DEF Photo!Unlock
<1>2. /\ worker[w] \in WorkerStates /\ worker[w].photo \in Photos
      /\ lock \in [Photos -> Workers \cup {NoWorker}]
    BY <1>1 DEF PhotoInv, Knows
<1>3. x.at = "settle" /\ x.photo = worker[w].photo /\ x.stale = worker[w].stale
    BY <1>2 DEF Photo!At, WorkerStates
<1>4. \A v \in Workers \ {w} :
          worker[v].at \in Photo!Holding /\ lock[worker[v].photo] = v
              => lock'[worker[v].photo] = v
  <2> SUFFICES ASSUME NEW v \in Workers \ {w}, worker[v].at \in Photo!Holding,
                      lock[worker[v].photo] = v
               PROVE  lock'[worker[v].photo] = v
      OBVIOUS
  <2>1. worker[v].photo \in Photos
      BY DEF PhotoInv, Knows, Photo!Holding
  <2>2. \/ lock' = lock
        \/ lock[worker[w].photo] = w /\ lock' = [lock EXCEPT ![worker[w].photo] = NoWorker]
      BY <1>1 DEF Photo!Released
  <2> QED
      BY <1>2, <2>1, <2>2
<1> HIDE DEF x
<1> QED
    BY <1>1, <1>3, <1>4, LockMoves DEF Secure, Photo!Holding

\* A rest has neither a photo nor a lock; a watchdog that gives up is a fault.
LEMMA LetsGoLocks ==
    ASSUME PhotoInv, LockInv, NEW w \in Workers,
           Photo!Settle(w) \/ Photo!WatchdogGivesUp(w) \/ Photo!Crash(w)
    PROVE  LockInv'
<1>1. lock' = lock /\ worker[w] \in WorkerStates
    BY DEF PhotoInv, Photo!Settle, Photo!WatchdogGivesUp, Photo!Crash
<1>2. CASE Photo!Settle(w) \/ Photo!Crash(w)
  <2>1. Photo!Works(w, Photo!Resting) /\ (Photo!Fault \/ Photo!NoFault)
      BY <1>2 DEF Photo!Settle, Photo!Crash, Photo!NoFault
  <2>2. Photo!Resting.at = "idle" /\ ~Photo!Resting.stale
      BY DEF Photo!Resting
  <2> QED
      BY <1>1, <2>1, <2>2, LockMoves DEF Secure, Photo!Holding
<1>3. CASE Photo!WatchdogGivesUp(w)
  <2> DEFINE x == [worker[w] EXCEPT !.watched = FALSE]
  <2>1. /\ Photo!Works(w, x) /\ Photo!Fault /\ x.photo = worker[w].photo
        /\ x.stale = worker[w].stale /\ worker[w].watched
      BY <1>1, <1>3 DEF Photo!WatchdogGivesUp, WorkerStates
  <2>2. worker[w].at # "idle"
      BY <2>1 DEF PhotoInv, Knows, Photo!Holding
  <2> HIDE DEF x
  <2> QED
      BY <1>1, <2>1, <2>2, LockMoves
<1> QED
    BY <1>2, <1>3

\* A lock goes without a fault only where no watchdog of its holder is alive.
LEMMA ExpireLocks ==
    ASSUME PhotoInv, LockInv, NEW p \in Photos, Photo!Expire(p) \/ Photo!Outlasted(p)
    PROVE  LockInv'
<1>1. worker' = worker /\ lock' = [lock EXCEPT ![p] = NoWorker]
    BY DEF Photo!Expire, Photo!Outlasted
<1>2. OneIsStale' /\ (Stale' => Stale)
    BY <1>1 DEF LockInv, OneIsStale, Stale
<1>3. CASE Photo!Outlasted(p)
    BY <1>2, <1>3, FaultFacts, FaultsPay DEF Photo!Outlasted
<1>4. CASE Photo!Expire(p)
  <2>1. ASSUME NEW v \in Workers, Secure(v, worker[v], lock)
        PROVE  Secure(v, worker'[v], lock')
    <3>1. CASE worker[v].at \in Photo!Holding
      <4>1. worker[v].photo \in Photos /\ lock[worker[v].photo] = v /\ worker[v].watched
          BY <2>1, <3>1 DEF PhotoInv, Knows, Photo!Holding, Secure
      <4>2. worker[v].photo # p
          BY <1>4, <4>1 DEF Photo!Expire, Photo!Watched
      <4> QED
          BY <1>1, <4>1, <4>2 DEF PhotoInv, Secure
    <3>2. CASE worker[v].at \notin Photo!Holding
        BY <1>1, <3>2 DEF Secure
    <3> QED
        BY <3>1, <3>2
  <2>2. Insecure' => Insecure
      BY <2>1 DEF Insecure
  <2>3. faults' = faults
      BY <1>4 DEF Photo!Expire
  <2> QED
      BY <1>2, <2>2, <2>3, FaultFacts, FaultsPay
<1> QED
    BY <1>3, <1>4

\* Every step of the photos and the workers keeps what is said of the locks.
LEMMA LockStep ==
    ASSUME PhotoInv, LockInv, Photo!Next
    PROVE  LockInv'
<1>1. ASSUME NEW p \in Photos,
             \/ Photo!Upload(p) \/ Photo!Put(p) \/ Photo!Create(p) \/ Photo!Delete(p)
             \/ Photo!Redeliver(p)
      PROVE  LockInv'
  <2>1. UNCHANGED <<worker, lock>> /\ (Photo!Fault \/ Photo!NoFault)
      BY <1>1 DEF Photo!Upload, Photo!Put, Photo!Create, Photo!Delete, Photo!Redeliver,
                  Photo!NoFault, Photo!workVars
  <2> QED
      BY <2>1, LocksStay
<1> QED
    BY <1>1, TakeLocks, AcquireLocks, WorkLocks, UnlockLocks, LetsGoLocks, ExpireLocks
    DEF Photo!Next, Photo!Process

\* A lock that somebody holds goes in a step of its holder, or by itself.
LEMMA LockIsOwn ==
    ASSUME PhotoInv, Photo!Next, NEW p \in Photos, lock[p] # NoWorker, lock'[p] # lock[p]
    PROVE  worker' = worker \/ worker'[lock[p]] # worker[lock[p]]
<1>1. ASSUME NEW w \in Workers, Photo!AcquirePhotoLock(w)
      PROVE  FALSE
  <2>1. \/ lock' = lock
        \/ /\ lock[worker[w].photo] = NoWorker
           /\ lock' = [lock EXCEPT ![worker[w].photo] = w]
      BY <1>1 DEF Photo!AcquirePhotoLock, Photo!Free
  <2> QED
      BY <2>1 DEF PhotoInv
<1>2. ASSUME NEW w \in Workers, Photo!Unlock(w)
      PROVE  worker'[lock[p]] # worker[lock[p]]
  <2>1. lock[worker[w].photo] = w /\ lock' = [lock EXCEPT ![worker[w].photo] = NoWorker]
      BY <1>2 DEF Photo!Unlock, Photo!Released
  <2>2. lock[p] = w
      BY <2>1 DEF PhotoInv
  <2>3. worker'[w] = [Photo!At(w, "settle") EXCEPT !.watched = FALSE] /\ worker[w].at = "unlock"
      BY <1>2 DEF Photo!Unlock, Photo!Works, PhotoInv
  <2>4. worker'[w].at = "settle"
      BY <2>3 DEF Photo!At, PhotoInv, WorkerStates
  <2> QED
      BY <2>2, <2>3, <2>4
<1>3. ASSUME NEW w \in Workers,
             \/ Photo!GetOriginal(w) \/ Photo!GetObject(w) \/ Photo!Decode(w)
             \/ Photo!Thumbnail(w) \/ Photo!CommitReady(w)
             \/ Photo!Settle(w) \/ Photo!WatchdogGivesUp(w) \/ Photo!Crash(w)
      PROVE  FALSE
    BY <1>3 DEF Photo!GetOriginal, Photo!GetObject, Photo!Decode, Photo!Thumbnail,
                Photo!CommitReady, Photo!Settle, Photo!WatchdogGivesUp, Photo!Crash
<1>4. ASSUME NEW q \in Photos,
             \/ Photo!Upload(q) \/ Photo!Put(q) \/ Photo!Create(q) \/ Photo!Delete(q)
             \/ Photo!Redeliver(q) \/ \E w \in Workers : Photo!Take(w, q)
      PROVE  FALSE
    BY <1>4 DEF Photo!Upload, Photo!Put, Photo!Create, Photo!Delete, Photo!Redeliver,
                Photo!Take, Photo!workVars
<1>5. ASSUME NEW q \in Photos, Photo!Expire(q) \/ Photo!Outlasted(q)
      PROVE  worker' = worker
    BY <1>5 DEF Photo!Expire, Photo!Outlasted
<1> QED
    BY <1>1, <1>2, <1>3, <1>4, <1>5 DEF Photo!Next, Photo!Process

-----------------------------------------------------------------------------
(* The cards and their indexer.                                               *)

HandlerStates == [at : {"idle", "invalidate", "notify"}, photo : Photos \cup {NoPhoto}]
FlightStates ==
    [at : {"idle", "load", "set"}, photo : Photos \cup {NoPhoto}, status : Card!Statuses]
RecordStates == {"none", "pending", "handled", "dead"}

\* A claim stands for its change, and what is handled or in hand has its claim.
CardInv ==
    /\ {card, replica, cached} \subseteq [Photos -> Card!Statuses]
    /\ told \in [Photos -> Nat]
    /\ cardClaims \subseteq Card!Topics \X Photos
    /\ cardRecord \in [Card!Topics -> [Photos -> RecordStates]]
    /\ rounds \in [Card!Topics -> [Photos -> 0..MaxRounds]]
    /\ handler \in [Card!Topics -> HandlerStates]
    /\ flight \in [Processes -> FlightStates]
    /\ cardFaults \in 0..MaxCardFaults
    /\ \A p \in Photos :
          /\ told[p] = Count(card[p] = "published")
          /\ <<"thumbnail-ready", p>> \in cardClaims <=> card[p] = "published"
          /\ <<"uploaded", p>> \in cardClaims => card[p] # "none"
    /\ \A t \in Card!Topics, p \in Photos : cardRecord[t][p] = "handled" => <<t, p>> \in cardClaims
    /\ \A t \in Card!Topics : handler[t].at # "idle" =>
          handler[t].photo \in Photos /\ <<t, handler[t].photo>> \in cardClaims
    /\ \A i \in Processes : flight[i].at # "idle" => flight[i].photo \in Photos

\* The card of a new photo is made, or published: the claim, the card and what is
\* told of it change together.
LEMMA ClaimKeeps ==
    ASSUME CardInv, NEW t \in Card!Topics, NEW p \in Photos, <<t, p>> \notin cardClaims,
           Card!WithClaim(t, p)
    PROVE  /\ card' \in [Photos -> Card!Statuses] /\ told' \in [Photos -> Nat]
           /\ cardClaims' = cardClaims \cup {<<t, p>>} /\ cardClaims' \subseteq Card!Topics \X Photos
           /\ \A q \in Photos : told'[q] = Count(card'[q] = "published")
           /\ \A q \in Photos : <<"thumbnail-ready", q>> \in cardClaims' <=> card'[q] = "published"
           /\ \A q \in Photos : <<"uploaded", q>> \in cardClaims' => card'[q] # "none"
<1>1. /\ card \in [Photos -> Card!Statuses] /\ told \in [Photos -> Nat]
      /\ cardClaims \subseteq Card!Topics \X Photos
      /\ \A q \in Photos :
            /\ told[q] = Count(card[q] = "published")
            /\ <<"thumbnail-ready", q>> \in cardClaims <=> card[q] = "published"
            /\ <<"uploaded", q>> \in cardClaims => card[q] # "none"
    BY DEF CardInv
<1>2. cardClaims' = cardClaims \cup {<<t, p>>}
    BY DEF Card!WithClaim
<1>3. CASE t = "uploaded"
  <2>1. /\ card' = [card EXCEPT ![p] = IF @ = "none" THEN "draft" ELSE @] /\ told' = told
      BY <1>3 DEF Card!WithClaim, Card!UpsertListing
  <2>2. /\ card' \in [Photos -> Card!Statuses]
        /\ \A q \in Photos : card'[q] = "published" <=> card[q] = "published"
        /\ \A q \in Photos : card[q] # "none" \/ q = p => card'[q] # "none"
      BY <1>1, <2>1 DEF Card!Statuses
  <2>3. /\ \A q \in Photos : told'[q] = Count(card'[q] = "published")
        /\ \A q \in Photos : <<"thumbnail-ready", q>> \in cardClaims' <=> card'[q] = "published"
      BY <1>1, <1>2, <1>3, <2>1, <2>2 DEF Count
  <2>4. \A q \in Photos : <<"uploaded", q>> \in cardClaims' => card'[q] # "none"
      BY <1>1, <1>2, <1>3, <2>2
  <2> QED
      BY <1>1, <1>2, <2>1, <2>2, <2>3, <2>4
<1>4. CASE t = "thumbnail-ready"
  <2>1. /\ card[p] # "none" /\ card' = [card EXCEPT ![p] = "published"]
        /\ told' = [told EXCEPT ![p] = @ + 1]
      BY <1>4 DEF Card!WithClaim, Card!ApplyThumbnails
  <2>2. card[p] # "published" /\ told[p] = 0
      BY <1>1, <1>4 DEF Count
  <2>3. /\ card' \in [Photos -> Card!Statuses] /\ card'[p] = "published"
        /\ told' \in [Photos -> Nat] /\ told'[p] = 1
        /\ \A q \in Photos \ {p} : card'[q] = card[q] /\ told'[q] = told[q]
      BY <1>1, <2>1, <2>2 DEF Card!Statuses
  <2>4. \A q \in Photos : told'[q] = Count(card'[q] = "published")
      BY <1>1, <2>3 DEF Count
  <2>5. \A q \in Photos : <<"thumbnail-ready", q>> \in cardClaims' <=> card'[q] = "published"
      BY <1>1, <1>2, <1>4, <2>3
  <2>6. \A q \in Photos : <<"uploaded", q>> \in cardClaims' => card'[q] # "none"
      BY <1>1, <1>2, <1>4, <2>3
  <2> QED
      BY <1>1, <1>2, <2>3, <2>4, <2>5, <2>6
<1> QED
    BY <1>3, <1>4 DEF Card!Topics

\* What a retry does to the record and its rounds.
LEMMA RetryableKeeps ==
    ASSUME CardInv, NEW t \in Card!Topics, NEW p \in Photos, Card!Retryable(t, p)
    PROVE  /\ cardRecord' \in [Card!Topics -> [Photos -> RecordStates]]
           /\ rounds' \in [Card!Topics -> [Photos -> 0..MaxRounds]]
           /\ handler' = handler
           /\ \A u \in Card!Topics, q \in Photos :
                 cardRecord'[u][q] = "handled" => cardRecord[u][q] = "handled"
<1>1. /\ cardRecord \in [Card!Topics -> [Photos -> RecordStates]]
      /\ rounds \in [Card!Topics -> [Photos -> 0..MaxRounds]] /\ MaxRounds \in Nat
    BY CardsAssumption DEF CardInv, Card!CatalogAssumption
<1>2. CASE rounds[t][p] < MaxRounds
  <2>1. rounds' = [rounds EXCEPT ![t][p] = @ + 1] /\ cardRecord' = cardRecord /\ handler' = handler
      BY <1>2 DEF Card!Retryable
  <2>2. rounds[t] \in [Photos -> 0..MaxRounds] /\ rounds[t][p] + 1 \in 0..MaxRounds
      BY <1>1, <1>2
  <2>3. rounds' \in [Card!Topics -> [Photos -> 0..MaxRounds]]
      BY <1>1, <2>1, <2>2
  <2> QED
      BY <1>1, <2>1, <2>3
<1>3. CASE ~(rounds[t][p] < MaxRounds)
  <2>1. /\ cardRecord' = [cardRecord EXCEPT ![t][p] = "dead"] /\ rounds' = rounds
        /\ handler' = handler
      BY <1>3 DEF Card!Retryable
  <2>2. /\ cardRecord' \in [Card!Topics -> [Photos -> RecordStates]]
        /\ \A u \in Card!Topics, q \in Photos :
              cardRecord'[u][q] = "handled" => cardRecord[u][q] = "handled"
      BY <1>1, <2>1 DEF RecordStates
  <2> QED
      BY <1>1, <2>1, <2>2
<1> QED
    BY <1>2, <1>3

\* A record is handled when its claim is there.
LEMMA HandledKeeps ==
    ASSUME CardInv, NEW t \in Card!Topics, NEW p \in Photos, <<t, p>> \in cardClaims,
           Card!Handled(t, p), cardClaims' = cardClaims
    PROVE  /\ cardRecord' \in [Card!Topics -> [Photos -> RecordStates]]
           /\ handler' \in [Card!Topics -> HandlerStates] /\ rounds' = rounds
           /\ \A u \in Card!Topics, q \in Photos :
                 cardRecord'[u][q] = "handled" => <<u, q>> \in cardClaims
           /\ \A u \in Card!Topics : handler'[u].at # "idle" => handler'[u] = handler[u]
<1>1. /\ cardRecord \in [Card!Topics -> [Photos -> RecordStates]]
      /\ handler \in [Card!Topics -> HandlerStates]
      /\ \A u \in Card!Topics, q \in Photos :
            cardRecord[u][q] = "handled" => <<u, q>> \in cardClaims
    BY DEF CardInv
<1>2. /\ cardRecord' = [cardRecord EXCEPT ![t][p] = "handled"]
      /\ handler' = [handler EXCEPT ![t] = Card!NoHandler] /\ rounds' = rounds
    BY DEF Card!Handled
<1>3. Card!NoHandler \in HandlerStates /\ Card!NoHandler.at = "idle"
    BY DEF Card!NoHandler, HandlerStates
<1> QED
    BY <1>1, <1>2, <1>3 DEF RecordStates

\* An answer of the database or of media that fails, or the handler's way on.
LEMMA CardHandle ==
    ASSUME CardInv, NEW t \in Card!Topics, NEW p \in Photos, Card!Handle(t, p)
    PROVE  CardInv'
<1> USE CardsAssumption DEF CardInv, Card!CatalogAssumption
<1>1. replica' = replica /\ cached' = cached /\ flight' = flight
    BY DEF Card!Handle, Card!reading
<1>2. CASE /\ <<t, p>> \notin cardClaims /\ Card!WithClaim(t, p)
           /\ handler' = [handler EXCEPT ![t] = [at |-> "invalidate", photo |-> p]]
           /\ UNCHANGED <<cardRecord, rounds>> /\ Card!NoFault
  <2>1. cardFaults' = cardFaults /\ cardRecord' = cardRecord /\ rounds' = rounds
      BY <1>2 DEF Card!NoFault
  <2>2. [at |-> "invalidate", photo |-> p] \in HandlerStates
      BY DEF HandlerStates
  <2>3. /\ handler' \in [Card!Topics -> HandlerStates]
        /\ \A u \in Card!Topics : handler'[u].at # "idle" =>
              handler'[u].photo \in Photos /\ <<u, handler'[u].photo>> \in cardClaims'
      BY <1>2, <2>2 DEF Card!WithClaim
  <2> QED
      BY <1>1, <1>2, <2>1, <2>3, ClaimKeeps
<1>3. CASE <<t, p>> \in cardClaims /\ Card!Handled(t, p) /\ UNCHANGED Card!tables /\ Card!NoFault
  <2>1. /\ cardFaults' = cardFaults /\ card' = card /\ told' = told /\ cardClaims' = cardClaims
      BY <1>3 DEF Card!NoFault, Card!tables
  <2> QED
      BY <1>1, <1>3, <2>1, HandledKeeps
<1>4. CASE Card!Retryable(t, p) /\ UNCHANGED Card!tables /\ (Card!Fault \/ Card!NoFault)
  <2>1. /\ cardFaults' \in 0..MaxCardFaults
        /\ card' = card /\ told' = told /\ cardClaims' = cardClaims
      BY <1>4 DEF Card!Fault, Card!NoFault, Card!tables
  <2> QED
      BY <1>1, <1>4, <2>1, RetryableKeeps
<1>5. CASE Card!Retryable(t, p) /\ Card!Fault /\ <<t, p>> \notin cardClaims /\ Card!WithClaim(t, p)
  <2>1. cardFaults' \in 0..MaxCardFaults
      BY <1>5 DEF Card!Fault
  <2> QED
      BY <1>1, <1>5, <2>1, ClaimKeeps, RetryableKeeps
<1> QED
    BY <1>2, <1>3, <1>4, <1>5 DEF Card!Handle

\* Every step of the cards and their cache keeps their invariant.
LEMMA CardStep ==
    ASSUME CardInv, Card!Next
    PROVE  CardInv'
<1> USE CardsAssumption DEF CardInv, Card!CatalogAssumption
<1>1. ASSUME NEW t \in Card!Topics, NEW p \in Photos, Card!Arrive(t, p) \/ Card!Redeliver(t, p)
      PROVE  CardInv'
  <2>1. /\ cardRecord' = [cardRecord EXCEPT ![t][p] = "pending"] /\ cardFaults' \in 0..MaxCardFaults
        /\ UNCHANGED <<card, told, cardClaims, rounds, handler, replica, cached, flight>>
      BY <1>1 DEF Card!Arrive, Card!Redeliver, Card!Fault, Card!tables, Card!reading
  <2>2. /\ cardRecord' \in [Card!Topics -> [Photos -> RecordStates]]
        /\ \A u \in Card!Topics, q \in Photos :
              cardRecord'[u][q] = "handled" => cardRecord[u][q] = "handled"
      BY <2>1 DEF RecordStates
  <2> QED
      BY <2>1, <2>2
<1>2. ASSUME NEW t \in Card!Topics, NEW p \in Photos, Card!Handle(t, p)
      PROVE  CardInv'
    BY <1>2, CardHandle
<1>3. ASSUME NEW t \in Card!Topics, Card!Invalidate(t)
      PROVE  CardInv'
  <2>1. /\ handler[t].at = "invalidate" /\ handler' = [handler EXCEPT ![t].at = "notify"]
        /\ cached' = [cached EXCEPT ![handler[t].photo] = "none"] \/ cached' = cached
        /\ cardFaults' \in 0..MaxCardFaults
        /\ UNCHANGED <<card, told, cardClaims, cardRecord, rounds, replica, flight>>
      BY <1>3 DEF Card!Invalidate, Card!Fault, Card!NoFault, Card!tables
  <2>2. cached' \in [Photos -> Card!Statuses]
      BY <2>1 DEF Card!Statuses
  <2> DEFINE h == [handler[t] EXCEPT !.at = "notify"]
  <2>3. h \in HandlerStates /\ h.photo = handler[t].photo /\ handler[t].photo \in Photos
    <3>1. handler[t] \in HandlerStates /\ handler[t].photo \in Photos
        BY <2>1
    <3> QED
        BY <3>1 DEF HandlerStates
  <2>4. handler' = [handler EXCEPT ![t] = h] /\ <<t, handler[t].photo>> \in cardClaims
      BY <2>1
  <2> HIDE DEF h
  <2>5. /\ handler' \in [Card!Topics -> HandlerStates]
        /\ \A u \in Card!Topics : handler'[u].at # "idle" =>
              handler'[u].photo \in Photos /\ <<u, handler'[u].photo>> \in cardClaims
      BY <2>3, <2>4
  <2> QED
      BY <2>1, <2>2, <2>5
<1>4. ASSUME NEW t \in Card!Topics, Card!Notify(t)
      PROVE  CardInv'
  <2>1. /\ handler[t].at # "idle" /\ Card!Handled(t, handler[t].photo)
        /\ UNCHANGED <<card, told, cardClaims, replica, cached, flight, cardFaults>>
      BY <1>4 DEF Card!Notify, Card!tables, Card!reading
  <2> QED
      BY <2>1, HandledKeeps
<1>5. ASSUME NEW t \in Card!Topics, Card!Crash(t)
      PROVE  CardInv'
  <2>1. /\ handler' = [handler EXCEPT ![t] = Card!NoHandler] /\ cardFaults' \in 0..MaxCardFaults
        /\ UNCHANGED <<card, told, cardClaims, cardRecord, rounds, replica, cached, flight>>
      BY <1>5 DEF Card!Crash, Card!Fault, Card!tables, Card!reading
  <2>2. Card!NoHandler \in HandlerStates /\ Card!NoHandler.at = "idle"
      BY DEF Card!NoHandler, HandlerStates
  <2> QED
      BY <2>1, <2>2
<1>6. ASSUME NEW i \in Processes, NEW p \in Photos, Card!Miss(i, p)
      PROVE  CardInv'
  <2>1. /\ flight' = [flight EXCEPT ![i] = [at |-> "load", photo |-> p, status |-> "none"]]
        /\ UNCHANGED <<card, told, cardClaims, cardRecord, rounds, handler, replica, cached,
                       cardFaults>>
      BY <1>6 DEF Card!Miss, Card!tables, Card!events
  <2>2. /\ flight' \in [Processes -> FlightStates]
        /\ \A j \in Processes : flight'[j].at # "idle" => flight'[j].photo \in Photos
      BY <2>1 DEF Card!Statuses, FlightStates
  <2> QED
      BY <2>1, <2>2
<1>7. ASSUME NEW i \in Processes, Card!Load(i)
      PROVE  CardInv'
  <2>1. /\ flight[i].at = "load"
        /\ flight' = [flight EXCEPT ![i] = IF replica[flight[i].photo] = "none" THEN Card!NoFlight
                          ELSE [@ EXCEPT !.at = "set", !.status = replica[flight[i].photo]]]
        /\ UNCHANGED <<card, told, cardClaims, cardRecord, rounds, handler, replica, cached,
                       cardFaults>>
      BY <1>7 DEF Card!Load, Card!tables, Card!events
  <2>2. replica[flight[i].photo] \in Card!Statuses
      BY <2>1
  <2> DEFINE f == [flight[i] EXCEPT !.at = "set", !.status = replica[flight[i].photo]]
  <2>3. Card!NoFlight \in FlightStates /\ Card!NoFlight.at = "idle"
      BY DEF Card!NoFlight, FlightStates, Card!Statuses
  <2>4. f \in FlightStates /\ f.photo \in Photos
    <3>1. flight[i] \in FlightStates /\ flight[i].photo \in Photos
        BY <2>1
    <3> QED
        BY <2>2, <3>1 DEF FlightStates
  <2>5. flight' = [flight EXCEPT ![i] = Card!NoFlight] \/ flight' = [flight EXCEPT ![i] = f]
      BY <2>1
  <2> HIDE DEF f
  <2>6. /\ flight' \in [Processes -> FlightStates]
        /\ \A j \in Processes : flight'[j].at # "idle" => flight'[j].photo \in Photos
      BY <2>3, <2>4, <2>5
  <2> QED
      BY <2>1, <2>6
<1>8. ASSUME NEW i \in Processes, Card!Set(i)
      PROVE  CardInv'
  <2>1. /\ flight[i].at = "set" /\ flight' = [flight EXCEPT ![i] = Card!NoFlight]
        /\ cached' = [cached EXCEPT ![flight[i].photo] = flight[i].status] \/ cached' = cached
        /\ cardFaults' \in 0..MaxCardFaults
        /\ UNCHANGED <<card, told, cardClaims, cardRecord, rounds, handler, replica>>
      BY <1>8 DEF Card!Set, Card!Fault, Card!NoFault, Card!tables, Card!events
  <2>2. cached' \in [Photos -> Card!Statuses]
    <3>1. flight[i].status \in Card!Statuses /\ cached \in [Photos -> Card!Statuses]
        BY DEF FlightStates
    <3> QED
        BY <2>1, <3>1
  <2>3. /\ flight' \in [Processes -> FlightStates]
        /\ \A j \in Processes : flight'[j].at # "idle" => flight'[j].photo \in Photos
      BY <2>1 DEF Card!Statuses, Card!NoFlight, FlightStates
  <2> QED
      BY <2>1, <2>2, <2>3
<1>9. ASSUME NEW p \in Photos, Card!Expire(p)
      PROVE  CardInv'
  <2>1. /\ cached' = [cached EXCEPT ![p] = "none"]
        /\ UNCHANGED <<card, told, cardClaims, cardRecord, rounds, handler, replica, flight,
                       cardFaults>>
      BY <1>9 DEF Card!Expire, Card!tables, Card!events
  <2>2. cached' \in [Photos -> Card!Statuses]
      BY <2>1 DEF Card!Statuses
  <2> QED
      BY <2>1, <2>2
<1>10. CASE Card!Replicate
  <2>1. /\ replica' = card
        /\ UNCHANGED <<card, told, cardClaims, cardRecord, rounds, handler, cached, flight,
                       cardFaults>>
      BY <1>10 DEF Card!Replicate, Card!tables, Card!events
  <2> QED
      BY <2>1
<1> QED
    BY <1>1, <1>2, <1>3, <1>4, <1>5, <1>6, <1>7, <1>8, <1>9, <1>10
    DEF Card!Next, Card!Serve

-----------------------------------------------------------------------------
(* The streams that watch a card.                                             *)

Changes == 1..MaxChanges
StreamStates ==
    [at : {"none", "snapshot", "loop", "done", "failed", "too slow"}, ch : Seq(Changes),
     closed : BOOLEAN, sent : Seq(Changes), since : Nat]
Open(x) == x.at \in {"snapshot", "loop"} /\ ~x.closed

\* What a stream in the state x has given and what lies in its channel are the
\* notices that were said since it came, all of them while its channel is open.
Given(x, said) ==
    /\ Len(x.ch) <= BufferSize
    /\ x.since + Len(x.sent) + Len(x.ch) <= Len(said)
    /\ Open(x) => x.since + Len(x.sent) + Len(x.ch) = Len(said)
    /\ \A i \in 1..Len(x.sent) : x.sent[i] = said[x.since + i]
    /\ \A i \in 1..Len(x.ch) : x.ch[i] = said[x.since + Len(x.sent) + i]
    /\ x.at = "none" => ~x.closed /\ x.sent = <<>> /\ x.ch = <<>>

WatchInv ==
    /\ applied \in 0..MaxChanges
    /\ notices \in Seq(Changes)
    /\ stream \in [Streams -> StreamStates]
    /\ subs = {s \in Streams : Open(stream[s])}
    /\ \A s \in Streams : Given(stream[s], notices)

\* Where in the notices the sent and the waiting ones of a stream lie.
LEMMA GivenSays ==
    ASSUME NEW said \in Seq(Changes), NEW x \in StreamStates, Given(x, said)
    PROVE  /\ x.since \in Nat /\ Len(x.sent) \in Nat /\ Len(x.ch) \in Nat /\ Len(said) \in Nat
           /\ \A i \in 1..Len(x.sent) : x.since + i \in 1..Len(said) /\ x.sent[i] = said[x.since + i]
           /\ \A i \in 1..Len(x.ch) : /\ x.since + Len(x.sent) + i \in 1..Len(said)
                                      /\ x.ch[i] = said[x.since + Len(x.sent) + i]
<1>1. x.ch \in Seq(Changes) /\ x.sent \in Seq(Changes) /\ x.since \in Nat
    BY DEF StreamStates
<1>2. PICK a \in Nat, n \in Nat, m \in Nat, k \in Nat :
          x.since = a /\ Len(x.sent) = n /\ Len(x.ch) = m /\ Len(said) = k
    BY <1>1
<1>3. a + n + m <= k
    BY <1>2 DEF Given
<1>4. /\ \A i \in 1..n : a + i \in 1..k
      /\ \A i \in 1..m : a + n + i \in 1..k
    BY <1>3
<1> QED
    BY <1>2, <1>4 DEF Given

\* What was given stays so when more is said, to who does not have to be given it.
LEMMA GivenMore ==
    ASSUME NEW said \in Seq(Changes), NEW change \in Changes, NEW x \in StreamStates,
           Given(x, said), NEW y \in StreamStates, ~Open(y), y.ch = x.ch, y.sent = x.sent,
           y.since = x.since, y.at = x.at, y.at = "none" => ~y.closed
    PROVE  Given(y, Append(said, change))
<1> DEFINE more == Append(said, change)
<1>1. Len(more) = Len(said) + 1 /\ \A i \in 1..Len(said) : more[i] = said[i]
    OBVIOUS
<1>2. x.ch \in Seq(Changes) /\ x.sent \in Seq(Changes) /\ x.since \in Nat
    BY DEF StreamStates
<1> HIDE DEF more
<1>3. \A i \in 1..Len(y.sent) : y.sent[i] = more[y.since + i]
  <2> TAKE i \in 1..Len(y.sent)
  <2>1. x.since + i \in 1..Len(said) /\ x.sent[i] = said[x.since + i]
      BY GivenSays
  <2> QED
      BY <1>1, <2>1
<1>4. \A i \in 1..Len(y.ch) : y.ch[i] = more[y.since + Len(y.sent) + i]
  <2> TAKE i \in 1..Len(y.ch)
  <2>1. /\ x.since + Len(x.sent) + i \in 1..Len(said)
        /\ x.ch[i] = said[x.since + Len(x.sent) + i]
      BY GivenSays
  <2> QED
      BY <1>1, <2>1
<1>5. Len(y.ch) <= BufferSize /\ y.since + Len(y.sent) + Len(y.ch) <= Len(more)
    BY <1>1, <1>2 DEF Given
<1>6. y.at = "none" => ~y.closed /\ y.sent = <<>> /\ y.ch = <<>>
    BY DEF Given
<1>7. Given(y, more)
    BY <1>3, <1>4, <1>5, <1>6 DEF Given
<1> QED
    BY <1>7 DEF more

\* A notice is put into the channel of an open stream, which is closed when it is full.
LEMMA GivenNotified ==
    ASSUME BufferSize \in Nat \ {0}, NEW said \in Seq(Changes), NEW change \in Changes,
           NEW s \in Streams, stream[s] \in StreamStates, Open(stream[s]), Given(stream[s], said)
    PROVE  /\ Watch!Notified(s, change) \in StreamStates
           /\ Given(Watch!Notified(s, change), Append(said, change))
           /\ Open(Watch!Notified(s, change)) <=> Len(stream[s].ch) < BufferSize
<1> DEFINE x == stream[s]
           y == Watch!Notified(s, change)
           more == Append(said, change)
<1>1. /\ more \in Seq(Changes) /\ Len(more) = Len(said) + 1 /\ more[Len(said) + 1] = change
      /\ \A i \in 1..Len(said) : more[i] = said[i]
    OBVIOUS
<1>2. x.ch \in Seq(Changes) /\ x.sent \in Seq(Changes) /\ x.since \in Nat
    BY DEF StreamStates
<1> HIDE DEF more
<1>3. CASE Len(x.ch) < BufferSize
  <2> DEFINE c == Append(x.ch, change)
  <2>1. /\ c \in Seq(Changes) /\ Len(c) = Len(x.ch) + 1 /\ c[Len(x.ch) + 1] = change
        /\ \A i \in 1..Len(x.ch) : c[i] = x.ch[i]
      BY <1>2
  <2>2. y = [x EXCEPT !.ch = c]
      BY <1>3 DEF Watch!Notified
  <2>0. x \in StreamStates
      OBVIOUS
  <2> HIDE DEF c, y, x
  <2>3. /\ y \in StreamStates /\ y.ch = c /\ y.sent = x.sent
        /\ y.since = x.since /\ y.at = x.at /\ y.closed = x.closed
      BY <2>1, <2>2, <1>2, stream[s] \in StreamStates DEF StreamStates, x
  <2>4. Open(y) /\ Open(x) /\ Given(x, said)
      BY <2>3 DEF Open, x
  <2>5. /\ Len(x.ch) \in Nat /\ Len(x.sent) \in Nat /\ Len(said) \in Nat
        /\ x.since + Len(x.sent) + Len(x.ch) = Len(said) /\ x.since \in Nat
      BY <1>2, <2>4 DEF Given
  <2>6. \A i \in 1..Len(y.ch) : y.ch[i] = more[y.since + Len(y.sent) + i]
    <3> TAKE i \in 1..Len(y.ch)
    <3>1. CASE i = Len(x.ch) + 1
      <4>1. x.since + Len(x.sent) + i = Len(said) + 1
        <5>1. PICK a \in Nat, n \in Nat, m \in Nat, k \in Nat :
                  x.since = a /\ Len(x.sent) = n /\ Len(x.ch) = m /\ Len(said) = k
            BY <2>5
        <5>2. a + n + m = k
            BY <2>5, <5>1
        <5>3. a + n + (m + 1) = k + 1
            BY <5>2
        <5> QED
            BY <3>1, <5>1, <5>3
      <4> QED
          BY <1>1, <2>1, <2>3, <3>1, <4>1
    <3>2. CASE i \in 1..Len(x.ch)
      <4>1. /\ x.since + Len(x.sent) + i \in 1..Len(said)
            /\ x.ch[i] = said[x.since + Len(x.sent) + i]
          BY <2>0, <2>4, <3>2, GivenSays
      <4> QED
          BY <1>1, <2>1, <2>3, <3>2, <4>1
    <3> QED
        BY <1>2, <2>1, <2>3, <3>1, <3>2
  <2>7. \A i \in 1..Len(y.sent) : y.sent[i] = more[y.since + i]
    <3> TAKE i \in 1..Len(y.sent)
    <3>1. x.since + i \in 1..Len(said) /\ x.sent[i] = said[x.since + i]
        BY <2>0, <2>3, <2>4, GivenSays
    <3> QED
        BY <1>1, <2>3, <3>1
  <2>8. /\ Len(y.ch) <= BufferSize /\ y.since + Len(y.sent) + Len(y.ch) = Len(more)
        /\ y.since + Len(y.sent) + Len(y.ch) <= Len(more)
    <3>1. Len(more) = Len(said) + 1 /\ Len(y.ch) = Len(x.ch) + 1
        BY <1>1, <2>1, <2>3
    <3>2. y.since = x.since /\ Len(y.sent) = Len(x.sent)
        BY <2>3
    <3>3. Len(x.ch) + 1 <= BufferSize
      <4>1. PICK m \in Nat : Len(x.ch) = m
          BY <2>5
      <4> QED
          BY <1>3, <4>1
    <3>4. x.since + Len(x.sent) + (Len(x.ch) + 1) = Len(said) + 1
        BY <2>5
    <3>5. Len(said) + 1 <= Len(said) + 1
      <4>1. PICK k \in Nat : Len(said) = k
          BY <2>5
      <4>2. k + 1 <= k + 1
          OBVIOUS
      <4> QED
          BY <4>1, <4>2
    <3> QED
        BY <3>1, <3>2, <3>3, <3>4, <3>5
  <2>9. y.at # "none"
      BY <2>4 DEF Open
  <2>10. Given(y, more)
      BY <2>6, <2>7, <2>8, <2>9 DEF Given
  <2> QED
      BY <1>3, <2>3, <2>4, <2>10 DEF x, y, more
<1>4. CASE ~(Len(x.ch) < BufferSize)
  <2>1. y = [x EXCEPT !.closed = TRUE]
      BY <1>4 DEF Watch!Notified
  <2> HIDE DEF y, x
  <2>2. /\ y \in StreamStates /\ y.ch = x.ch /\ y.sent = x.sent
        /\ y.since = x.since /\ y.at = x.at /\ y.closed
      BY <2>1, stream[s] \in StreamStates DEF StreamStates, x
  <2>3. Given(x, said) /\ Open(x)
      BY DEF x
  <2>4. ~Open(y) /\ y.at # "none" /\ x \in StreamStates
      BY <2>2, <2>3, stream[s] \in StreamStates DEF Open, x
  <2>5. Given(y, more)
      BY <2>2, <2>3, <2>4, GivenMore DEF more
  <2> QED
      BY <1>4, <2>2, <2>4, <2>5 DEF x, y, more
<1> QED
    BY <1>3, <1>4

\* A stream hands on the head of its channel.
LEMMA GivenOn ==
    ASSUME NEW said \in Seq(Changes), NEW x \in StreamStates, x.ch # <<>>, x.at = "loop",
           Given(x, said), NEW y, y = [x EXCEPT !.ch = Tail(@), !.sent = Append(@, Head(x.ch))]
    PROVE  y \in StreamStates /\ Given(y, said) /\ (Open(y) <=> Open(x))
<1>1. x.ch \in Seq(Changes) /\ x.sent \in Seq(Changes) /\ x.since \in Nat
    BY DEF StreamStates
<1> DEFINE c == Tail(x.ch)
           d == Append(x.sent, Head(x.ch))
<1>2. /\ c \in Seq(Changes) /\ Len(c) = Len(x.ch) - 1 /\ \A i \in 1..Len(c) : c[i] = x.ch[i + 1]
      /\ d \in Seq(Changes) /\ Len(d) = Len(x.sent) + 1 /\ d[Len(x.sent) + 1] = x.ch[1]
      /\ \A i \in 1..Len(x.sent) : d[i] = x.sent[i]
    BY <1>1
<1>3. y = [x EXCEPT !.ch = c, !.sent = d]
    OBVIOUS
<1> HIDE DEF c, d
<1>4. /\ y \in StreamStates /\ y.ch = c /\ y.sent = d
      /\ y.since = x.since /\ y.at = x.at /\ y.closed = x.closed
    BY <1>2, <1>3 DEF StreamStates
<1>5. /\ x.since \in Nat /\ Len(x.ch) \in Nat \ {0} /\ Len(x.sent) \in Nat
      /\ Len(c) \in Nat /\ Len(d) \in Nat
      /\ Len(c) = Len(x.ch) - 1 /\ Len(d) = Len(x.sent) + 1
    BY <1>1, <1>2
<1>6. \A i \in 1..Len(x.ch) : x.ch[i] = said[x.since + Len(x.sent) + i]
    BY DEF Given
<1>7. \A i \in 1..Len(d) : d[i] = said[x.since + i]
  <2> TAKE i \in 1..Len(d)
  <2>1. CASE i = Len(x.sent) + 1
    <3>1. x.ch[1] = said[x.since + Len(x.sent) + 1]
        BY <1>5, <1>6
    <3>2. x.since + Len(x.sent) + 1 = x.since + i
        BY <1>1, <1>5, <2>1
    <3> QED
        BY <1>2, <2>1, <3>1, <3>2
  <2>2. CASE i \in 1..Len(x.sent)
      BY <1>2, <2>2 DEF Given
  <2> QED
      BY <1>2, <1>5, <2>1, <2>2
<1>8. \A i \in 1..Len(c) : c[i] = said[x.since + Len(d) + i]
  <2> TAKE i \in 1..Len(c)
  <2>1. i + 1 \in 1..Len(x.ch) /\ c[i] = x.ch[i + 1]
    <3>1. PICK m \in Nat : Len(x.ch) = m /\ Len(c) = m - 1
        BY <1>5
    <3>2. i + 1 \in 1..m
        BY <3>1
    <3> QED
        BY <1>2, <3>1, <3>2
  <2>2. x.ch[i + 1] = said[x.since + Len(x.sent) + (i + 1)]
      BY <1>6, <2>1
  <2>3. x.since + Len(x.sent) + (i + 1) = x.since + Len(d) + i
    <3>1. PICK a \in Nat, n \in Nat :
              i \in Nat /\ x.since = a /\ Len(x.sent) = n /\ Len(d) = n + 1
        BY <1>5
    <3>2. a + n + (i + 1) = a + (n + 1) + i
        BY <3>1
    <3> QED
        BY <3>1, <3>2
  <2> QED
      BY <2>1, <2>2, <2>3
<1>9. /\ Len(c) <= BufferSize /\ x.since + Len(d) + Len(c) <= Len(said)
      /\ Open(y) => x.since + Len(d) + Len(c) = Len(said)
  <2>1. /\ Len(x.ch) <= BufferSize /\ x.since + Len(x.sent) + Len(x.ch) <= Len(said)
        /\ Open(x) => x.since + Len(x.sent) + Len(x.ch) = Len(said)
      BY DEF Given
  <2>2. Len(said) \in Nat /\ BufferSize \in Nat
      BY CardsAssumption DEF Watch!HubAssumption
  <2>3. Open(y) => Open(x)
      BY <1>4 DEF Open
  <2>4. Len(x.ch) - 1 <= BufferSize
      BY <1>5, <2>1, <2>2
  <2>5. x.since + (Len(x.sent) + 1) + (Len(x.ch) - 1) = x.since + Len(x.sent) + Len(x.ch)
      BY <1>5
  <2> QED
      BY <1>5, <2>1, <2>3, <2>4, <2>5
<1>10. Given(y, said)
    BY <1>4, <1>7, <1>8, <1>9 DEF Given
<1> QED
    BY <1>4, <1>10 DEF Open

\* A step of one stream, which comes into the hub or leaves it as its channel opens
\* or its call ends.
LEMMA StreamMoves ==
    ASSUME WatchInv, NEW s \in Streams, NEW y \in StreamStates, Given(y, notices),
           stream' = [stream EXCEPT ![s] = y],
           subs' = IF Open(y) THEN subs \cup {s} ELSE subs \ {s},
           UNCHANGED <<applied, notices>>
    PROVE  WatchInv'
<1>1. /\ stream' \in [Streams -> StreamStates] /\ stream'[s] = y
      /\ \A t \in Streams \ {s} : stream'[t] = stream[t]
    BY DEF WatchInv
<1>2. subs' = {t \in Streams : Open(stream'[t])}
    BY <1>1 DEF WatchInv
<1>3. \A t \in Streams : Given(stream'[t], notices)
    BY <1>1 DEF WatchInv
<1> QED
    BY <1>1, <1>2, <1>3 DEF WatchInv

\* A call that ends takes its subscription with it.
LEMMA StreamEnds ==
    ASSUME WatchInv, NEW s \in Streams, stream[s].at \in {"snapshot", "loop"},
           NEW how \in {"done", "failed", "too slow"}, Watch!Return(s, how),
           UNCHANGED <<applied, notices>>
    PROVE  WatchInv'
<1> DEFINE y == [stream[s] EXCEPT !.at = how]
<1>1. stream[s] \in StreamStates /\ Given(stream[s], notices)
    BY DEF WatchInv
<1>2. /\ y \in StreamStates /\ y.at = how /\ y.ch = stream[s].ch /\ y.sent = stream[s].sent
      /\ y.since = stream[s].since /\ y.closed = stream[s].closed
    BY <1>1 DEF StreamStates
<1>3. stream' = [stream EXCEPT ![s] = y] /\ subs' = subs \ {s}
    BY DEF Watch!Return
<1> HIDE DEF y
<1>4. ~Open(y) /\ Given(y, notices)
    BY <1>1, <1>2 DEF Given, Open
<1> QED
    BY <1>2, <1>3, <1>4, StreamMoves

\* A notice goes to every open channel, and closes the full ones.
LEMMA NotifyKeeps ==
    ASSUME WatchInv, NEW change \in Changes, Watch!Notify(change)
    PROVE  WatchInv'
<1>1. /\ notices' = Append(notices, change) /\ applied' = applied
      /\ stream' = [s \in Streams |-> IF s \in subs THEN Watch!Notified(s, change) ELSE stream[s]]
      /\ subs' = {s \in subs : Len(stream[s].ch) < BufferSize}
    BY DEF Watch!Notify
<1>2. BufferSize \in Nat \ {0} /\ notices' \in Seq(Changes)
    BY <1>1, CardsAssumption DEF WatchInv, Watch!HubAssumption
<1>3. ASSUME NEW s \in Streams
      PROVE  /\ stream'[s] \in StreamStates /\ Given(stream'[s], notices')
             /\ s \in subs' <=> Open(stream'[s])
  <2>1. /\ stream[s] \in StreamStates /\ Given(stream[s], notices) /\ notices \in Seq(Changes)
        /\ s \in subs <=> Open(stream[s])
      BY DEF WatchInv
  <2>2. CASE s \in subs
    <3>1. stream'[s] = Watch!Notified(s, change)
        BY <1>1, <2>2
    <3> QED
        BY <1>1, <1>2, <2>1, <2>2, <3>1, GivenNotified
  <2>3. CASE s \notin subs
    <3>1. stream'[s] = stream[s] /\ ~Open(stream[s])
        BY <1>1, <2>1, <2>3
    <3>2. stream[s].at = "none" => ~stream[s].closed
        BY <2>1 DEF Given
    <3> QED
        BY <1>1, <2>1, <2>3, <3>1, <3>2, GivenMore
  <2> QED
      BY <2>2, <2>3
<1>4. stream' \in [Streams -> StreamStates]
    BY <1>1, <1>3
<1>5. subs' = {s \in Streams : Open(stream'[s])}
    BY <1>1, <1>3 DEF WatchInv
<1> QED
    BY <1>1, <1>2, <1>3, <1>4, <1>5 DEF WatchInv

\* A stream that subscribes is given what is said from then on.
LEMMA SubscribeKeeps ==
    ASSUME WatchInv, NEW s \in Streams, Watch!Subscribe(s)
    PROVE  WatchInv'
<1> DEFINE y == [stream[s] EXCEPT !.at = "snapshot", !.since = Len(notices)]
<1>1. stream[s] \in StreamStates /\ Given(stream[s], notices) /\ notices \in Seq(Changes)
    BY DEF WatchInv
<1>2. /\ stream[s].at = "none" /\ subs' = subs \cup {s} /\ UNCHANGED <<applied, notices>>
      /\ stream' = [stream EXCEPT ![s] = y]
    BY <1>1 DEF Watch!Subscribe, WatchInv
<1>3. /\ y \in StreamStates /\ y.at = "snapshot" /\ y.ch = stream[s].ch /\ y.sent = stream[s].sent
      /\ y.since = Len(notices) /\ y.closed = stream[s].closed
  <2>1. Len(notices) \in Nat
      BY <1>1
  <2> QED
      BY <1>1, <2>1 DEF StreamStates
<1> HIDE DEF y
<1>4. Open(y) /\ Given(y, notices)
  <2>1. y.ch = <<>> /\ y.sent = <<>> /\ ~y.closed /\ y.at = "snapshot" /\ Len(notices) \in Nat
      BY <1>1, <1>2, <1>3 DEF Given
  <2>2. Len(y.ch) = 0 /\ Len(y.sent) = 0
      BY <2>1
  <2> QED
      BY <1>3, <2>1, <2>2, CardsAssumption DEF Given, Open, Watch!HubAssumption
<1> QED
    BY <1>2, <1>3, <1>4, StreamMoves

\* A snapshot, sent or failed, takes nothing out of a channel.
LEMMA SnapshotKeeps ==
    ASSUME WatchInv, NEW s \in Streams, Watch!Snapshot(s)
    PROVE  WatchInv'
<1> DEFINE y == [stream[s] EXCEPT !.at = "loop"]
<1>1. stream[s] \in StreamStates /\ Given(stream[s], notices)
    BY DEF WatchInv
<1>2. stream[s].at = "snapshot" /\ UNCHANGED <<applied, notices>>
    BY DEF Watch!Snapshot
<1>3. CASE stream' = [stream EXCEPT ![s].at = "loop"] /\ UNCHANGED subs
  <2>1. /\ y \in StreamStates /\ y.at = "loop" /\ y.ch = stream[s].ch /\ y.sent = stream[s].sent
        /\ y.since = stream[s].since /\ y.closed = stream[s].closed
      BY <1>1 DEF StreamStates
  <2>2. stream' = [stream EXCEPT ![s] = y]
      BY <1>3
  <2> HIDE DEF y
  <2>3. (Open(y) <=> Open(stream[s])) /\ Given(y, notices)
      BY <1>1, <1>2, <2>1 DEF Given, Open
  <2>4. subs' = IF Open(y) THEN subs \cup {s} ELSE subs \ {s}
      BY <1>3, <2>3 DEF WatchInv
  <2> QED
      BY <1>2, <2>1, <2>2, <2>3, <2>4, StreamMoves
<1>4. CASE Watch!Return(s, "failed")
    BY <1>2, <1>4, StreamEnds
<1> QED
    BY <1>3, <1>4 DEF Watch!Snapshot

\* A stream sends the head of its channel, or ends.
LEMMA LoopKeeps ==
    ASSUME WatchInv, NEW s \in Streams, Watch!Loop(s) \/ Watch!Leave(s)
    PROVE  WatchInv'
<1> DEFINE y == [stream[s] EXCEPT !.ch = Tail(@), !.sent = Append(@, Head(stream[s].ch))]
<1>1. stream[s] \in StreamStates /\ Given(stream[s], notices) /\ notices \in Seq(Changes)
    BY DEF WatchInv
<1>2. stream[s].at = "loop" /\ UNCHANGED <<applied, notices>>
    BY DEF Watch!Loop, Watch!Leave
<1>3. CASE /\ stream[s].ch # <<>> /\ UNCHANGED subs
           /\ stream' = [stream EXCEPT ![s].ch = Tail(@), ![s].sent = Append(@, Head(stream[s].ch))]
  <2>1. y \in StreamStates /\ Given(y, notices) /\ (Open(y) <=> Open(stream[s]))
      BY <1>1, <1>2, <1>3, GivenOn
  <2>2. stream' = [stream EXCEPT ![s] = y]
      BY <1>3 DEF WatchInv
  <2> HIDE DEF y
  <2>3. subs' = IF Open(y) THEN subs \cup {s} ELSE subs \ {s}
      BY <1>3, <2>1 DEF WatchInv
  <2> QED
      BY <1>2, <2>1, <2>2, <2>3, StreamMoves
<1>4. ASSUME NEW how \in {"done", "failed", "too slow"}, Watch!Return(s, how)
      PROVE  WatchInv'
    BY <1>2, <1>4, StreamEnds
<1> QED
    BY <1>3, <1>4 DEF Watch!Loop, Watch!Leave

\* Every step of the hub and its streams keeps their invariant.
LEMMA WatchStep ==
    ASSUME WatchInv, Watch!Next
    PROVE  WatchInv'
<1>1. CASE Watch!Apply
    BY <1>1, CardsAssumption DEF WatchInv, Watch!Apply, Watch!HubAssumption
<1> QED
    BY <1>1, NotifyKeeps, SubscribeKeeps, SnapshotKeeps, LoopKeeps DEF Watch!Next, Changes

-----------------------------------------------------------------------------
(* The pages of the two feeds.                                                *)

KeyStates == [at : {"key"}, rank : Ranks, id : Items]

\* A walk under which no score moves: what it has shown is there, in the order of the
\* feed, up to its cursor; and what was there at its start has been shown, or comes
\* after the cursor.
WalkInv ==
    /\ rank \in [Items -> Feeds!RankOf]
    /\ cursor \in {Feeds!Start, Feeds!End} \cup KeyStates
    /\ seen \in Seq(Items)
    /\ \A m \in 1..Len(seen) : rank[seen[m]] # {}
    /\ first \subseteq Feeds!Shown
    /\ Feeds!SeenOnce
    /\ cursor = Feeds!Start => seen = <<>> /\ first = {}
    /\ cursor.at = "key" => Len(seen) > 0 /\ cursor = Feeds!Key(seen[Len(seen)])
    /\ \A i \in first :
          \/ \E m \in 1..Len(seen) : seen[m] = i
          \/ cursor.at = "key" /\ Feeds!Before(cursor, Feeds!Key(i))

PagesInv ==
    /\ Feeds!TypeOK
    /\ moved => feed = "search" /\ cursor # Feeds!Start
    /\ ~moved => WalkInv

\* The key of a card that is there.
LEMMA KeyFacts ==
    ASSUME rank \in [Items -> Feeds!RankOf], NEW i \in Feeds!Shown
    PROVE  i \in Items /\ rank[i] # {} /\ Feeds!Key(i) \in KeyStates
<1>1. i \in Items /\ rank[i] # {}
    BY DEF Feeds!Shown
<1>2. PICK r \in Ranks : rank[i] = {r}
    BY <1>1 DEF Feeds!RankOf
<1> QED
    BY <1>1, <1>2 DEF Feeds!Key, KeyStates

\* Both orders are transitive.
LEMMA BeforeTransitive ==
    ASSUME NEW k \in KeyStates, NEW l \in KeyStates, NEW m \in KeyStates,
           Feeds!Before(k, l), Feeds!Before(l, m)
    PROVE  Feeds!Before(k, m)
<1>1. \A x \in KeyStates : x.rank \in Nat /\ x.id \in Nat
    BY CardsAssumption DEF KeyStates, Feeds!PagesAssumption
<1>2. k.rank \in Nat /\ l.rank \in Nat /\ m.rank \in Nat /\ k.id \in Nat /\ l.id \in Nat /\ m.id \in Nat
    BY <1>1
<1> QED
    BY <1>2 DEF Feeds!Before, Feeds!ListOrder, Feeds!SearchOrder

\* A card appears: it is no card of the walk, whose keys stay.
LEMMA AppearKeeps ==
    ASSUME WalkInv, NEW i \in Items, Feeds!Appear(i)
    PROVE  WalkInv'
<1>1. PICK r \in Ranks : rank' = [rank EXCEPT ![i] = {r}]
    BY DEF Feeds!Appear
<1>2. rank[i] = {} /\ UNCHANGED <<feed, cursor, seen, first>>
    BY DEF Feeds!Appear
<1>3. /\ rank' \in [Items -> Feeds!RankOf]
      /\ \A j \in Items : rank[j] # {} => rank'[j] = rank[j]
    BY <1>1, <1>2 DEF WalkInv, Feeds!RankOf
<1>4. \A j \in Items : rank[j] # {} => Feeds!Key(j)' = Feeds!Key(j)
    BY <1>3 DEF Feeds!Key
<1>5. \A k, l : Feeds!Before(k, l)' <=> Feeds!Before(k, l)
    BY <1>2 DEF Feeds!Before, Feeds!ListOrder, Feeds!SearchOrder
<1>6. \A m \in 1..Len(seen) : seen[m] \in Items /\ rank[seen[m]] # {}
    BY DEF WalkInv
<1>7. Feeds!SeenOnce'
    BY <1>2, <1>4, <1>5, <1>6 DEF WalkInv, Feeds!SeenOnce
<1>8. first' \subseteq Feeds!Shown'
    BY <1>2, <1>3 DEF WalkInv, Feeds!Shown
<1>9. cursor'.at = "key" => Len(seen') > 0 /\ cursor' = Feeds!Key(seen[Len(seen)])'
    BY <1>2, <1>4, <1>6 DEF WalkInv
<1>10. \A j \in first' :
          \/ \E m \in 1..Len(seen') : seen'[m] = j
          \/ cursor'.at = "key" /\ Feeds!Before(cursor, Feeds!Key(j))'
    BY <1>2, <1>4, <1>5 DEF WalkInv, Feeds!Shown
<1> QED
    BY <1>2, <1>3, <1>6, <1>7, <1>8, <1>9, <1>10 DEF WalkInv

\* What a query may answer.
LEMMA FetchedFacts ==
    ASSUME NEW limit \in Nat \ {0}, NEW rows \in Feeds!Fetched(limit)
    PROVE  /\ rows \in Seq(Feeds!After) /\ Len(rows) \in 0..(limit + 1)
           /\ \A m, n \in 1..Len(rows) : m < n => Feeds!Before(Feeds!Key(rows[m]), Feeds!Key(rows[n]))
           /\ \A i \in Feeds!After : \/ \E m \in 1..Len(rows) : rows[m] = i
                                     \/ /\ Len(rows) = limit + 1
                                        /\ Feeds!Before(Feeds!Key(rows[limit]), Feeds!Key(i))
<1>1. PICK n \in 0..(limit + 1) : rows \in [1..n -> Feeds!After]
    BY DEF Feeds!Fetched, Feeds!SeqOf
<1>2. rows \in Seq(Feeds!After) /\ Len(rows) = n
    BY <1>1
<1>3. ASSUME NEW i \in Feeds!After, ~\E m \in 1..Len(rows) : rows[m] = i
      PROVE  Len(rows) = limit + 1 /\ Feeds!Before(Feeds!Key(rows[limit]), Feeds!Key(i))
  <2>1. i \in Feeds!After \ Feeds!ToSet(rows)
      BY <1>1, <1>2, <1>3 DEF Feeds!ToSet
  <2>2. Len(rows) = limit + 1 /\ limit \in 1..Len(rows)
      BY <2>1 DEF Feeds!Fetched
  <2> QED
      BY <2>1, <2>2 DEF Feeds!Fetched
<1> QED
    BY <1>1, <1>2, <1>3 DEF Feeds!Fetched

\* A limit that is resolved is one a page can have.
LEMMA LimitFacts ==
    ASSUME NEW asked \in Asked
    PROVE  /\ Feeds!ListLimit(asked) \in Nat \ {0}
           /\ Feeds!ResolveLimit(asked) \in Nat \ {0}
<1>1. asked \in Int /\ MaxLimit \in Nat /\ DefaultLimit \in 1..MaxLimit
    BY CardsAssumption DEF Feeds!PagesAssumption
<1> QED
    BY <1>1 DEF Feeds!ListLimit, Feeds!ResolveLimit

\* The page is the first of the rows, and the cursor its last card when there is more.
LEMMA TrimFacts ==
    ASSUME NEW limit \in Nat \ {0}, NEW S, NEW rows \in Seq(S), Len(rows) \in 0..(limit + 1)
    PROVE  LET page == Feeds!TrimPage(rows, limit).page
               next == Feeds!TrimPage(rows, limit).next
           IN  /\ page \in Seq(S) /\ Len(page) <= Len(rows)
               /\ \A m \in 1..Len(page) : page[m] = rows[m]
               /\ \/ next = Feeds!End /\ Len(page) = Len(rows) /\ Len(rows) <= limit
                  \/ next = Feeds!Key(rows[limit]) /\ Len(page) = limit /\ Len(rows) = limit + 1
<1>1. CASE Len(rows) <= limit
    BY <1>1 DEF Feeds!TrimPage
<1>2. CASE Len(rows) = limit + 1
  <2> DEFINE page == SubSeq(rows, 1, limit)
  <2>1. page \in Seq(S) /\ Len(page) = limit /\ \A m \in 1..limit : page[m] = rows[m]
      BY <1>2
  <2>2. /\ Feeds!TrimPage(rows, limit).page = page
        /\ Feeds!TrimPage(rows, limit).next = Feeds!Key(rows[limit])
      BY <1>2 DEF Feeds!TrimPage
  <2> HIDE DEF page
  <2> QED
      BY <1>2, <2>1, <2>2
<1> QED
    BY <1>1, <1>2

\* A page: what is after the cursor follows what was shown, and what it leaves out
\* comes after its last card.
LEMMA PageKeeps ==
    ASSUME WalkInv, NEW asked \in Asked, Feeds!Page(asked)
    PROVE  WalkInv'
<1>1. PICK limit \in Nat \ {0} :
          \E rows \in Feeds!Fetched(limit) :
              /\ seen' = seen \o Feeds!TrimPage(rows, limit).page
              /\ cursor' = Feeds!TrimPage(rows, limit).next
    BY LimitFacts DEF Feeds!Page
<1>2. PICK rows \in Feeds!Fetched(limit) :
          /\ seen' = seen \o Feeds!TrimPage(rows, limit).page
          /\ cursor' = Feeds!TrimPage(rows, limit).next
    BY <1>1
<1>3. /\ cursor # Feeds!End /\ feed' = feed /\ rank' = rank
      /\ first' = IF cursor = Feeds!Start THEN Feeds!Shown ELSE first
    BY DEF Feeds!Page
<1>4. /\ rows \in Seq(Feeds!After) /\ Len(rows) \in 0..(limit + 1)
      /\ \A m, n \in 1..Len(rows) : m < n => Feeds!Before(Feeds!Key(rows[m]), Feeds!Key(rows[n]))
      /\ \A i \in Feeds!After : \/ \E m \in 1..Len(rows) : rows[m] = i
                                \/ /\ Len(rows) = limit + 1
                                   /\ Feeds!Before(Feeds!Key(rows[limit]), Feeds!Key(i))
    BY FetchedFacts
<1> DEFINE page == Feeds!TrimPage(rows, limit).page
           n == Len(seen)
<1>5. /\ page \in Seq(Feeds!After) /\ Len(page) <= Len(rows)
      /\ \A m \in 1..Len(page) : page[m] = rows[m]
      /\ \/ cursor' = Feeds!End /\ Len(page) = Len(rows) /\ Len(rows) <= limit
         \/ cursor' = Feeds!Key(rows[limit]) /\ Len(page) = limit /\ Len(rows) = limit + 1
    BY <1>2, <1>4, TrimFacts
<1> HIDE DEF page
<1>6. Feeds!After \subseteq Feeds!Shown /\ Feeds!Shown \subseteq Items
    BY DEF Feeds!After, Feeds!Shown
<1>7. /\ seen \in Seq(Items) /\ page \in Seq(Items) /\ seen' = seen \o page
      /\ \A m \in 1..n : seen[m] \in Feeds!Shown
    BY <1>2, <1>5, <1>6 DEF WalkInv, Feeds!Shown, page
<1>8. /\ seen' \in Seq(Items) /\ Len(seen') = n + Len(page) /\ n \in Nat /\ Len(page) \in Nat
      /\ \A m \in 1..n : seen'[m] = seen[m]
      /\ \A m \in 1..Len(page) : seen'[n + m] = page[m]
      /\ \A m \in (n + 1)..(n + Len(page)) : seen'[m] = page[m - n] /\ m - n \in 1..Len(page)
    BY <1>7
<1>9. \A m \in 1..Len(seen') : seen'[m] \in Feeds!Shown
    BY <1>5, <1>6, <1>7, <1>8
<1>10. \A k, l : Feeds!Before(k, l)' <=> Feeds!Before(k, l)
    BY <1>3 DEF Feeds!Before, Feeds!ListOrder, Feeds!SearchOrder
<1>11. /\ \A i \in Items : Feeds!Key(i)' = Feeds!Key(i)
       /\ Feeds!Shown' = Feeds!Shown
    BY <1>3 DEF Feeds!Key, Feeds!Shown
<1>12. ASSUME NEW i \in 1..n, NEW j \in 1..Len(page)
       PROVE  Feeds!Before(Feeds!Key(seen[i]), Feeds!Key(page[j]))
  <2>1. cursor # Feeds!Start /\ cursor.at = "key"
      BY <1>3, <1>12 DEF WalkInv, KeyStates
  <2>2. cursor = Feeds!Key(seen[n]) /\ n \in 1..n
      BY <1>12, <2>1 DEF WalkInv
  <2>3. page[j] \in Feeds!Shown /\ Feeds!Before(cursor, Feeds!Key(page[j]))
      BY <1>5, <1>6, <2>1 DEF Feeds!After
  <2>4. CASE i = n
      BY <2>2, <2>3, <2>4
  <2>5. CASE i < n
    <3>1. Feeds!Before(Feeds!Key(seen[i]), Feeds!Key(seen[n]))
        BY <2>2, <2>5 DEF WalkInv, Feeds!SeenOnce
    <3> QED
        BY <1>7, <2>2, <2>3, <3>1, KeyFacts, BeforeTransitive DEF WalkInv
  <2> QED
      BY <1>8, <2>4, <2>5
<1>13. ASSUME NEW i \in 1..Len(seen'), NEW j \in 1..Len(seen'), i < j
       PROVE  Feeds!Before(Feeds!Key(seen'[i]), Feeds!Key(seen'[j]))
  <2>1. CASE j <= n
      BY <1>8, <1>13, <2>1 DEF WalkInv, Feeds!SeenOnce
  <2>2. CASE i <= n /\ j > n
    <3>1. i \in 1..n /\ j \in (n + 1)..(n + Len(page))
        BY <1>8, <2>2
    <3> QED
        BY <1>8, <1>12, <3>1
  <2>3. CASE i > n
    <3>1. /\ i \in (n + 1)..(n + Len(page)) /\ j \in (n + 1)..(n + Len(page))
          /\ i - n < j - n
        BY <1>8, <1>13, <2>3
    <3>2. ASSUME NEW m \in (n + 1)..(n + Len(page))
          PROVE  seen'[m] = rows[m - n] /\ m - n \in 1..Len(rows)
      <4>1. seen'[m] = page[m - n] /\ m - n \in 1..Len(page)
          BY <1>8
      <4>2. ASSUME NEW k \in 1..Len(page) PROVE page[k] = rows[k] /\ k \in 1..Len(rows)
          BY <1>5
      <4> QED
          BY <4>1, <4>2
    <3> QED
        BY <1>4, <3>1, <3>2
  <2> QED
      BY <1>8, <2>1, <2>2, <2>3
<1>14. Feeds!SeenOnce'
    BY <1>9, <1>6, <1>10, <1>11, <1>13 DEF Feeds!SeenOnce
<1>15. /\ cursor' \in {Feeds!End} \cup KeyStates
       /\ cursor'.at = "key" => /\ Len(seen') > 0 /\ cursor' = Feeds!Key(seen'[Len(seen')])
                                /\ cursor' = Feeds!Key(rows[limit])
  <2>1. CASE cursor' = Feeds!End
      BY <2>1 DEF Feeds!End
  <2>2. CASE cursor' = Feeds!Key(rows[limit]) /\ Len(page) = limit
    <3>1. /\ limit \in 1..Len(page) /\ page[limit] = rows[limit] /\ page[limit] \in Feeds!Shown
          /\ Len(seen') = n + limit /\ seen'[n + limit] = page[limit]
        BY <1>5, <1>6, <1>8, <2>2
    <3>2. Feeds!Key(rows[limit]) \in KeyStates
        BY <3>1, KeyFacts DEF WalkInv
    <3> QED
        BY <1>8, <2>2, <3>1, <3>2
  <2> QED
      BY <1>5, <2>1, <2>2
<1>16. ASSUME NEW i \in Feeds!After
       PROVE  \/ \E m \in 1..Len(seen') : seen'[m] = i
              \/ cursor'.at = "key" /\ Feeds!Before(cursor', Feeds!Key(i))
  <2>1. CASE \E m \in 1..Len(page) : rows[m] = i
    <3>1. PICK m \in 1..Len(page) : rows[m] = i
        BY <2>1
    <3>2. n + m \in 1..Len(seen') /\ seen'[n + m] = i
        BY <1>5, <1>8, <3>1
    <3> QED
        BY <3>2
  <2>2. CASE ~\E m \in 1..Len(page) : rows[m] = i
    <3>1. cursor' = Feeds!Key(rows[limit]) /\ Len(page) = limit /\ Len(rows) = limit + 1
        BY <1>4, <1>5, <1>16, <2>2
    <3>2. Feeds!Before(Feeds!Key(rows[limit]), Feeds!Key(i))
      <4>1. CASE \E m \in 1..Len(rows) : rows[m] = i
        <5>1. rows[limit + 1] = i /\ limit \in 1..Len(rows) /\ limit + 1 \in 1..Len(rows)
            BY <2>2, <3>1, <4>1
        <5> QED
            BY <1>4, <5>1
      <4>2. CASE ~\E m \in 1..Len(rows) : rows[m] = i
          BY <1>4, <1>16, <4>2
      <4> QED
          BY <4>1, <4>2
    <3>3. rows[limit] \in Feeds!Shown
        BY <1>4, <1>6, <3>1
    <3>4. cursor'.at = "key"
        BY <3>1, <3>3, KeyFacts DEF KeyStates, WalkInv
    <3> QED
        BY <3>1, <3>2, <3>4
  <2> QED
      BY <2>1, <2>2
<1>17. ASSUME NEW i \in first'
       PROVE  \/ \E m \in 1..Len(seen') : seen'[m] = i
              \/ cursor'.at = "key" /\ Feeds!Before(cursor', Feeds!Key(i))
  <2>1. CASE cursor = Feeds!Start
      BY <1>3, <1>16, <1>17, <2>1 DEF Feeds!After
  <2>2. CASE cursor # Feeds!Start
    <3>1. i \in first /\ i \in Feeds!Shown
        BY <1>3, <1>17, <2>2 DEF WalkInv
    <3>2. CASE \E m \in 1..n : seen[m] = i
        BY <1>8, <3>2
    <3>3. CASE Feeds!Before(cursor, Feeds!Key(i))
        BY <1>16, <3>1, <3>3 DEF Feeds!After
    <3> QED
        BY <3>1, <3>2, <3>3 DEF WalkInv
  <2> QED
      BY <2>1, <2>2
<1>18. first' \subseteq Feeds!Shown
    BY <1>3 DEF WalkInv
<1>19. cursor' # Feeds!Start
    BY <1>15 DEF Feeds!Start, Feeds!End, KeyStates
<1>20. /\ cursor'.at = "key" => Len(seen') > 0 /\ cursor' = Feeds!Key(seen[Len(seen)])'
       /\ \A i \in first' : \/ \E m \in 1..Len(seen') : seen'[m] = i
                            \/ cursor'.at = "key" /\ Feeds!Before(cursor, Feeds!Key(i))'
       /\ \A m \in 1..Len(seen') : rank'[seen'[m]] # {}
  <2>1. /\ \A m \in 1..Len(seen') : seen'[m] \in Items /\ rank[seen'[m]] # {}
        /\ first' \subseteq Items
      BY <1>6, <1>9, <1>18 DEF Feeds!Shown
  <2>2. cursor'.at = "key" => cursor' = Feeds!Key(seen[Len(seen)])'
    <3>1. CASE cursor'.at = "key"
      <4>1. Len(seen') \in 1..Len(seen')
          BY <1>8, <1>15, <3>1
      <4> QED
          BY <1>11, <1>15, <2>1, <3>1, <4>1
    <3> QED
        BY <3>1
  <2> QED
      BY <1>3, <1>10, <1>11, <1>15, <1>17, <2>1, <2>2
<1> QED
    BY <1>3, <1>8, <1>11, <1>14, <1>15, <1>18, <1>19, <1>20 DEF WalkInv

\* A page has the types of its feed, moved or not.
LEMMA PageTypes ==
    ASSUME Feeds!TypeOK, NEW asked \in Asked, Feeds!Page(asked)
    PROVE  Feeds!TypeOK' /\ cursor' # Feeds!Start
<1>1. PICK limit \in Nat \ {0} :
          \E rows \in Feeds!Fetched(limit) :
              /\ seen' = seen \o Feeds!TrimPage(rows, limit).page
              /\ cursor' = Feeds!TrimPage(rows, limit).next
    BY LimitFacts DEF Feeds!Page
<1>2. PICK rows \in Feeds!Fetched(limit) :
          /\ seen' = seen \o Feeds!TrimPage(rows, limit).page
          /\ cursor' = Feeds!TrimPage(rows, limit).next
    BY <1>1
<1>3. rows \in Seq(Feeds!After) /\ Len(rows) \in 0..(limit + 1)
    BY FetchedFacts
<1> DEFINE page == Feeds!TrimPage(rows, limit).page
<1>4. /\ page \in Seq(Feeds!After)
      /\ \/ cursor' = Feeds!End
         \/ cursor' = Feeds!Key(rows[limit]) /\ limit \in 1..Len(rows)
    BY <1>2, <1>3, TrimFacts
<1> HIDE DEF page
<1>5. Feeds!After \subseteq Feeds!Shown /\ Feeds!Shown \subseteq Items
    BY DEF Feeds!After, Feeds!Shown
<1>6. seen' \in Seq(Items)
    BY <1>2, <1>4, <1>5 DEF Feeds!TypeOK, page
<1>7. cursor' \in {Feeds!End} \cup KeyStates
    BY <1>3, <1>4, <1>5, KeyFacts DEF Feeds!TypeOK
<1>8. feed' = feed /\ rank' = rank /\ moved' = moved /\ first' \subseteq Items
    BY <1>5 DEF Feeds!Page, Feeds!TypeOK
<1> QED
    BY <1>6, <1>7, <1>8 DEF Feeds!TypeOK, KeyStates, Feeds!Start, Feeds!End

\* Scores that move before the first page move nothing of a walk.
LEMMA IndexedKeeps ==
    ASSUME PagesInv, NEW i \in Items, Feeds!Indexed(i)
    PROVE  PagesInv'
<1>1. PICK scores \in [Feeds!Shown \cup {i} -> Ranks] :
          rank' = [j \in Items |-> IF j \in Feeds!Shown \cup {i} THEN {scores[j]} ELSE {}]
    BY DEF Feeds!Indexed
<1>2. /\ feed = "search" /\ moved' = (cursor # Feeds!Start)
      /\ feed' = feed /\ cursor' = cursor /\ seen' = seen /\ first' = first
    BY DEF Feeds!Indexed
<1>3. rank' \in [Items -> Feeds!RankOf]
    BY <1>1 DEF Feeds!RankOf
<1>4. Feeds!TypeOK'
    BY <1>2, <1>3 DEF PagesInv, Feeds!TypeOK, Feeds!RankOf
<1>5. ASSUME ~moved' PROVE WalkInv'
  <2>1. cursor = Feeds!Start
      BY <1>2, <1>5
  <2>2. ~moved
      BY <2>1 DEF PagesInv
  <2>3. seen = <<>> /\ first = {}
      BY <2>1, <2>2 DEF PagesInv, WalkInv
  <2> QED
      BY <1>2, <1>3, <2>1, <2>3 DEF WalkInv, Feeds!Start, Feeds!SeenOnce
<1> QED
    BY <1>2, <1>4, <1>5 DEF PagesInv

\* Every step of a walk and of the cards keeps the invariant of the pages.
LEMMA PagesStep ==
    ASSUME PagesInv, Feeds!Next
    PROVE  PagesInv'
<1>1. ASSUME NEW i \in Items, Feeds!Appear(i) PROVE PagesInv'
  <2>1. /\ UNCHANGED <<feed, cursor, seen, first, moved>>
        /\ \E r \in Ranks : rank' = [rank EXCEPT ![i] = {r}]
      BY <1>1 DEF Feeds!Appear
  <2>2. Feeds!TypeOK'
      BY <2>1 DEF PagesInv, Feeds!TypeOK, Feeds!RankOf
  <2> QED
      BY <1>1, <2>1, <2>2, AppearKeeps DEF PagesInv
<1>2. ASSUME NEW asked \in Asked, Feeds!Page(asked) PROVE PagesInv'
  <2>1. feed' = feed /\ moved' = moved
      BY <1>2 DEF Feeds!Page
  <2> QED
      BY <1>2, <2>1, PageTypes, PageKeeps DEF PagesInv
<1> QED
    BY <1>1, <1>2, IndexedKeeps DEF Feeds!Next

-----------------------------------------------------------------------------
(* The parts together.                                                        *)

CardsInv == PhotoInv /\ LockInv /\ CardInv /\ WatchInv /\ PagesInv

\* No photo, no lock, and workers at rest.
LEMMA PhotoBegins == Photo!Init => PhotoInv /\ LockInv
<1> SUFFICES ASSUME Photo!Init PROVE PhotoInv /\ LockInv
    OBVIOUS
<1>1. Photo!Resting \in WorkerStates /\ Photo!Resting.at = "idle" /\ ~Photo!Resting.watched
    BY DEF Photo!Resting, WorkerStates
<1>2. PhotoTables
    BY DEF Photo!Init, PhotoTables, PhotoIsTrue, Count
<1>3. \A w \in Workers : worker[w] = Photo!Resting
    BY DEF Photo!Init
<1>4. \A w \in Workers : Knows(w, worker[w], Known, thumbnails)
    BY <1>1, <1>3 DEF Knows
<1>5. LockInv
  <2>1. ~Stale /\ ~Insecure /\ OneIsStale
      BY <1>1, <1>3 DEF Stale, Insecure, Secure, OneIsStale, Photo!Holding, Photo!Resting
  <2> QED
      BY <2>1 DEF LockInv, Count, Photo!Init
<1> QED
    BY <1>1, <1>2, <1>4, <1>5, CardsAssumption DEF Photo!Init, PhotoInv, Photo!PhotoAssumption

\* No claim and no handler.
LEMMA CardBegins == Card!Init => CardInv
<1> SUFFICES ASSUME Card!Init PROVE CardInv
    OBVIOUS
<1>1. Card!NoHandler \in HandlerStates /\ Card!NoHandler.at = "idle"
    BY DEF Card!NoHandler, HandlerStates
<1>2. Card!NoFlight \in FlightStates /\ Card!NoFlight.at = "idle"
    BY DEF Card!NoFlight, FlightStates, Card!Statuses
<1> QED
    BY <1>1, <1>2, CardsAssumption
    DEF Card!Init, CardInv, Card!CatalogAssumption, Card!Statuses, RecordStates, Count

\* No stream, and nothing said.
LEMMA WatchBegins == Watch!Init => WatchInv
<1> SUFFICES ASSUME Watch!Init PROVE WatchInv
    OBVIOUS
<1>1. Watch!NotYet \in StreamStates /\ ~Open(Watch!NotYet)
    BY DEF Watch!NotYet, StreamStates, Open
<1>2. Given(Watch!NotYet, <<>>)
    BY <1>1, CardsAssumption DEF Watch!NotYet, Given, Open, Watch!HubAssumption
<1> QED
    BY <1>1, <1>2, CardsAssumption DEF Watch!Init, WatchInv, Watch!HubAssumption

\* A walk that has not begun.
LEMMA PagesBegins == Feeds!Init => PagesInv
<1> SUFFICES ASSUME Feeds!Init PROVE PagesInv
    OBVIOUS
<1>1. seen = <<>> /\ Len(seen) = 0 /\ first = {} /\ cursor = Feeds!Start /\ cursor.at # "key"
    BY DEF Feeds!Init, Feeds!Start
<1>2. rank \in [Items -> Feeds!RankOf]
    BY DEF Feeds!Init, Feeds!RankOf
<1>3. Feeds!TypeOK /\ moved = FALSE
  <2>1. feed \in Feeds!FeedKinds /\ moved = FALSE
      BY DEF Feeds!Init
  <2>2. seen \in Seq(Items) /\ first \subseteq Items
      BY <1>1
  <2> QED
      BY <1>1, <1>2, <2>1, <2>2 DEF Feeds!TypeOK
<1>4. WalkInv
    BY <1>1, <1>2 DEF WalkInv, Feeds!SeenOnce
<1> QED
    BY <1>3, <1>4 DEF PagesInv

\* What the other parts do does not touch the photos and their locks,
LEMMA PhotoStays == PhotoInv /\ LockInv /\ UNCHANGED photoVars => PhotoInv' /\ LockInv'
<1> SUFFICES ASSUME PhotoInv, LockInv, UNCHANGED photoVars PROVE PhotoInv' /\ LockInv'
    OBVIOUS
<1>1. PhotoInv'
    BY DEF PhotoInv, photoVars, PhotoTables, PhotoIsTrue, Known, Knows
<1>2. UNCHANGED <<worker, lock>> /\ Photo!NoFault
    BY DEF photoVars, Photo!NoFault
<1> QED
    BY <1>1, <1>2, LocksStay

\* nor the cards,
LEMMA CardStays == CardInv /\ UNCHANGED cardVars => CardInv'
BY DEF CardInv, cardVars

\* nor the streams,
LEMMA WatchStays == WatchInv /\ UNCHANGED watchVars => WatchInv'
BY DEF WatchInv, watchVars

\* nor the pages.
LEMMA PagesStays == PagesInv /\ UNCHANGED pageVars => PagesInv'
<1> SUFFICES ASSUME PagesInv, UNCHANGED pageVars PROVE PagesInv'
    OBVIOUS
<1>1. /\ feed' = feed /\ rank' = rank /\ cursor' = cursor /\ seen' = seen /\ first' = first
      /\ moved' = moved
    BY DEF pageVars
<1>2. \A j : Feeds!Key(j)' = Feeds!Key(j)
    BY <1>1 DEF Feeds!Key
<1>3. \A k, l : Feeds!Before(k, l)' <=> Feeds!Before(k, l)
    BY <1>1 DEF Feeds!Before, Feeds!ListOrder, Feeds!SearchOrder
<1>4. ASSUME WalkInv PROVE WalkInv'
  <2>1. Feeds!SeenOnce'
      BY <1>1, <1>2, <1>3, <1>4 DEF WalkInv, Feeds!SeenOnce
  <2>2. first' \subseteq Feeds!Shown'
      BY <1>1, <1>4 DEF WalkInv, Feeds!Shown
  <2>3. cursor'.at = "key" => Len(seen') > 0 /\ cursor' = Feeds!Key(seen[Len(seen)])'
      BY <1>1, <1>2, <1>4 DEF WalkInv
  <2>4. \A j \in first' :
            \/ \E m \in 1..Len(seen') : seen'[m] = j
            \/ cursor'.at = "key" /\ Feeds!Before(cursor, Feeds!Key(j))'
      BY <1>1, <1>2, <1>3, <1>4 DEF WalkInv
  <2> QED
      BY <1>1, <1>4, <2>1, <2>2, <2>3, <2>4 DEF WalkInv
<1> QED
    BY <1>1, <1>4 DEF PagesInv, Feeds!TypeOK

\* The invariants of the parts hold from the start and through every step.
THEOREM CardsInvariant == Spec => []CardsInv
<1>1. Init => CardsInv
    BY PhotoBegins, CardBegins, WatchBegins, PagesBegins DEF Init, CardsInv
<1>2. CardsInv /\ [Next]_vars => CardsInv'
  <2> SUFFICES ASSUME CardsInv, [Next]_vars PROVE CardsInv'
      OBVIOUS
  <2>1. CASE PhotoNext
      BY <2>1, PhotoStep, LockStep, CardStays, WatchStays, PagesStays DEF CardsInv, PhotoNext
  <2>2. CASE CardNext
      BY <2>2, CardStep, PhotoStays, WatchStays, PagesStays DEF CardsInv, CardNext
  <2>3. CASE WatchNext
      BY <2>3, WatchStep, PhotoStays, CardStays, PagesStays DEF CardsInv, WatchNext
  <2>4. CASE PagesNext
      BY <2>4, PagesStep, PhotoStays, CardStays, WatchStays DEF CardsInv, PagesNext
  <2>5. CASE UNCHANGED vars
      BY <2>5, PhotoStays, CardStays, WatchStays, PagesStays DEF CardsInv, vars
  <2> QED
      BY <2>1, <2>2, <2>3, <2>4, <2>5 DEF Next
<1> QED
    BY <1>1, <1>2, PTL DEF Spec

\* The variables of every part have the values its code can give them.
THEOREM TypesOfCards == Spec => []TypeOK
<1>1. CardsInv => TypeOK
  <2> SUFFICES ASSUME CardsInv PROVE TypeOK
      OBVIOUS
  <2>1. Photo!TypeOK
      BY DEF CardsInv, PhotoInv, PhotoTables, Photo!TypeOK, WorkerStates
  <2>2. Card!TypeOK
      BY DEF CardsInv, CardInv, Card!TypeOK, HandlerStates, FlightStates, RecordStates
  <2>3. Watch!TypeOK
      BY DEF CardsInv, WatchInv, Watch!TypeOK, StreamStates, Changes, Given
  <2>4. Feeds!TypeOK
      BY DEF CardsInv, PagesInv
  <2> QED
      BY <2>1, <2>2, <2>3, <2>4 DEF TypeOK
<1> QED
    BY <1>1, CardsInvariant, PTL

\* A photo becomes ready once, with all its thumbnails and its original, by however
\* many workers at a time (repository.go:111-132, lock.go:36-46).
THEOREM PhotosAreReadyOnce == Spec => []ReadyOnce
<1>1. CardsInv => ReadyOnce
  <2> SUFFICES ASSUME CardsInv, NEW p \in Photos
               PROVE  /\ ready[p] <= 1
                      /\ ready[p] > 0 => p \in originals /\ {p} \X Sizes \subseteq thumbnails
                      /\ photo[p] # "none" => p \in originals
      BY DEF ReadyOnce, Photo!ReadyOnce
  <2>1. PhotoIsTrue(p)
      BY DEF CardsInv, PhotoInv, PhotoTables
  <2>2. ready[p] = IF p \in claims THEN 1 ELSE 0
      BY <2>1 DEF PhotoIsTrue, Count
  <2>3. ready[p] <= 1 /\ (ready[p] > 0 => p \in claims)
      BY <2>2
  <2>4. p \in claims => p \in originals /\ {p} \X Sizes \subseteq thumbnails
      BY <2>1 DEF PhotoIsTrue
  <2>5. photo[p] # "none" => p \in originals
      BY <2>1 DEF PhotoIsTrue
  <2> QED
      BY <2>3, <2>4, <2>5
<1> QED
    BY <1>1, CardsInvariant, PTL

\* Two workers are at one photo only after a delivery and a lock both went wrong
\* (lock.go:16-46): one of them is stale, and one has lost its lock.
THEOREM WorkersAreAlone == Spec => []AloneUnlessFaults
<1>1. CardsInv => AloneUnlessFaults
  <2> SUFFICES ASSUME CardsInv, NEW v \in Workers, NEW w \in Workers, v # w,
                      worker[v].at \in Photo!Holding, worker[w].at \in Photo!Holding,
                      worker[v].photo = worker[w].photo
               PROVE  faults >= 2
      BY DEF AloneUnlessFaults, Photo!AloneUnlessFaults
  <2>1. Stale
      BY DEF CardsInv, LockInv, OneIsStale, Stale, Photo!Holding
  <2>2. Insecure
    <3>1. ~(lock[worker[v].photo] = v /\ lock[worker[w].photo] = w)
        OBVIOUS
    <3> QED
        BY <3>1 DEF Insecure, Secure
  <2>3. Count(Stale) = 1 /\ Count(Insecure) = 1 /\ faults \in Nat
      BY <2>1, <2>2, FaultFacts DEF Count, CardsInv
  <2> QED
      BY <2>3 DEF CardsInv, LockInv
<1> QED
    BY <1>1, CardsInvariant, PTL

\* Nobody takes away the lock of another: it is released in a step of its holder, or
\* expires (lock.go:32-34).
THEOREM LocksAreOwn == Spec => OnlyOwnLock
<1>1. CardsInv /\ [Next]_vars =>
          [\A p \in Photos :
              lock[p] # NoWorker /\ lock'[p] # lock[p] =>
                  worker' = worker \/ worker'[lock[p]] # worker[lock[p]]]_Photo!vars
  <2> SUFFICES ASSUME CardsInv, [Next]_vars, NEW p \in Photos, lock[p] # NoWorker,
                      lock'[p] # lock[p]
               PROVE  worker' = worker \/ worker'[lock[p]] # worker[lock[p]]
      OBVIOUS
  <2>1. CASE PhotoNext
      BY <2>1, LockIsOwn DEF CardsInv, PhotoNext
  <2>2. CASE CardNext \/ WatchNext \/ PagesNext \/ UNCHANGED vars
      BY <2>2 DEF CardNext, WatchNext, PagesNext, vars, photoVars
  <2> QED
      BY <2>1, <2>2 DEF Next
<1> QED
    BY <1>1, CardsInvariant, PTL DEF Spec, OnlyOwnLock, Photo!OnlyOwnLock

\* A card is announced once, in the transaction that publishes it, and an event
\* that was handled has had its effect (indexer.go:40-51).
THEOREM PublishesAreTold == Spec => []EachPublishIsTold
<1>1. CardsInv => EachPublishIsTold
    BY DEF CardsInv, CardInv, EachPublishIsTold, Card!EachPublishIsTold, Card!Topics, Count
<1> QED
    BY <1>1, CardsInvariant, PTL

\* What a stream was given and what waits in its channel is a stretch of the notices.
LEMMA GivenIsPrefix ==
    ASSUME NEW said \in Seq(Changes), NEW x \in StreamStates, Given(x, said)
    PROVE  LET due == SubSeq(said, x.since + 1, Len(said))
               given == x.sent \o x.ch
           IN  Watch!IsPrefix(given, due) /\ (Open(x) => given = due)
<1> DEFINE due == SubSeq(said, x.since + 1, Len(said))
           given == x.sent \o x.ch
<1>1. x.sent \in Seq(Changes) /\ x.ch \in Seq(Changes) /\ x.since \in Nat
    BY DEF StreamStates
<1>2. PICK sent \in Seq(Changes), ch \in Seq(Changes), since \in Nat :
          x.sent = sent /\ x.ch = ch /\ x.since = since
    BY <1>1
<1>3. PICK n \in Nat, m \in Nat, k \in Nat : Len(sent) = n /\ Len(ch) = m /\ Len(said) = k
    OBVIOUS
<1>4. /\ since + n + m <= k
      /\ Open(x) => since + n + m = k
      /\ \A i \in 1..n : sent[i] = said[since + i]
      /\ \A i \in 1..m : ch[i] = said[since + n + i]
    BY <1>2, <1>3 DEF Given
<1>5. /\ given \in Seq(Changes) /\ Len(given) = n + m
      /\ \A i \in 1..(n + m) : given[i] = said[since + i]
  <2>1. given = sent \o ch
      BY <1>2
  <2>2. sent \o ch \in Seq(Changes) /\ Len(sent \o ch) = n + m
      BY <1>3
  <2>3. ASSUME NEW i \in 1..(n + m)
        PROVE  (sent \o ch)[i] = said[since + i]
    <3>1. (sent \o ch)[i] = IF i <= n THEN sent[i] ELSE ch[i - n]
        BY <1>3, <2>3
    <3>2. CASE i <= n
        BY <1>4, <3>1, <3>2
    <3>3. CASE ~(i <= n)
      <4>1. i - n \in 1..m /\ since + n + (i - n) = since + i
          BY <3>3
      <4>2. ch[i - n] = said[since + n + (i - n)]
          BY <1>4, <4>1
      <4> QED
          BY <3>1, <3>3, <4>1, <4>2
    <3> QED
        BY <3>2, <3>3
  <2> QED
      BY <2>1, <2>2, <2>3
<1>6. /\ due \in Seq(Changes) /\ Len(due) = k - since
      /\ \A i \in 1..(k - since) : due[i] = said[since + i]
  <2>1. due = SubSeq(said, since + 1, k)
      BY <1>2, <1>3
  <2>2. since + 1 \in 1..(k + 1) /\ k - (since + 1) + 1 = k - since
      BY <1>4
  <2>3. /\ SubSeq(said, since + 1, k) \in Seq(Changes)
        /\ Len(SubSeq(said, since + 1, k)) = k - since
      BY <1>3, <2>2, SubSeqProperties
  <2>4. ASSUME NEW i \in 1..(k - since)
        PROVE  SubSeq(said, since + 1, k)[i] = said[since + i]
    <3>1. i \in 1..(k - (since + 1) + 1) /\ since + 1 + i - 1 = since + i
        BY <2>4
    <3>2. SubSeq(said, since + 1, k)[i] = said[since + 1 + i - 1]
        BY <1>3, <2>2, <3>1, SubSeqProperties
    <3> QED
        BY <3>1, <3>2
  <2> QED
      BY <2>1, <2>3, <2>4
<1> HIDE DEF due, given
<1>7. n + m \in Nat /\ n + m <= k - since /\ k - since \in Nat
    BY <1>4
<1>8. \A i \in 1..(n + m) : i \in 1..(k - since)
    BY <1>7
<1>9. Watch!IsPrefix(given, due)
  <2>1. Len(given) <= Len(due)
      BY <1>5, <1>6, <1>7
  <2>2. SubSeq(given, 1, n + m) = SubSeq(due, 1, n + m)
    <3>1. SubSeq(given, 1, n + m) = [i \in 1..(n + m) |-> given[i]]
        BY <1>5, <1>7, SMTT(30)
    <3>2. SubSeq(due, 1, n + m) = [i \in 1..(n + m) |-> due[i]]
        BY <1>6, <1>7, SMTT(30)
    <3>3. \A i \in 1..(n + m) : given[i] = due[i]
        BY <1>5, <1>6, <1>8
    <3> QED
        BY <3>1, <3>2, <3>3
  <2> QED
      BY <1>5, <2>1, <2>2 DEF Watch!IsPrefix
<1>10. Open(x) => given = due
  <2> SUFFICES ASSUME Open(x) PROVE given = due
      OBVIOUS
  <2>1. n + m = k - since
      BY <1>4
  <2>2. Len(given) = Len(due)
      BY <1>5, <1>6, <2>1
  <2>3. \A i \in 1..Len(given) : given[i] = due[i]
      BY <1>5, <1>6, <2>1
  <2> QED
      BY <1>5, <1>6, <2>2, <2>3, SeqEqual
<1> QED
    BY <1>9, <1>10 DEF due, given

\* A watcher is given every notice since it came, in order, or is cut off
\* (server.go:111-117, watchhub.go:74-97).
THEOREM WatchersMissNothing == Spec => []NoGaps
<1>1. CardsInv => NoGaps
  <2> SUFFICES ASSUME CardsInv PROVE NoGaps
      OBVIOUS
  <2>1. /\ notices \in Seq(Changes) /\ stream \in [Streams -> StreamStates]
        /\ subs = {s \in Streams : Open(stream[s])}
        /\ \A s \in Streams : Given(stream[s], notices)
      BY DEF CardsInv, WatchInv
  <2>2. Watch!NoGaps
      BY <2>1, GivenIsPrefix DEF Watch!NoGaps, Open
  <2>3. Watch!OnlyOpenChannels
      BY <2>1 DEF Watch!OnlyOpenChannels, Open
  <2> QED
      BY <2>2, <2>3 DEF NoGaps
<1> QED
    BY <1>1, CardsInvariant, PTL

\* A walk over the pages shows no card twice and misses none that was there at its
\* start (listing_repository.go:224-228, es/cursor.go:28-37); a search with text, if
\* nothing is indexed meanwhile.
THEOREM WalksAreWhole == Spec => []WholeFeed
<1>1. CardsInv => WholeFeed
  <2> SUFFICES ASSUME CardsInv, ~(feed = "search" /\ moved)
               PROVE  Feeds!SeenOnce /\ Feeds!NothingMissed
      BY DEF WholeFeed, Feeds!WholeFeed
  <2>1. WalkInv
      BY DEF CardsInv, PagesInv
  <2>2. ASSUME cursor = Feeds!End, NEW i \in first
        PROVE  i \in Feeds!ToSet(seen)
    <3>1. cursor.at # "key"
        BY <2>2 DEF Feeds!End
    <3>2. PICK m \in 1..Len(seen) : seen[m] = i
        BY <2>1, <2>2, <3>1 DEF WalkInv
    <3> QED
        BY <2>1, <3>2 DEF WalkInv, Feeds!ToSet
  <2> QED
      BY <2>1, <2>2 DEF WalkInv, Feeds!NothingMissed
<1> QED
    BY <1>1, CardsInvariant, PTL
=============================================================================
