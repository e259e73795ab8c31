----------------------------- MODULE PlaceOrder -----------------------------
(***************************************************************************)
(* POST /orders (services/order, app/order_service.go): the idempotency    *)
(* key in Redis and PostgreSQL, the listing, the order with its event and  *)
(* the start of the saga.                                                  *)
(*                                                                         *)
(* Each attempt is one request, a client's first or a retry, on any        *)
(* replica; every statement to a store is a step, and attempts interleave  *)
(* between them.  Redis, PostgreSQL, catalog and Temporal fail with or     *)
(* without effect; an attempt crashes, or its client hangs up, anywhere;   *)
(* Redis loses keys.  The order of an attempt is named by the attempt.     *)
(***************************************************************************)
EXTENDS FiniteSets

CONSTANTS
    Attempts, Keys, NoKey,   \* NoKey: the header Idempotency-Key is missing
    KeyOf,
    None                     \* no order

ASSUME PlaceOrderAssumption ==
    /\ KeyOf \in [Attempts -> Keys \cup {NoKey}]
    /\ NoKey \notin Keys
    /\ None \notin Attempts

VARIABLES
    redis,   \* idempotency:place-order:<key>
    rows,    \* table idempotency_keys
    orders,  \* table orders, each with its order.order.placed in the outbox
    sagas,   \* workflows Temporal has started, by order id
    pc,      \* the statement an attempt is at
    answer,  \* what the client was told
    saved    \* the response an attempt read from idempotency_keys

vars == <<redis, rows, orders, sagas, pc, answer, saved>>
stores == <<redis, rows, orders, sagas>>

Absent == [status |-> "absent", order |-> None]
InProgress == [status |-> "in_progress", order |-> None]
Done(a) == [status |-> "done", order |-> a]
Entries == {Absent, InProgress} \cup {Done(a) : a \in Attempts}

NoAnswer == [kind |-> "none", order |-> None]
Conflict == [kind |-> "conflict", order |-> None]
Failure == [kind |-> "error", order |-> None]
Success(a) == [kind |-> "order", order |-> a]
Answers == {NoAnswer, Conflict, Failure} \cup {Success(a) : a \in Attempts}

At(a, label) == pc[a] = label

Goto(a, label) ==
    /\ pc' = [pc EXCEPT ![a] = label]
    /\ UNCHANGED <<answer, saved>>

Reply(a, what) ==
    /\ pc' = [pc EXCEPT ![a] = "answered"]
    /\ answer' = [answer EXCEPT ![a] = what]
    /\ UNCHANGED saved

SetRedis(a, entry) == redis' = [redis EXCEPT ![KeyOf[a]] = entry]

-----------------------------------------------------------------------------
(* redisx.Begin *)

Start(a) ==
    /\ At(a, "start")
    /\ IF KeyOf[a] = NoKey THEN Reply(a, Failure) ELSE Goto(a, "setnx")
    /\ UNCHANGED stores

\* Mutant: a key that is free in Redis is free.
TrustRedis(a) ==
    /\ At(a, "setnx")
    /\ UNCHANGED <<rows, orders, sagas>>
    /\ \/ /\ redis[KeyOf[a]] = Absent
          /\ SetRedis(a, InProgress)
          /\ Goto(a, "listing")
       \/ /\ redis[KeyOf[a]] # Absent
          /\ Goto(a, "get")
          /\ UNCHANGED redis

\* SET NX; whatever is free or unknown is for PostgreSQL to decide.  The
\* driver (REDIS_MAX_RETRIES) repeats a SET NX whose answer was lost and then
\* finds the key taken.
SetNX(a) ==
    /\ At(a, "setnx")
    /\ UNCHANGED <<rows, orders, sagas>>
    /\ \/ /\ redis[KeyOf[a]] = Absent
          /\ SetRedis(a, InProgress)
          /\ Goto(a, "insert") \/ Goto(a, "get")
       \/ /\ redis[KeyOf[a]] # Absent
          /\ Goto(a, "get")
          /\ UNCHANGED redis
       \/ /\ Goto(a, "insert")          \* Redis is unavailable
          /\ UNCHANGED redis

Get(a) ==
    /\ At(a, "get")
    /\ UNCHANGED stores
    /\ \/ redis[KeyOf[a]] = Absent /\ Goto(a, "setnx")
       \/ redis[KeyOf[a]] = InProgress /\ Reply(a, Conflict)
       \/ redis[KeyOf[a]].status = "done" /\ Reply(a, Success(redis[KeyOf[a]].order))
       \/ Goto(a, "insert")             \* Redis is unavailable

-----------------------------------------------------------------------------
(* beginPG *)

\* INSERT ... ON CONFLICT DO NOTHING
Insert(a) ==
    /\ At(a, "insert")
    /\ UNCHANGED <<redis, orders, sagas>>
    /\ \/ /\ rows[KeyOf[a]] = Absent
          /\ rows' = [rows EXCEPT ![KeyOf[a]] = InProgress]
          /\ Goto(a, "listing") \/ Reply(a, Failure)   \* the answer is lost
       \/ /\ rows[KeyOf[a]] # Absent
          /\ Goto(a, "select")
          /\ UNCHANGED rows
       \/ /\ Reply(a, Failure)
          /\ UNCHANGED rows

\* Mutant: the answer is cached before it is read.
SelectStatus(a) ==
    /\ At(a, "select")
    /\ UNCHANGED stores
    /\ \/ rows[KeyOf[a]].status = "done" /\ Goto(a, "warm")
       \/ rows[KeyOf[a]] = InProgress /\ Reply(a, Conflict)

\* Mutant: a key in progress is waited for.
SelectOrWait(a) ==
    /\ At(a, "select")
    /\ UNCHANGED stores
    /\ \/ /\ rows[KeyOf[a]].status = "done"
          /\ saved' = [saved EXCEPT ![a] = rows[KeyOf[a]].order]
          /\ pc' = [pc EXCEPT ![a] = "warm"]
          /\ UNCHANGED answer
       \/ rows[KeyOf[a]] = InProgress /\ Goto(a, "insert")

Select(a) ==
    /\ At(a, "select")
    /\ UNCHANGED stores
    /\ \/ /\ rows[KeyOf[a]].status = "done"
          /\ saved' = [saved EXCEPT ![a] = rows[KeyOf[a]].order]
          /\ pc' = [pc EXCEPT ![a] = "warm"]
          /\ UNCHANGED answer
       \/ rows[KeyOf[a]] = InProgress /\ Reply(a, Conflict)
       \/ Reply(a, Failure)

\* Redis has lost the key: the answer is cached again.
Warm(a) ==
    /\ At(a, "warm")
    /\ SetRedis(a, Done(saved[a])) \/ UNCHANGED redis
    /\ Reply(a, Success(saved[a]))
    /\ UNCHANGED <<rows, orders, sagas>>

-----------------------------------------------------------------------------
(* The key was free: the work is done once. *)

\* GetListing; the listing may be missing or not published.
GetListing(a) ==
    /\ At(a, "listing")
    /\ Goto(a, "create") \/ Reply(a, Failure)
    /\ UNCHANGED stores

\* The order and order.order.placed in one transaction.
Create(a) ==
    /\ At(a, "create")
    /\ \/ /\ orders' = orders \cup {a}
          /\ Goto(a, "saga") \/ Reply(a, Failure)
       \/ /\ Reply(a, Failure)
          /\ UNCHANGED orders
    /\ UNCHANGED <<redis, rows, sagas>>

\* Mutant: the answer is saved whether or not the saga was started.
StartOrIgnore(a) ==
    /\ At(a, "saga")
    /\ sagas' \in {sagas, sagas \cup {a}}
    /\ Goto(a, "complete")
    /\ UNCHANGED <<redis, rows, orders>>

\* ExecuteWorkflow with the order id as workflow id.
StartPlaceOrder(a) ==
    /\ At(a, "saga")
    /\ \/ /\ sagas' = sagas \cup {a}
          /\ Goto(a, "complete") \/ Reply(a, Failure)
       \/ /\ Reply(a, Failure)
          /\ UNCHANGED sagas
    /\ UNCHANGED <<redis, rows, orders>>

\* Mutant: Redis is told even if PostgreSQL could not be.
CompleteBoth(a) ==
    /\ At(a, "complete")
    /\ \/ rows' = [rows EXCEPT ![KeyOf[a]] = Done(a)]
       \/ UNCHANGED rows
    /\ Goto(a, "cache")
    /\ UNCHANGED <<redis, orders, sagas>>

\* PostgreSQL first.  An error is logged and the client has its order.
CompletePG(a) ==
    /\ At(a, "complete")
    /\ \/ /\ rows' = [rows EXCEPT ![KeyOf[a]] = Done(a)]
          /\ Goto(a, "cache") \/ Reply(a, Success(a))
       \/ /\ Reply(a, Success(a))
          /\ UNCHANGED rows
    /\ UNCHANGED <<redis, orders, sagas>>

CompleteRedis(a) ==
    /\ At(a, "cache")
    /\ SetRedis(a, Done(a)) \/ UNCHANGED redis
    /\ Reply(a, Success(a))
    /\ UNCHANGED <<rows, orders, sagas>>

-----------------------------------------------------------------------------
(* What happens to an attempt and to Redis. *)

\* The process stops, or the client hangs up and the context is cancelled.
Crash(a) ==
    /\ ~ At(a, "answered")
    /\ Goto(a, "answered")
    /\ UNCHANGED stores

\* Redis has no persistence and evicts; 24 hours pass.
LoseRedis(k) ==
    /\ redis[k] # Absent
    /\ redis' = [redis EXCEPT ![k] = Absent]
    /\ UNCHANGED <<rows, orders, sagas, pc, answer, saved>>

Step(a) ==
    \/ Start(a) \/ SetNX(a) \/ Get(a)
    \/ Insert(a) \/ Select(a) \/ Warm(a)
    \/ GetListing(a) \/ Create(a) \/ StartPlaceOrder(a)
    \/ CompletePG(a) \/ CompleteRedis(a)

Init ==
    /\ redis = [k \in Keys |-> Absent]
    /\ rows = [k \in Keys |-> Absent]
    /\ orders = {}
    /\ sagas = {}
    /\ pc = [a \in Attempts |-> "start"]
    /\ answer = [a \in Attempts |-> NoAnswer]
    /\ saved = [a \in Attempts |-> None]

Next ==
    \/ \E a \in Attempts : Step(a) \/ Crash(a)
    \/ \E k \in Keys : LoseRedis(k)

Spec == Init /\ [][Next]_vars

\* A handler that is not killed runs on: its calls return or fail.
FairSpec == Spec /\ \A a \in Attempts : WF_vars(Step(a) /\ ~ At(a, "start"))
-----------------------------------------------------------------------------
Labels == {"start", "setnx", "get", "insert", "select", "warm", "listing",
           "create", "saga", "complete", "cache", "answered"}

\* pc, stores and answers have the values the code can give them: what Redis
\* and PostgreSQL answer a retry with is an order, never an empty response.
TypeOK ==
    /\ redis \in [Keys -> Entries]
    /\ rows \in [Keys -> Entries]
    /\ orders \subseteq Attempts
    /\ sagas \subseteq Attempts
    /\ pc \in [Attempts -> Labels]
    /\ answer \in [Attempts -> Answers]
    /\ saved \in [Attempts -> Attempts \cup {None}]

\* One key, one order, and so one saga and one charge, however many retries
\* race and whatever Redis forgets (ADR 0018).
OneOrderPerKey == \A a, b \in orders : KeyOf[a] = KeyOf[b] => a = b

\* A client that is told of an order is told of one that exists, is announced
\* and whose saga runs; every success with its key names the same order.
SuccessIsReal == \A a \in Attempts : answer[a].kind = "order" =>
    /\ answer[a].order \in orders \cap sagas
    /\ KeyOf[answer[a].order] = KeyOf[a]

\* What Redis answers with, PostgreSQL would answer with (ADR 0018:
\* PostgreSQL is the source of truth): after Redis is lost the same key gets
\* the same answer.
CacheIsTrue == \A k \in Keys : redis[k].status = "done" => rows[k] = redis[k]

Running(a) == pc[a] \notin {"start", "answered"}

\* Begin calls itself when the key is gone: unless Redis loses keys for ever,
\* every request that is taken up is answered or cut off, and none waits for
\* another that holds its key and is gone.
EveryAttemptEnds ==
    <>[][~ \E k \in Keys : LoseRedis(k)]_vars
        => \A a \in Attempts : Running(a) ~> At(a, "answered")
=============================================================================
