-------------------------- MODULE PlaceOrderProofs --------------------------
(***************************************************************************)
(* Theorems about PlaceOrder, for any number of attempts and keys.         *)
(*                                                                         *)
(* The inductive invariant: the row of a key in PostgreSQL belongs to one  *)
(* attempt, the one that works, or has worked, under that key; and what    *)
(* the row, Redis, and an attempt between two statements hold is an order  *)
(* whose saga runs.                                                        *)
(***************************************************************************)
EXTENDS PlaceOrder, TLAPS

\* The attempt that took its key in PostgreSQL.
Works(a) == pc[a] \in {"listing", "create", "saga", "complete", "cache"} \/ a \in orders

\* A request that got past the header has a key.
KeyInv == \A a \in Attempts :
    Running(a) \/ a \in orders => KeyOf[a] \in Keys

\* Whoever works holds the row, and is alone with its key.
OwnerInv ==
    /\ \A a \in Attempts : Works(a) => rows[KeyOf[a]] # Absent
    /\ \A a, b \in Attempts : Works(a) /\ Works(b) /\ KeyOf[a] = KeyOf[b] => a = b

\* How far an attempt is with its work.
WorkOf(a) ==
    /\ pc[a] \in {"saga", "complete", "cache"} => a \in orders
    /\ pc[a] \in {"complete", "cache"} => a \in sagas
    /\ pc[a] = "cache" => rows[KeyOf[a]] = Done(a)
    /\ pc[a] = "warm" => saved[a] \in Attempts /\ rows[KeyOf[a]] = Done(saved[a])

WorkInv == \A a \in Attempts : WorkOf(a)

\* A response that is saved is an order of that key, and its saga runs.
RowInv == \A k \in Keys : rows[k].status = "done" =>
    /\ rows[k].order \in orders \cap sagas
    /\ KeyOf[rows[k].order] = k

IInv == TypeOK /\ KeyInv /\ OwnerInv /\ WorkInv /\ RowInv /\ CacheIsTrue /\ SuccessIsReal
-----------------------------------------------------------------------------
\* The invariant holds before the first request.
LEMMA InitIInv == Init => IInv
BY PlaceOrderAssumption DEF Init, IInv, TypeOK, KeyInv, OwnerInv, WorkInv, WorkOf,
    RowInv, CacheIsTrue, SuccessIsReal, Works, Running, At, Absent, InProgress, Done,
    Entries, NoAnswer, Conflict, Failure, Success, Answers, Labels

\* A row that is done is the response of some order.
LEMMA RowIsResponse ==
    ASSUME TypeOK, NEW k \in Keys, rows[k].status = "done"
    PROVE  rows[k].order \in Attempts /\ rows[k] = Done(rows[k].order)
BY DEF TypeOK, Entries, Absent, InProgress, Done

\* An attempt at "cache" or "warm" knows what its row says as long as rows
\* that are done stay as they are.
LEMMA KnownRowsStay ==
    ASSUME IInv, NEW b \in Attempts,
           \A k \in Keys : rows[k].status = "done" => rows'[k] = rows[k]
    PROVE  /\ pc[b] = "cache" => rows'[KeyOf[b]] = Done(b)
           /\ pc[b] = "warm" => saved[b] \in Attempts /\ rows'[KeyOf[b]] = Done(saved[b])
<1>1. CASE pc[b] = "cache"
  <2>1. KeyOf[b] \in Keys /\ rows[KeyOf[b]] = Done(b)
    BY <1>1 DEF IInv, KeyInv, WorkInv, WorkOf, Running
  <2>2. Done(b).status = "done"
    BY DEF Done
  <2> QED BY <1>1, <2>1, <2>2
<1>2. CASE pc[b] = "warm"
  <2>1. KeyOf[b] \in Keys /\ saved[b] \in Attempts /\ rows[KeyOf[b]] = Done(saved[b])
    BY <1>2 DEF IInv, KeyInv, WorkInv, WorkOf, Running
  <2>2. Done(saved[b]).status = "done"
    BY DEF Done
  <2> QED BY <1>2, <2>1, <2>2
<1> QED BY <1>1, <1>2

\* The header is looked at.
LEMMA StartIInv == ASSUME IInv, NEW a \in Attempts, Start(a) PROVE IInv'
<1> USE PlaceOrderAssumption DEF IInv, Start, At, Goto, Reply, SetRedis, stores
<1>1. TypeOK'
  BY DEF TypeOK, KeyInv, WorkInv, WorkOf, Running, CacheIsTrue, Labels,
      Entries, Answers, Absent, InProgress, Done, NoAnswer, Conflict, Failure,
      Success
<1>2. KeyInv'
  BY DEF TypeOK, KeyInv, Running
<1>3. OwnerInv'
  BY DEF TypeOK, KeyInv, OwnerInv, WorkInv, WorkOf, Works, Running, Absent,
      InProgress, Done
<1>4. WorkInv'
  <2> SUFFICES ASSUME NEW b \in Attempts PROVE WorkOf(b)'
    BY DEF WorkInv
  <2>1. pc'[b] \in {"saga", "complete", "cache"} => b \in orders'
    BY DEF TypeOK, WorkInv, WorkOf
  <2>2. pc'[b] \in {"complete", "cache"} => b \in sagas'
    BY DEF TypeOK, WorkInv, WorkOf
  <2>3. pc'[b] = "cache" => rows'[KeyOf[b]] = Done(b)
    BY DEF TypeOK, WorkInv, WorkOf
  <2>4. pc'[b] = "warm" =>
          saved'[b] \in Attempts /\ rows'[KeyOf[b]] = Done(saved'[b])
    BY DEF TypeOK, WorkInv, WorkOf
  <2> QED BY <2>1, <2>2, <2>3, <2>4 DEF WorkOf
<1>5. RowInv'
  BY DEF TypeOK, KeyInv, OwnerInv, WorkInv, WorkOf, RowInv, Works, Running,
      Absent, InProgress, Done
<1>6. CacheIsTrue'
  BY DEF TypeOK, KeyInv, OwnerInv, WorkInv, WorkOf, RowInv, CacheIsTrue,
      Works, Running, Absent, InProgress, Done
<1>7. SuccessIsReal'
  BY DEF TypeOK, KeyInv, WorkInv, WorkOf, RowInv, CacheIsTrue, SuccessIsReal,
      Running, Absent, InProgress, Done, NoAnswer, Conflict, Failure, Success
<1> QED BY <1>1, <1>2, <1>3, <1>4, <1>5, <1>6, <1>7

\* Redis is asked to take the key.
LEMMA SetNXIInv == ASSUME IInv, NEW a \in Attempts, SetNX(a) PROVE IInv'
<1> USE PlaceOrderAssumption DEF IInv, SetNX, At, Goto, Reply, SetRedis, stores
<1>1. TypeOK'
  BY DEF TypeOK, KeyInv, WorkInv, WorkOf, Running, CacheIsTrue, Labels,
      Entries, Answers, Absent, InProgress, Done, NoAnswer, Conflict, Failure,
      Success
<1>2. KeyInv'
  BY DEF TypeOK, KeyInv, Running
<1>3. OwnerInv'
  BY DEF TypeOK, KeyInv, OwnerInv, WorkInv, WorkOf, Works, Running, Absent,
      InProgress, Done
<1>4. WorkInv'
  <2> SUFFICES ASSUME NEW b \in Attempts PROVE WorkOf(b)'
    BY DEF WorkInv
  <2>1. pc'[b] \in {"saga", "complete", "cache"} => b \in orders'
    BY DEF TypeOK, WorkInv, WorkOf
  <2>2. pc'[b] \in {"complete", "cache"} => b \in sagas'
    BY DEF TypeOK, WorkInv, WorkOf
  <2>3. pc'[b] = "cache" => rows'[KeyOf[b]] = Done(b)
    BY DEF TypeOK, WorkInv, WorkOf
  <2>4. pc'[b] = "warm" =>
          saved'[b] \in Attempts /\ rows'[KeyOf[b]] = Done(saved'[b])
    BY DEF TypeOK, WorkInv, WorkOf
  <2> QED BY <2>1, <2>2, <2>3, <2>4 DEF WorkOf
<1>5. RowInv'
  BY DEF TypeOK, KeyInv, OwnerInv, WorkInv, WorkOf, RowInv, Works, Running,
      Absent, InProgress, Done
<1>6. CacheIsTrue'
  BY DEF TypeOK, KeyInv, OwnerInv, WorkInv, WorkOf, RowInv, CacheIsTrue,
      Works, Running, Absent, InProgress, Done
<1>7. SuccessIsReal'
  BY DEF TypeOK, KeyInv, WorkInv, WorkOf, RowInv, CacheIsTrue, SuccessIsReal,
      Running, Absent, InProgress, Done, NoAnswer, Conflict, Failure, Success
<1> QED BY <1>1, <1>2, <1>3, <1>4, <1>5, <1>6, <1>7

\* What Redis answers is true of the row.
LEMMA GetIInv == ASSUME IInv, NEW a \in Attempts, Get(a) PROVE IInv'
<1> USE PlaceOrderAssumption DEF IInv, Get, At, Goto, Reply, SetRedis, stores
<1>1. TypeOK'
  BY DEF TypeOK, KeyInv, WorkInv, WorkOf, Running, CacheIsTrue, Labels,
      Entries, Answers, Absent, InProgress, Done, NoAnswer, Conflict, Failure,
      Success
<1>2. KeyInv'
  BY DEF TypeOK, KeyInv, Running
<1>3. OwnerInv'
  BY DEF TypeOK, KeyInv, OwnerInv, WorkInv, WorkOf, Works, Running, Absent,
      InProgress, Done
<1>4. WorkInv'
  <2> SUFFICES ASSUME NEW b \in Attempts PROVE WorkOf(b)'
    BY DEF WorkInv
  <2>1. pc'[b] \in {"saga", "complete", "cache"} => b \in orders'
    BY DEF TypeOK, WorkInv, WorkOf
  <2>2. pc'[b] \in {"complete", "cache"} => b \in sagas'
    BY DEF TypeOK, WorkInv, WorkOf
  <2>3. pc'[b] = "cache" => rows'[KeyOf[b]] = Done(b)
    BY DEF TypeOK, WorkInv, WorkOf
  <2>4. pc'[b] = "warm" =>
          saved'[b] \in Attempts /\ rows'[KeyOf[b]] = Done(saved'[b])
    BY DEF TypeOK, WorkInv, WorkOf
  <2> QED BY <2>1, <2>2, <2>3, <2>4 DEF WorkOf
<1>5. RowInv'
  BY DEF TypeOK, KeyInv, OwnerInv, WorkInv, WorkOf, RowInv, Works, Running,
      Absent, InProgress, Done
<1>6. CacheIsTrue'
  BY DEF TypeOK, KeyInv, OwnerInv, WorkInv, WorkOf, RowInv, CacheIsTrue,
      Works, Running, Absent, InProgress, Done
<1>7. SuccessIsReal'
  BY DEF TypeOK, KeyInv, WorkInv, WorkOf, RowInv, CacheIsTrue, SuccessIsReal,
      Running, Absent, InProgress, Done, NoAnswer, Conflict, Failure, Success
<1> QED BY <1>1, <1>2, <1>3, <1>4, <1>5, <1>6, <1>7

\* Nobody works under a key that is free, so the new owner is alone.
LEMMA InsertIInv == ASSUME IInv, NEW a \in Attempts, Insert(a) PROVE IInv'
<1> USE PlaceOrderAssumption DEF IInv, Insert, At, Goto, Reply, SetRedis, stores
<1>0. \A k \in Keys : rows[k].status = "done" => rows'[k] = rows[k]
  BY DEF TypeOK, Absent
<1>1. TypeOK'
  BY DEF TypeOK, KeyInv, WorkInv, WorkOf, Running, CacheIsTrue, Labels,
      Entries, Answers, Absent, InProgress, Done, NoAnswer, Conflict, Failure,
      Success
<1>2. KeyInv'
  BY DEF TypeOK, KeyInv, Running
<1>3. OwnerInv'
  BY DEF TypeOK, KeyInv, OwnerInv, WorkInv, WorkOf, Works, Running, Absent,
      InProgress, Done
<1>4. WorkInv'
  <2> SUFFICES ASSUME NEW b \in Attempts PROVE WorkOf(b)'
    BY DEF WorkInv
  <2>1. pc'[b] \in {"saga", "complete", "cache"} => b \in orders'
    BY DEF TypeOK, WorkInv, WorkOf
  <2>2. pc'[b] \in {"complete", "cache"} => b \in sagas'
    BY DEF TypeOK, WorkInv, WorkOf
  <2>3. pc'[b] = "cache" => rows'[KeyOf[b]] = Done(b)
    BY <1>0, KnownRowsStay DEF TypeOK
  <2>4. pc'[b] = "warm" =>
          saved'[b] \in Attempts /\ rows'[KeyOf[b]] = Done(saved'[b])
    BY <1>0, KnownRowsStay DEF TypeOK
  <2> QED BY <2>1, <2>2, <2>3, <2>4 DEF WorkOf
<1>5. RowInv'
  BY DEF TypeOK, KeyInv, OwnerInv, WorkInv, WorkOf, RowInv, Works, Running,
      Absent, InProgress, Done
<1>6. CacheIsTrue'
  BY DEF TypeOK, KeyInv, OwnerInv, WorkInv, WorkOf, RowInv, CacheIsTrue,
      Works, Running, Absent, InProgress, Done
<1>7. SuccessIsReal'
  BY DEF TypeOK, KeyInv, WorkInv, WorkOf, RowInv, CacheIsTrue, SuccessIsReal,
      Running, Absent, InProgress, Done, NoAnswer, Conflict, Failure, Success
<1> QED BY <1>1, <1>2, <1>3, <1>4, <1>5, <1>6, <1>7

\* The response of the row is remembered.
LEMMA SelectIInv == ASSUME IInv, NEW a \in Attempts, Select(a) PROVE IInv'
<1> USE PlaceOrderAssumption DEF IInv, Select, At, Goto, Reply, SetRedis, stores
<1>1. TypeOK'
  BY DEF TypeOK, KeyInv, WorkInv, WorkOf, Running, CacheIsTrue, Labels,
      Entries, Answers, Absent, InProgress, Done, NoAnswer, Conflict, Failure,
      Success
<1>2. KeyInv'
  BY DEF TypeOK, KeyInv, Running
<1>3. OwnerInv'
  BY DEF TypeOK, KeyInv, OwnerInv, WorkInv, WorkOf, Works, Running, Absent,
      InProgress, Done
<1>4. WorkInv'
  <2> SUFFICES ASSUME NEW b \in Attempts PROVE WorkOf(b)'
    BY DEF WorkInv
  <2>1. pc'[b] \in {"saga", "complete", "cache"} => b \in orders'
    BY DEF TypeOK, WorkInv, WorkOf
  <2>2. pc'[b] \in {"complete", "cache"} => b \in sagas'
    BY DEF TypeOK, WorkInv, WorkOf
  <2>3. pc'[b] = "cache" => rows'[KeyOf[b]] = Done(b)
    BY DEF TypeOK, WorkInv, WorkOf
  <2>4. pc'[b] = "warm" =>
          saved'[b] \in Attempts /\ rows'[KeyOf[b]] = Done(saved'[b])
    BY RowIsResponse DEF TypeOK, KeyInv, WorkInv, WorkOf, Running
  <2> QED BY <2>1, <2>2, <2>3, <2>4 DEF WorkOf
<1>5. RowInv'
  BY DEF TypeOK, KeyInv, OwnerInv, WorkInv, WorkOf, RowInv, Works, Running,
      Absent, InProgress, Done
<1>6. CacheIsTrue'
  BY DEF TypeOK, KeyInv, OwnerInv, WorkInv, WorkOf, RowInv, CacheIsTrue,
      Works, Running, Absent, InProgress, Done
<1>7. SuccessIsReal'
  BY DEF TypeOK, KeyInv, WorkInv, WorkOf, RowInv, CacheIsTrue, SuccessIsReal,
      Running, Absent, InProgress, Done, NoAnswer, Conflict, Failure, Success
<1> QED BY <1>1, <1>2, <1>3, <1>4, <1>5, <1>6, <1>7

\* Redis is told what the row says: rows that are done stay so.
LEMMA WarmIInv == ASSUME IInv, NEW a \in Attempts, Warm(a) PROVE IInv'
<1> USE PlaceOrderAssumption DEF IInv, Warm, At, Goto, Reply, SetRedis, stores
<1>0. /\ KeyOf[a] \in Keys
      /\ saved[a] \in orders \cap sagas
      /\ KeyOf[saved[a]] = KeyOf[a]
  <2>1. KeyOf[a] \in Keys /\ saved[a] \in Attempts /\ rows[KeyOf[a]] = Done(saved[a])
    BY DEF KeyInv, WorkInv, WorkOf, Running
  <2>2. Done(saved[a]).status = "done" /\ Done(saved[a]).order = saved[a]
    BY DEF Done
  <2> QED BY <2>1, <2>2 DEF RowInv
<1>1. TypeOK'
  BY <1>0 DEF TypeOK, Labels, Entries, Answers, Success
<1>2. KeyInv'
  BY DEF TypeOK, KeyInv, Running
<1>3. OwnerInv'
  BY DEF TypeOK, KeyInv, OwnerInv, WorkInv, WorkOf, Works, Running, Absent,
      InProgress, Done
<1>4. WorkInv'
  <2> SUFFICES ASSUME NEW b \in Attempts PROVE WorkOf(b)'
    BY DEF WorkInv
  <2>1. pc'[b] \in {"saga", "complete", "cache"} => b \in orders'
    BY DEF TypeOK, WorkInv, WorkOf
  <2>2. pc'[b] \in {"complete", "cache"} => b \in sagas'
    BY DEF TypeOK, WorkInv, WorkOf
  <2>3. pc'[b] = "cache" => rows'[KeyOf[b]] = Done(b)
    BY DEF TypeOK, WorkInv, WorkOf
  <2>4. pc'[b] = "warm" =>
          saved'[b] \in Attempts /\ rows'[KeyOf[b]] = Done(saved'[b])
    BY DEF TypeOK, WorkInv, WorkOf
  <2> QED BY <2>1, <2>2, <2>3, <2>4 DEF WorkOf
<1>5. RowInv'
  BY DEF TypeOK, KeyInv, OwnerInv, WorkInv, WorkOf, RowInv, Works, Running,
      Absent, InProgress, Done
<1>6. CacheIsTrue'
  BY DEF TypeOK, KeyInv, OwnerInv, WorkInv, WorkOf, RowInv, CacheIsTrue,
      Works, Running, Absent, InProgress, Done
<1>7. SuccessIsReal'
  BY <1>0 DEF TypeOK, SuccessIsReal, Success
<1> QED BY <1>1, <1>2, <1>3, <1>4, <1>5, <1>6, <1>7

\* The listing is read.
LEMMA GetListingIInv == ASSUME IInv, NEW a \in Attempts, GetListing(a) PROVE IInv'
<1> USE PlaceOrderAssumption DEF IInv, GetListing, At, Goto, Reply, SetRedis, stores
<1>1. TypeOK'
  BY DEF TypeOK, KeyInv, WorkInv, WorkOf, Running, CacheIsTrue, Labels,
      Entries, Answers, Absent, InProgress, Done, NoAnswer, Conflict, Failure,
      Success
<1>2. KeyInv'
  BY DEF TypeOK, KeyInv, Running
<1>3. OwnerInv'
  BY DEF TypeOK, KeyInv, OwnerInv, WorkInv, WorkOf, Works, Running, Absent,
      InProgress, Done
<1>4. WorkInv'
  <2> SUFFICES ASSUME NEW b \in Attempts PROVE WorkOf(b)'
    BY DEF WorkInv
  <2>1. pc'[b] \in {"saga", "complete", "cache"} => b \in orders'
    BY DEF TypeOK, WorkInv, WorkOf
  <2>2. pc'[b] \in {"complete", "cache"} => b \in sagas'
    BY DEF TypeOK, WorkInv, WorkOf
  <2>3. pc'[b] = "cache" => rows'[KeyOf[b]] = Done(b)
    BY DEF TypeOK, WorkInv, WorkOf
  <2>4. pc'[b] = "warm" =>
          saved'[b] \in Attempts /\ rows'[KeyOf[b]] = Done(saved'[b])
    BY DEF TypeOK, WorkInv, WorkOf
  <2> QED BY <2>1, <2>2, <2>3, <2>4 DEF WorkOf
<1>5. RowInv'
  BY DEF TypeOK, KeyInv, OwnerInv, WorkInv, WorkOf, RowInv, Works, Running,
      Absent, InProgress, Done
<1>6. CacheIsTrue'
  BY DEF TypeOK, KeyInv, OwnerInv, WorkInv, WorkOf, RowInv, CacheIsTrue,
      Works, Running, Absent, InProgress, Done
<1>7. SuccessIsReal'
  BY DEF TypeOK, KeyInv, WorkInv, WorkOf, RowInv, CacheIsTrue, SuccessIsReal,
      Running, Absent, InProgress, Done, NoAnswer, Conflict, Failure, Success
<1> QED BY <1>1, <1>2, <1>3, <1>4, <1>5, <1>6, <1>7

\* The owner of the row creates its order.
LEMMA CreateIInv == ASSUME IInv, NEW a \in Attempts, Create(a) PROVE IInv'
<1> USE PlaceOrderAssumption DEF IInv, Create, At, Goto, Reply, SetRedis, stores
<1>1. TypeOK'
  BY DEF TypeOK, KeyInv, WorkInv, WorkOf, Running, CacheIsTrue, Labels,
      Entries, Answers, Absent, InProgress, Done, NoAnswer, Conflict, Failure,
      Success
<1>2. KeyInv'
  BY DEF TypeOK, KeyInv, Running
<1>3. OwnerInv'
  BY DEF TypeOK, KeyInv, OwnerInv, WorkInv, WorkOf, Works, Running, Absent,
      InProgress, Done
<1>4. WorkInv'
  <2> SUFFICES ASSUME NEW b \in Attempts PROVE WorkOf(b)'
    BY DEF WorkInv
  <2>1. pc'[b] \in {"saga", "complete", "cache"} => b \in orders'
    BY DEF TypeOK, WorkInv, WorkOf
  <2>2. pc'[b] \in {"complete", "cache"} => b \in sagas'
    BY DEF TypeOK, WorkInv, WorkOf
  <2>3. pc'[b] = "cache" => rows'[KeyOf[b]] = Done(b)
    BY DEF TypeOK, WorkInv, WorkOf
  <2>4. pc'[b] = "warm" =>
          saved'[b] \in Attempts /\ rows'[KeyOf[b]] = Done(saved'[b])
    BY DEF TypeOK, WorkInv, WorkOf
  <2> QED BY <2>1, <2>2, <2>3, <2>4 DEF WorkOf
<1>5. RowInv'
  BY DEF TypeOK, KeyInv, OwnerInv, WorkInv, WorkOf, RowInv, Works, Running,
      Absent, InProgress, Done
<1>6. CacheIsTrue'
  BY DEF TypeOK, KeyInv, OwnerInv, WorkInv, WorkOf, RowInv, CacheIsTrue,
      Works, Running, Absent, InProgress, Done
<1>7. SuccessIsReal'
  BY DEF TypeOK, KeyInv, WorkInv, WorkOf, RowInv, CacheIsTrue, SuccessIsReal,
      Running, Absent, InProgress, Done, NoAnswer, Conflict, Failure, Success
<1> QED BY <1>1, <1>2, <1>3, <1>4, <1>5, <1>6, <1>7

\* The saga of a created order starts.
LEMMA StartPlaceOrderIInv == ASSUME IInv, NEW a \in Attempts, StartPlaceOrder(a) PROVE IInv'
<1> USE PlaceOrderAssumption DEF IInv, StartPlaceOrder, At, Goto, Reply, SetRedis, stores
<1>1. TypeOK'
  BY DEF TypeOK, KeyInv, WorkInv, WorkOf, Running, CacheIsTrue, Labels,
      Entries, Answers, Absent, InProgress, Done, NoAnswer, Conflict, Failure,
      Success
<1>2. KeyInv'
  BY DEF TypeOK, KeyInv, Running
<1>3. OwnerInv'
  BY DEF TypeOK, KeyInv, OwnerInv, WorkInv, WorkOf, Works, Running, Absent,
      InProgress, Done
<1>4. WorkInv'
  <2> SUFFICES ASSUME NEW b \in Attempts PROVE WorkOf(b)'
    BY DEF WorkInv
  <2>1. pc'[b] \in {"saga", "complete", "cache"} => b \in orders'
    BY DEF TypeOK, WorkInv, WorkOf
  <2>2. pc'[b] \in {"complete", "cache"} => b \in sagas'
    BY DEF TypeOK, WorkInv, WorkOf
  <2>3. pc'[b] = "cache" => rows'[KeyOf[b]] = Done(b)
    BY DEF TypeOK, WorkInv, WorkOf
  <2>4. pc'[b] = "warm" =>
          saved'[b] \in Attempts /\ rows'[KeyOf[b]] = Done(saved'[b])
    BY DEF TypeOK, WorkInv, WorkOf
  <2> QED BY <2>1, <2>2, <2>3, <2>4 DEF WorkOf
<1>5. RowInv'
  BY DEF TypeOK, KeyInv, OwnerInv, WorkInv, WorkOf, RowInv, Works, Running,
      Absent, InProgress, Done
<1>6. CacheIsTrue'
  BY DEF TypeOK, KeyInv, OwnerInv, WorkInv, WorkOf, RowInv, CacheIsTrue,
      Works, Running, Absent, InProgress, Done
<1>7. SuccessIsReal'
  BY DEF TypeOK, KeyInv, WorkInv, WorkOf, RowInv, CacheIsTrue, SuccessIsReal,
      Running, Absent, InProgress, Done, NoAnswer, Conflict, Failure, Success
<1> QED BY <1>1, <1>2, <1>3, <1>4, <1>5, <1>6, <1>7

\* A row that is done already was completed by the same attempt.
LEMMA CompletePGIInv == ASSUME IInv, NEW a \in Attempts, CompletePG(a) PROVE IInv'
<1> USE PlaceOrderAssumption DEF IInv, CompletePG, At, Goto, Reply, SetRedis, stores
<1>a. KeyOf[a] \in Keys /\ a \in orders /\ a \in sagas /\ Works(a)
  BY DEF KeyInv, WorkInv, WorkOf, Running, Works
<1>b. rows' = rows \/ rows' = [rows EXCEPT ![KeyOf[a]] = Done(a)]
  OBVIOUS
<1>0. ASSUME NEW k \in Keys, rows[k].status = "done" PROVE rows'[k] = rows[k]
  <2>1. CASE k # KeyOf[a]
    BY <1>b, <2>1 DEF TypeOK
  <2>2. CASE k = KeyOf[a]
    <3>1. /\ rows[k].order \in Attempts
          /\ rows[k] = Done(rows[k].order)
      BY <1>0, RowIsResponse
    <3>2. Works(rows[k].order) /\ KeyOf[rows[k].order] = KeyOf[a]
      BY <1>0, <2>2 DEF RowInv, Works
    <3>3. rows[k].order = a
      BY <1>a, <3>1, <3>2 DEF OwnerInv
    <3> QED BY <1>b, <3>1, <3>3, <2>2 DEF TypeOK
  <2> QED BY <2>1, <2>2
<1>1. TypeOK'
  BY DEF TypeOK, KeyInv, WorkInv, WorkOf, Running, CacheIsTrue, Labels,
      Entries, Answers, Absent, InProgress, Done, NoAnswer, Conflict, Failure,
      Success
<1>2. KeyInv'
  BY DEF TypeOK, KeyInv, Running
<1>3. OwnerInv'
  BY DEF TypeOK, KeyInv, OwnerInv, WorkInv, WorkOf, Works, Running, Absent,
      InProgress, Done
<1>4. WorkInv'
  <2> SUFFICES ASSUME NEW b \in Attempts PROVE WorkOf(b)'
    BY DEF WorkInv
  <2>1. pc'[b] \in {"saga", "complete", "cache"} => b \in orders'
    BY DEF TypeOK, WorkInv, WorkOf
  <2>2. pc'[b] \in {"complete", "cache"} => b \in sagas'
    BY DEF TypeOK, WorkInv, WorkOf
  <2>3. pc'[b] = "cache" => rows'[KeyOf[b]] = Done(b)
    BY <1>0, KnownRowsStay, <1>a DEF TypeOK
  <2>4. pc'[b] = "warm" =>
          saved'[b] \in Attempts /\ rows'[KeyOf[b]] = Done(saved'[b])
    BY <1>0, KnownRowsStay DEF TypeOK
  <2> QED BY <2>1, <2>2, <2>3, <2>4 DEF WorkOf
<1>5. RowInv'
  BY <1>0, <1>a, <1>b DEF TypeOK, RowInv, Done
<1>6. CacheIsTrue'
  BY <1>0 DEF TypeOK, CacheIsTrue
<1>7. SuccessIsReal'
  BY <1>a DEF TypeOK, SuccessIsReal, Success
<1> QED BY <1>1, <1>2, <1>3, <1>4, <1>5, <1>6, <1>7

\* Redis is told what the row says.
LEMMA CompleteRedisIInv == ASSUME IInv, NEW a \in Attempts, CompleteRedis(a) PROVE IInv'
<1> USE PlaceOrderAssumption DEF IInv, CompleteRedis, At, Goto, Reply, SetRedis, stores
<1>1. TypeOK'
  BY DEF TypeOK, KeyInv, WorkInv, WorkOf, Running, CacheIsTrue, Labels,
      Entries, Answers, Absent, InProgress, Done, NoAnswer, Conflict, Failure,
      Success
<1>2. KeyInv'
  BY DEF TypeOK, KeyInv, Running
<1>3. OwnerInv'
  BY DEF TypeOK, KeyInv, OwnerInv, WorkInv, WorkOf, Works, Running, Absent,
      InProgress, Done
<1>4. WorkInv'
  <2> SUFFICES ASSUME NEW b \in Attempts PROVE WorkOf(b)'
    BY DEF WorkInv
  <2>1. pc'[b] \in {"saga", "complete", "cache"} => b \in orders'
    BY DEF TypeOK, WorkInv, WorkOf
  <2>2. pc'[b] \in {"complete", "cache"} => b \in sagas'
    BY DEF TypeOK, WorkInv, WorkOf
  <2>3. pc'[b] = "cache" => rows'[KeyOf[b]] = Done(b)
    BY DEF TypeOK, WorkInv, WorkOf
  <2>4. pc'[b] = "warm" =>
          saved'[b] \in Attempts /\ rows'[KeyOf[b]] = Done(saved'[b])
    BY DEF TypeOK, WorkInv, WorkOf
  <2> QED BY <2>1, <2>2, <2>3, <2>4 DEF WorkOf
<1>5. RowInv'
  BY DEF TypeOK, KeyInv, OwnerInv, WorkInv, WorkOf, RowInv, Works, Running,
      Absent, InProgress, Done
<1>6. CacheIsTrue'
  BY DEF TypeOK, KeyInv, OwnerInv, WorkInv, WorkOf, RowInv, CacheIsTrue,
      Works, Running, Absent, InProgress, Done
<1>7. SuccessIsReal'
  BY DEF TypeOK, KeyInv, WorkInv, WorkOf, RowInv, CacheIsTrue, SuccessIsReal,
      Running, Absent, InProgress, Done, NoAnswer, Conflict, Failure, Success
<1> QED BY <1>1, <1>2, <1>3, <1>4, <1>5, <1>6, <1>7

\* What an attempt left behind stays true.
LEMMA CrashIInv == ASSUME IInv, NEW a \in Attempts, Crash(a) PROVE IInv'
<1> USE PlaceOrderAssumption DEF IInv, Crash, At, Goto, Reply, SetRedis, stores
<1>1. TypeOK'
  BY DEF TypeOK, KeyInv, WorkInv, WorkOf, Running, CacheIsTrue, Labels,
      Entries, Answers, Absent, InProgress, Done, NoAnswer, Conflict, Failure,
      Success
<1>2. KeyInv'
  BY DEF TypeOK, KeyInv, Running
<1>3. OwnerInv'
  BY DEF TypeOK, KeyInv, OwnerInv, WorkInv, WorkOf, Works, Running, Absent,
      InProgress, Done
<1>4. WorkInv'
  <2> SUFFICES ASSUME NEW b \in Attempts PROVE WorkOf(b)'
    BY DEF WorkInv
  <2>1. pc'[b] \in {"saga", "complete", "cache"} => b \in orders'
    BY DEF TypeOK, WorkInv, WorkOf
  <2>2. pc'[b] \in {"complete", "cache"} => b \in sagas'
    BY DEF TypeOK, WorkInv, WorkOf
  <2>3. pc'[b] = "cache" => rows'[KeyOf[b]] = Done(b)
    BY DEF TypeOK, WorkInv, WorkOf
  <2>4. pc'[b] = "warm" =>
          saved'[b] \in Attempts /\ rows'[KeyOf[b]] = Done(saved'[b])
    BY DEF TypeOK, WorkInv, WorkOf
  <2> QED BY <2>1, <2>2, <2>3, <2>4 DEF WorkOf
<1>5. RowInv'
  BY DEF TypeOK, KeyInv, OwnerInv, WorkInv, WorkOf, RowInv, Works, Running,
      Absent, InProgress, Done
<1>6. CacheIsTrue'
  BY DEF TypeOK, KeyInv, OwnerInv, WorkInv, WorkOf, RowInv, CacheIsTrue,
      Works, Running, Absent, InProgress, Done
<1>7. SuccessIsReal'
  BY DEF TypeOK, KeyInv, WorkInv, WorkOf, RowInv, CacheIsTrue, SuccessIsReal,
      Running, Absent, InProgress, Done, NoAnswer, Conflict, Failure, Success
<1> QED BY <1>1, <1>2, <1>3, <1>4, <1>5, <1>6, <1>7

\* What Redis forgets was true when it was there.
LEMMA LoseRedisIInv == ASSUME IInv, NEW k \in Keys, LoseRedis(k) PROVE IInv'
<1> USE DEF IInv, LoseRedis
<1>1. redis' \in [Keys -> Entries] /\ \A j \in Keys : redis'[j] = redis[j] \/ redis'[j] = Absent
  BY DEF TypeOK, Entries
<1>2. Absent.status # "done"
  BY DEF Absent
<1>3. TypeOK'
  BY <1>1 DEF TypeOK
<1>4. CacheIsTrue'
  BY <1>1, <1>2 DEF CacheIsTrue
<1>5. KeyInv' /\ OwnerInv' /\ WorkInv' /\ RowInv' /\ SuccessIsReal'
  BY DEF KeyInv, OwnerInv, WorkInv, WorkOf, RowInv, SuccessIsReal, Works, Running
<1> QED BY <1>3, <1>4, <1>5

\* Every step keeps the invariant.
LEMMA NextIInv == IInv /\ [Next]_vars => IInv'
<1> SUFFICES ASSUME IInv, [Next]_vars PROVE IInv'
  OBVIOUS
<1>1. ASSUME NEW a \in Attempts, Step(a) PROVE IInv'
  BY <1>1, StartIInv, SetNXIInv, GetIInv, InsertIInv, SelectIInv, WarmIInv, GetListingIInv,
     CreateIInv, StartPlaceOrderIInv, CompletePGIInv, CompleteRedisIInv DEF Step
<1>2. ASSUME NEW a \in Attempts, Crash(a) PROVE IInv'
  BY <1>2, CrashIInv
<1>3. ASSUME NEW k \in Keys, LoseRedis(k) PROVE IInv'
  BY <1>3, LoseRedisIInv
<1>4. CASE UNCHANGED vars
  BY <1>4 DEF vars, IInv, TypeOK, KeyInv, OwnerInv, WorkInv, WorkOf, RowInv, CacheIsTrue,
     SuccessIsReal, Works, Running
<1> QED BY <1>1, <1>2, <1>3, <1>4 DEF Next

\* The invariant holds in every behaviour.
THEOREM Invariance == Spec => []IInv
BY InitIInv, NextIInv, PTL DEF Spec

\* The variables keep their types.
THEOREM TypesHold == Spec => []TypeOK
<1>1. IInv => TypeOK
  BY DEF IInv
<1> QED BY <1>1, Invariance, PTL

\* However many attempts carry a key, whatever fails and whatever Redis
\* forgets, one order is created for it.
THEOREM OneOrder == Spec => []OneOrderPerKey
<1>1. IInv => OneOrderPerKey
  BY DEF IInv, TypeOK, OwnerInv, Works, OneOrderPerKey
<1> QED BY <1>1, Invariance, PTL

\* Whoever is told of an order is told of one that exists and whose saga runs.
THEOREM SuccessesAreReal == Spec => []SuccessIsReal
<1>1. IInv => SuccessIsReal
  BY DEF IInv
<1> QED BY <1>1, Invariance, PTL

\* Redis never answers what PostgreSQL would not.
THEOREM CacheTellsTheTruth == Spec => []CacheIsTrue
<1>1. IInv => CacheIsTrue
  BY DEF IInv
<1> QED BY <1>1, Invariance, PTL
=============================================================================
