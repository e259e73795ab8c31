------------------------ MODULE WalletPromiseProofs ------------------------
(***************************************************************************)
(* What the callers of the wallet are promised, for any number of calls,   *)
(* accounts and keys: a payment is made once, answers stay true and agree, *)
(* no calls wait in a circle, and every transaction is one step of         *)
(* WalletAbstract.  All of it rests on the invariant of WalletProofs.      *)
(***************************************************************************)
EXTENDS WalletProofs

\* The only steps that write a row, an entry or an event.
LEMMA WhoPublishes ==
    ASSUME NEW c \in Calls, Moves(c)
    PROVE  \/ UNCHANGED <<reservations, ledger, outbox>>
           \/ ReserveCommit(c) \/ Settle(c) \/ ReleaseCommit(c)
BY DEF Moves, Advance, Accept, Refuse, Abort, Reply, tableVars, ReserveFind,
       ReserveLock, MissingAccount, LockAccount, ReserveBalance, ReadBalance,
       ReserveHeld, ReserveInsert, ReserveReread, FindOperation,
       MissingReservation, RecordOperation, CommitLockReservation,
       LockReservation, LockFirst, LockSecond, RepeatCommit,
       ReleaseLockReservation, ReleaseBalance, ReleaseHeld, BalanceFind,
       BalanceBalance, BalanceHeld

-----------------------------------------------------------------------------
(* A payment is made once. *)

PaidPair(r, c, a) ==
    {[operation |-> c, reference |-> r, amount |-> reservations[r].amount,
      account |-> IF d = "debit" THEN reservations[r].account ELSE a,
      direction |-> d] : d \in {"debit", "credit"}}

Paid(r) ==
    IF reservations[r].status = "committed"
      THEN r \in outbox /\ \E c \in Calls, a \in Accounts : EntriesOf(r) = PaidPair(r, c, a)
      ELSE r \notin outbox /\ EntriesOf(r) = {}

\* What a commit knows when it writes.
LEMMA SettleKnows ==
    ASSUME NEW c \in Calls, CallInv(c), Settle(c)
    PROVE  /\ request[c].reservation \in Calls
           /\ reservations[request[c].reservation].status = "active"
           /\ Buyer(c) \in Accounts /\ Payee(c) \in Accounts
<1>1. CommitInv(c) /\ pc[c] = "commit"
  BY DEF Settle, At, CallInv, Steps
<1>2. First(c) \in Accounts /\ Second(c) \in Accounts
  BY <1>1 DEF CommitInv
<1>3. {First(c), Second(c)} = {Buyer(c), Payee(c)}
  BY DEF First, Second, AccountsInOrder
<1> QED BY <1>1, <1>2, <1>3 DEF CommitInv

\* A commit pays a reservation nobody paid before it, and pays no other.
LEMMA SettlePays ==
    ASSUME TypeOK, PaidOnce, NEW c \in Calls, CallInv(c), Settle(c), NEW s \in Calls
    PROVE  Paid(s)'
<1> DEFINE r == request[c].reservation
           debit == EntryOf(c, Buyer(c), "debit")
           credit == EntryOf(c, Payee(c), "credit")
<1>1. r \in Calls /\ reservations[r].status = "active" /\ Payee(c) \in Accounts
  BY SettleKnows
<1>2. ledger' = ledger \cup {debit, credit} /\ outbox' = outbox \cup {r}
  BY DEF Settle, EventOf
<1>3. reservations' = [reservations EXCEPT ![r].status = "committed"]
  BY DEF Settle, SetStatus
<1>4. debit.reference = r /\ credit.reference = r
  BY DEF EntryOf
<1>5. reservations[r] \in Row
  BY <1>1 DEF TypeOK
<1>6. CASE s = r
  <2>1. reservations'[s] = [reservations[s] EXCEPT !.status = "committed"]
    BY <1>1, <1>3, <1>6 DEF TypeOK
  <2>2. /\ reservations'[s].status = "committed"
        /\ reservations'[s].amount = reservations[s].amount
        /\ reservations'[s].account = reservations[s].account
    BY <1>5, <1>6, <2>1 DEF Row
  <2>3. EntriesOf(s) = {}
    BY <1>1, <1>6 DEF PaidOnce
  <2>4. EntriesOf(s)' = {debit, credit}
    <3> HIDE DEF debit, credit
    <3> QED BY <1>2, <1>4, <1>6, <2>3 DEF EntriesOf
  <2>5. {debit, credit} = PaidPair(s, c, Payee(c))'
    <3>1. PaidPair(s, c, Payee(c))' =
            {[operation |-> c, reference |-> s, amount |-> reservations'[s].amount,
              account |-> reservations'[s].account, direction |-> "debit"],
             [operation |-> c, reference |-> s, amount |-> reservations'[s].amount,
              account |-> Payee(c)', direction |-> "credit"]}
      BY DEF PaidPair
    <3>2. Payee(c)' = Payee(c)
      BY DEF Payee, Settle, Return
    <3> QED BY <1>6, <2>2, <3>1, <3>2 DEF EntryOf, Buyer
  <2>6. Payee(c)' = Payee(c)
    BY DEF Payee, Settle, Return
  <2>7. \E a \in Accounts : EntriesOf(s)' = PaidPair(s, c, a)'
    BY <1>1, <2>4, <2>5, <2>6
  <2> QED BY <1>2, <1>6, <2>2, <2>7 DEF Paid
<1>7. CASE s # r
  <2>1. reservations'[s] = reservations[s]
    BY <1>3, <1>7 DEF TypeOK
  <2>2. EntriesOf(s)' = EntriesOf(s)
    <3> HIDE DEF debit, credit
    <3> QED BY <1>2, <1>4, <1>7 DEF EntriesOf
  <2>3. s \in outbox' <=> s \in outbox
    BY <1>2, <1>7
  <2>4. Paid(s)
    BY DEF PaidOnce, Paid, PaidPair
  <2> QED BY <2>1, <2>2, <2>3, <2>4 DEF Paid, PaidPair
<1> QED BY <1>6, <1>7

\* PaidOnce, reservation by reservation.
LEMMA PaidParts == PaidOnce <=> \A r \in Calls : Paid(r)
BY DEF PaidOnce, Paid, PaidPair

\* A step that pays nobody leaves what was paid as it was.
LEMMA PaidStays ==
    ASSUME UNCHANGED <<ledger, outbox>>, NEW r \in Calls, Paid(r),
           \/ reservations'[r] = reservations[r]
           \/ /\ reservations[r].status # "committed"
              /\ reservations'[r].status # "committed"
    PROVE  Paid(r)'
BY DEF Paid, PaidPair, EntriesOf

\* Every step keeps PaidOnce.
LEMMA PaidOnceKept ==
    ASSUME TypeOK, TableInv, PaidOnce, NEW c \in Calls, CallInv(c), Moves(c)
    PROVE  PaidOnce'
<1> SUFFICES ASSUME NEW r \in Calls PROVE Paid(r)'
  BY DEF PaidOnce, Paid, PaidPair
<1>1. Paid(r)
  BY PaidParts
<1>2. CASE UNCHANGED <<reservations, ledger, outbox>>
  BY <1>1, <1>2, PaidStays
<1>3. CASE ReserveCommit(c)
  <2>1. reservations[c].status = "absent"
    BY <1>3 DEF ReserveCommit, At, TableInv, RowInv
  <2>2. UNCHANGED <<ledger, outbox>>
    BY <1>3 DEF ReserveCommit
  <2>3. r # c => reservations'[r] = reservations[r]
    BY <1>3 DEF ReserveCommit, TypeOK
  <2>4. reservations'[c].status = "active"
    BY <1>3 DEF ReserveCommit, TypeOK
  <2> QED BY <1>1, <2>1, <2>2, <2>3, <2>4, PaidStays
<1>4. CASE ReleaseCommit(c)
  <2> DEFINE s == request[c].reservation
  <2>1. s \in Calls /\ reservations[s].status \in {"active", "released"}
    BY <1>4 DEF ReleaseCommit, At, CallInv, ReleaseInv, Steps
  <2>2. UNCHANGED <<ledger, outbox>> /\ reservations' = [reservations EXCEPT ![s].status = "released"]
    BY <1>4 DEF ReleaseCommit, SetStatus
  <2>3. reservations[s] \in Row
    BY <2>1 DEF TypeOK
  <2>4. r # s => reservations'[r] = reservations[r]
    BY <2>2 DEF TypeOK
  <2>5. reservations'[s].status = "released"
    BY <2>1, <2>2, <2>3 DEF TypeOK, Row
  <2> QED BY <1>1, <2>1, <2>2, <2>4, <2>5, PaidStays
<1>5. CASE Settle(c)
  BY <1>5, SettlePays
<1> QED BY <1>2, <1>3, <1>4, <1>5, WhoPublishes

PaymentInv == IInv /\ PaidOnce

\* No call has paid anything yet.
LEMMA InitPayment == Init => PaymentInv
<1>1. Init => PaidOnce
  BY DEF Init, PaidOnce, EntriesOf, NoRow
<1> QED BY <1>1, InitIInv DEF PaymentInv

\* Every step of Wallet keeps both.
LEMMA NextPayment == PaymentInv /\ [Next]_vars => PaymentInv'
<1> SUFFICES ASSUME PaymentInv, [Next]_vars PROVE PaymentInv'
  OBVIOUS
<1>1. IInv'
  BY NextIInv DEF PaymentInv
<1>2. PaidOnce'
  <2>1. CASE UNCHANGED vars
    BY <2>1 DEF vars, tableVars, PaymentInv, PaidOnce, EntriesOf
  <2>2. CASE Next
    <3>1. PICK c \in Calls : Moves(c)
      BY <2>2 DEF Next, Moves
    <3> QED BY <3>1, PaidOnceKept DEF PaymentInv, IInv
  <2> QED BY <2>1, <2>2
<1> QED BY <1>1, <1>2 DEF PaymentInv

\* A reservation is paid by one pair of entries and one event, or by none.
THEOREM PaymentsAreMadeOnce == Spec => []PaidOnce
<1>1. Spec => []PaymentInv
  BY InitPayment, NextPayment, PTL DEF Spec
<1>2. PaymentInv => PaidOnce
  BY DEF PaymentInv
<1> QED BY <1>1, <1>2, PTL

-----------------------------------------------------------------------------
(* Answers stay true and agree. *)

\* What answer b to call c says of the tables.
Right(c, b) ==
    /\ b.code = "ok" =>
        /\ Kind(c) = "reserve" => \E r \in WithKey(request[c].key) : b = SavedAnswer(r)
        /\ Kind(c) = "commit" /\ KeyIsOwn(c) =>
              /\ StatusFor(c) = "committed"
              /\ b = Ok(b.reference, 0)
              /\ \A e \in EntriesOf(request[c].reservation) : e.operation = b.reference
        /\ Kind(c) = "release" /\ KeyIsOwn(c) => StatusFor(c) = "released"
    /\ b.code = "AlreadyCommitted" => Kind(c) = "release" /\ StatusFor(c) = "committed"
    /\ b.code = "AlreadyReleased" => Kind(c) = "commit" /\ StatusFor(c) = "released"

\* A call knows nothing before it is over, and is right then.
AnswerInv(c) ==
    /\ pc[c] = "idle" => request[c] = NoRequest
    /\ pc[c] # "done" => answer[c] = Failure("none")
    /\ Kind(c) \in {"commit", "release"} => request[c].reservation \in Calls
    /\ Right(c, answer[c])

\* A commit that is about to repeat an answer repeats that of a commit.
AgainInv(c) ==
    Kind(c) = "commit" /\ pc[c] \in {"recordAgain", "commitAgain"} => StatusFor(c) = "committed"

\* A recorded result was a call's answer.
OperationInv == \A o \in operations : \E d \in Calls :
    /\ pc[d] = "done" /\ Kind(d) = o.kind /\ request[d].key = o.key
    /\ answer[d] = o.result /\ o.result.code = "ok"

PromiseInv ==
    /\ PaymentInv
    /\ \A c \in Calls : AnswerInv(c) /\ AgainInv(c)
    /\ OperationInv

\* A failure that names no outcome is right whatever the tables say.
LEMMA FailureIsRight ==
    ASSUME NEW c, NEW code, code \notin {"ok", "AlreadyCommitted", "AlreadyReleased"}
    PROVE  Right(c, Failure(code)) /\ Right(c, Failure(code))'
BY DEF Right, Failure

\* A call is asked for something once.
LEMMA RequestsStay ==
    ASSUME TypeOK, NEW c \in Calls, Moves(c), NEW d \in Calls
    PROVE  \/ request'[d] = request[d]
           \/ d = c /\ pc[d] = "idle" /\ request'[d] \in Requests
<1>1. CASE d # c
  BY <1>1, OthersKeep
<1>2. CASE request' = request
  BY <1>2
<1>3. CASE Accept(c) \/ Refuse(c)
  BY <1>3 DEF Accept, Refuse, TypeOK
<1>4. Accept(c) \/ Refuse(c) \/ request' = request
  BY DEF Moves, Advance, Abort, Reply, Return, ReserveFind, ReserveLock, MissingAccount,
         LockAccount, ReserveBalance, ReadBalance, ReserveHeld, ReserveInsert,
         ReserveReread, ReserveCommit, FindOperation, MissingReservation,
         RecordOperation, CommitLockReservation, LockReservation, LockFirst,
         LockSecond, Settle, RepeatCommit, ReleaseLockReservation, ReleaseBalance,
         ReleaseHeld, ReleaseCommit, BalanceFind, BalanceBalance, BalanceHeld
<1> QED BY <1>1, <1>2, <1>3, <1>4

\* One call is answered at a time.
LEMMA OthersAnswers ==
    ASSUME TypeOK, NEW c \in Calls, Moves(c), NEW d \in Calls, d # c
    PROVE  answer'[d] = answer[d]
<1>1. \/ answer' = answer
      \/ \E b : answer' = [answer EXCEPT ![c] = b]
  BY DEF Moves, Advance, Accept, Refuse, Abort, Reply, Return, ReserveFind, ReserveLock,
         MissingAccount, LockAccount, ReserveBalance, ReadBalance, ReserveHeld,
         ReserveInsert, ReserveReread, ReserveCommit, FindOperation,
         MissingReservation, RecordOperation, CommitLockReservation,
         LockReservation, LockFirst, LockSecond, Settle, RepeatCommit,
         ReleaseLockReservation, ReleaseBalance, ReleaseHeld, ReleaseCommit,
         BalanceFind, BalanceBalance, BalanceHeld
<1> QED BY <1>1 DEF TypeOK

\* A key that is a reservation's own was so all along.
LEMMA KeyWasOwn ==
    ASSUME TypeOK, NEW c \in Calls, Moves(c), AnswerInv(c), NEW d \in Calls,
           Kind(d) \in {"commit", "release"}, request'[d] = request[d], KeyIsOwn(d)'
    PROVE  KeyIsOwn(d)
<1> SUFFICES ASSUME NEW e \in Calls, Kind(e) = Kind(d), request[e].key = request[d].key
             PROVE  request[e].reservation = request[d].reservation
  BY DEF KeyIsOwn
<1>1. CASE request'[e] = request[e]
  BY <1>1 DEF KeyIsOwn, Kind
<1>2. CASE request'[e] # request[e]
  <2>1. e = c /\ pc[e] = "idle"
    BY <1>2, RequestsStay
  <2>2. request[e] = NoRequest
    BY <2>1 DEF AnswerInv
  <2>3. request[e].kind = "balance"
    <3>1. NoRequest.kind = "balance"
      BY DEF NoRequest
    <3> QED BY <2>2, <3>1
  <2>4. Kind(e) = "balance"
    BY <2>3 DEF Kind
  <2> QED BY <2>4
<1> QED BY <1>1, <1>2

\* What an answer may say of the tables stays so.
LEMMA TablesStand ==
    ASSUME TypeOK, TableInv, NEW c \in Calls, CallInv(c), Moves(c), NEW r \in Calls
    PROVE  /\ reservations[r].status = "committed" =>
                 reservations'[r].status = "committed" /\ EntriesOf(r)' = EntriesOf(r)
           /\ reservations[r].status = "released" => reservations'[r].status = "released"
           /\ \A k : r \in WithKey(k) => r \in WithKey(k)' /\ SavedAnswer(r)' = SavedAnswer(r)
<1>1. reservations[r] \in Row
  BY DEF TypeOK
<1>2. \/ reservations'[r] = reservations[r]
      \/ reservations[r].status = "absent"
      \/ /\ reservations[r].status = "active"
         /\ \E status \in Statuses :
               reservations'[r] = [reservations[r] EXCEPT !.status = status]
  BY RowsChange
<1>3. reservations[r].status \in {"committed", "released"} => reservations'[r] = reservations[r]
  BY <1>2
<1>4. \A k : r \in WithKey(k) => r \in WithKey(k)' /\ SavedAnswer(r)' = SavedAnswer(r)
  BY <1>1, <1>2 DEF WithKey, SavedAnswer, Row, Statuses
<1>5. reservations[r].status = "committed" => EntriesOf(r)' = EntriesOf(r)
  <2>1. CASE ledger' = ledger
    BY <2>1 DEF EntriesOf
  <2>2. CASE Settle(c)
    <3>1. reservations[request[c].reservation].status = "active"
      BY <2>2, SettleKnows
    <3> DEFINE debit == EntryOf(c, Buyer(c), "debit")
               credit == EntryOf(c, Payee(c), "credit")
    <3>2. ledger' = ledger \cup {debit, credit}
      BY <2>2 DEF Settle
    <3>3. /\ debit.reference = request[c].reservation
          /\ credit.reference = request[c].reservation
      BY DEF EntryOf
    <3> HIDE DEF debit, credit
    <3> QED BY <3>1, <3>2, <3>3 DEF EntriesOf
  <2>3. ledger' = ledger \/ Settle(c)
    BY WhoWrites DEF ReserveCommit, ReleaseCommit
  <2> QED BY <2>1, <2>2, <2>3
<1> QED BY <1>3, <1>4, <1>5

\* A right answer stays right.
LEMMA RightStays ==
    ASSUME TypeOK, TableInv, NEW c \in Calls, CallInv(c), Moves(c), AnswerInv(c),
           NEW d \in Calls, request'[d] = request[d],
           Kind(d) \in {"commit", "release"} => request[d].reservation \in Calls,
           NEW b, Right(d, b)
    PROVE  Right(d, b)'
<1> DEFINE r == request[d].reservation
<1>1. Kind(d)' = Kind(d)
  BY DEF Kind
<1>2. ASSUME b.code = "ok", Kind(d) = "reserve"
      PROVE  \E s \in WithKey(request[d].key)' : b = SavedAnswer(s)'
  <2>1. PICK k, s : k = request[d].key /\ s \in WithKey(k) /\ b = SavedAnswer(s)
    BY <1>2 DEF Right
  <2>2. s \in Calls
    BY <2>1 DEF WithKey
  <2>3. s \in WithKey(k)' /\ SavedAnswer(s)' = SavedAnswer(s)
    BY <2>1, <2>2, TablesStand
  <2>4. request'[d].key = k
    BY <2>1
  <2>5. WithKey(request[d].key)' = WithKey(k)'
    BY <2>4 DEF WithKey
  <2> QED BY <2>1, <2>3, <2>5
<1>3. ASSUME b.code = "ok", Kind(d) = "commit", KeyIsOwn(d)'
      PROVE  /\ StatusFor(d)' = "committed"
             /\ b = Ok(b.reference, 0)
             /\ \A e \in EntriesOf(r)' : e.operation = b.reference
  <2>1. KeyIsOwn(d)
    BY <1>3, KeyWasOwn
  <2>2. /\ reservations[r].status = "committed"
        /\ b = Ok(b.reference, 0)
        /\ \A e \in EntriesOf(r) : e.operation = b.reference
    BY <1>3, <2>1 DEF Right, StatusFor
  <2>3. reservations'[r].status = "committed" /\ EntriesOf(r)' = EntriesOf(r)
    BY <1>3, <2>2, TablesStand
  <2> QED BY <2>2, <2>3 DEF StatusFor
<1>4. ASSUME b.code = "ok", Kind(d) = "release", KeyIsOwn(d)'
      PROVE  StatusFor(d)' = "released"
  <2>1. KeyIsOwn(d)
    BY <1>4, KeyWasOwn
  <2> QED BY <1>4, <2>1, TablesStand DEF Right, StatusFor
<1>5. b.code = "AlreadyCommitted" => Kind(d) = "release" /\ StatusFor(d)' = "committed"
  BY TablesStand DEF Right, StatusFor
<1>6. b.code = "AlreadyReleased" => Kind(d) = "commit" /\ StatusFor(d)' = "released"
  BY TablesStand DEF Right, StatusFor
<1> SUFFICES
      /\ b.code = "ok" =>
          /\ Kind(d)' = "reserve" => \E s \in WithKey(request[d].key)' : b = SavedAnswer(s)'
          /\ Kind(d)' = "commit" /\ KeyIsOwn(d)' =>
                /\ StatusFor(d)' = "committed"
                /\ b = Ok(b.reference, 0)
                /\ \A e \in EntriesOf(request[d].reservation)' : e.operation = b.reference
          /\ Kind(d)' = "release" /\ KeyIsOwn(d)' => StatusFor(d)' = "released"
      /\ b.code = "AlreadyCommitted" => Kind(d)' = "release" /\ StatusFor(d)' = "committed"
      /\ b.code = "AlreadyReleased" => Kind(d)' = "commit" /\ StatusFor(d)' = "released"
  BY DEF Right
<1> QED BY <1>1, <1>2, <1>3, <1>4, <1>5, <1>6

\* A result recorded under the call's key is right for the call too.
LEMMA RecordedIsRight ==
    ASSUME OperationInv, \A d \in Calls : AnswerInv(d), NEW c \in Calls,
           Kind(c) \in {"commit", "release"}, NEW o \in Recorded(request[c].key, Kind(c))
    PROVE  Right(c, o.result)
<1>1. o \in operations /\ o.key = request[c].key /\ o.kind = Kind(c)
  BY DEF Recorded
<1>2. PICK d \in Calls : /\ Kind(d) = Kind(c) /\ request[d].key = request[c].key
                         /\ answer[d] = o.result /\ o.result.code = "ok"
  BY <1>1 DEF OperationInv
<1>3. Right(d, o.result)
  BY <1>2 DEF AnswerInv
<1>4. KeyIsOwn(c) => KeyIsOwn(d) /\ request[d].reservation = request[c].reservation
  BY <1>2 DEF KeyIsOwn
<1> QED BY <1>2, <1>3, <1>4 DEF Right, StatusFor

\* A step goes on, or answers.
LEMMA MovesGoOnOrReturn ==
    ASSUME TypeOK, NEW c \in Calls, Moves(c)
    PROVE  \/ answer' = answer /\ pc'[c] \in Steps
           \/ Refuse(c)
           \/ \E b : Return(c, b)
<1>1. \A step \in Steps : Goto(c, step) => pc'[c] \in Steps
  BY DEF Goto, TypeOK
<1>2. \/ answer' = answer /\ \E step \in Steps : Goto(c, step)
      \/ Refuse(c)
      \/ \E b : Return(c, b)
  BY DEF Moves, Advance, Accept, Abort, Reply, ReserveFind, ReserveLock,
         MissingAccount, LockAccount, ReserveBalance, ReadBalance,
         ReserveHeld, ReserveInsert, ReserveReread, ReserveCommit, FindOperation,
         MissingReservation, RecordOperation, CommitLockReservation,
         LockReservation, LockFirst, LockSecond, Settle, RepeatCommit,
         ReleaseLockReservation, ReleaseBalance, ReleaseHeld, ReleaseCommit,
         BalanceFind, BalanceBalance, BalanceHeld, Steps
<1> QED BY <1>1, <1>2

\* A commit of a paid reservation finds one operation to answer with.
LEMMA PaidByOne ==
    ASSUME NEW r, Paid(r), reservations[r].status = "committed"
    PROVE  /\ EntriesOf(r) # {}
           /\ \A e, f \in EntriesOf(r) : e.operation = f.operation
<1>1. PICK c, a : EntriesOf(r) = PaidPair(r, c, a)
  BY DEF Paid
<1>2. \A e \in PaidPair(r, c, a) : e.operation = c
  BY DEF PaidPair
<1>3. PaidPair(r, c, a) # {}
  BY DEF PaidPair
<1> QED BY <1>1, <1>2, <1>3

\* The answer a call returns is right when it returns it.
LEMMA ReturnIsRight ==
    ASSUME TypeOK, TableInv, PaidOnce, OperationInv, \A d \in Calls : AnswerInv(d),
           NEW c \in Calls, CallInv(c), AgainInv(c), Moves(c), NEW b, Return(c, b)
    PROVE  Right(c, b)'
<1> DEFINE r == request[c].reservation
<1>1. /\ pc'[c] = "done" /\ answer'[c] = b /\ request' = request
      /\ \A x : Return(c, x) => x = b
      /\ \A x : Reply(c, x) => x = b
      /\ \A step \in Steps : ~ Goto(c, step)
  BY DEF Return, Reply, Goto, TypeOK, Steps
<1>2. Right(c, b) => Right(c, b)'
  BY <1>1, RightStays DEF AnswerInv
<1>3. ASSUME NEW code, code \notin {"ok", "AlreadyCommitted", "AlreadyReleased"},
             Reply(c, Failure(code))
      PROVE  Right(c, b)'
  BY <1>1, <1>3, FailureIsRight
<1>4. CASE Accept(c) \/ Refuse(c)
  BY <1>1, <1>4, FailureIsRight DEF Accept, Refuse, Steps, TypeOK
<1>5. CASE Abort(c)
  BY <1>3, <1>5 DEF Abort
<1>6. ASSUME Kind(c) = "reserve", NEW s \in WithKey(request[c].key), Reply(c, SavedAnswer(s))
      PROVE  Right(c, b)'
  <2>1. b = SavedAnswer(s) /\ b.code = "ok"
    BY <1>1, <1>6 DEF SavedAnswer, Ok
  <2> QED BY <1>2, <1>6, <2>1 DEF Right
<1>7. CASE ReserveFind(c) \/ ReserveReread(c)
  BY <1>1, <1>6, <1>7 DEF ReserveFind, ReserveReread, At, Steps
<1>8. CASE ReserveLock(c)
  BY <1>1, <1>3, <1>8 DEF ReserveLock, MissingAccount, LockAccount, Steps
<1>9. CASE ReserveHeld(c)
  BY <1>1, <1>3, <1>9 DEF ReserveHeld, Steps
<1>10. CASE ReserveCommit(c)
  <2>1. /\ b = Ok(c, reservations'[c].availableAfter) /\ Kind(c)' = "reserve"
        /\ reservations'[c].status = "active" /\ reservations'[c].key = request'[c].key
    BY <1>1, <1>10 DEF ReserveCommit, At, Kind, TypeOK
  <2>2. b.code = "ok"
    BY <2>1 DEF Ok
  <2>3. c \in WithKey(request[c].key)' /\ b = SavedAnswer(c)'
    BY <2>1 DEF WithKey, SavedAnswer
  <2> QED BY <2>1, <2>2, <2>3 DEF Right
<1>11. CASE FindOperation(c)
  BY <1>1, <1>2, <1>11, RecordedIsRight DEF FindOperation, Steps
<1>12. CASE MissingReservation(c)
  BY <1>3, <1>12 DEF MissingReservation
<1>13. ASSUME NEW code, Failure(code) = b,
              \/ code = "AlreadyCommitted" /\ Kind(c) = "release" /\ StatusFor(c) = "committed"
              \/ code = "AlreadyReleased" /\ Kind(c) = "commit" /\ StatusFor(c) = "released"
       PROVE  Right(c, b)'
  BY <1>2, <1>13 DEF Right, Failure
<1>14. CASE CommitLockReservation(c)
  BY <1>1, <1>13, <1>14 DEF CommitLockReservation, LockReservation, At, StatusFor, Steps
<1>15. CASE ReleaseLockReservation(c)
  BY <1>1, <1>13, <1>15 DEF ReleaseLockReservation, LockReservation, At, StatusFor, Steps
<1>16. CASE LockFirst(c) \/ LockSecond(c)
  BY <1>1, <1>3, <1>16 DEF LockFirst, LockSecond, MissingAccount, LockAccount, Steps
<1>17. CASE Settle(c)
  <2>1. b = Ok(c, 0) /\ Kind(c)' = "commit"
    BY <1>1, <1>17 DEF Settle, At, Kind
  <2>2. b.code = "ok" /\ b.reference = c
    BY <2>1 DEF Ok
  <2>3. r \in Calls /\ reservations[r].status = "active"
    BY <1>17, SettleKnows
  <2>4. reservations'[r].status = "committed"
    BY <1>17, <2>3 DEF Settle, SetStatus, TypeOK, Row
  <2>5. \A e \in EntriesOf(r)' : e.operation = c
    <3> DEFINE debit == EntryOf(c, Buyer(c), "debit")
               credit == EntryOf(c, Payee(c), "credit")
    <3>1. EntriesOf(r) = {}
      BY <2>3 DEF PaidOnce
    <3>2. ledger' = ledger \cup {debit, credit}
      BY <1>17 DEF Settle
    <3>3. debit.operation = c /\ credit.operation = c
      BY DEF EntryOf
    <3>4. r' = r
      BY <1>1
    <3> HIDE DEF debit, credit, r
    <3> QED BY <3>1, <3>2, <3>3, <3>4 DEF EntriesOf
  <2>6. StatusFor(c)' = "committed"
    BY <1>1, <2>4 DEF StatusFor
  <2> QED BY <2>1, <2>2, <2>5, <2>6 DEF Right
<1>18. CASE RepeatCommit(c)
  <2>1. PICK e \in EntriesOf(r) : b = Ok(e.operation, 0)
    BY <1>1, <1>18 DEF RepeatCommit
  <2>2. /\ Kind(c) = "commit" /\ StatusFor(c) = "committed" /\ r \in Calls
    BY <1>18 DEF RepeatCommit, At, AgainInv, AnswerInv
  <2>3. \A f \in EntriesOf(r) : f.operation = e.operation
    BY <2>2, PaidByOne, PaidParts DEF StatusFor
  <2>4. b.code = "ok" /\ b.reference = e.operation
    BY <2>1 DEF Ok
  <2> QED BY <1>2, <2>1, <2>2, <2>3, <2>4 DEF Right
<1>19. CASE ReleaseCommit(c)
  <2>1. Kind(c)' = "release" /\ b.code = "ok"
    BY <1>1, <1>19 DEF ReleaseCommit, At, Kind, Ok
  <2>2. r \in Calls
    BY <1>19 DEF ReleaseCommit, At, AnswerInv
  <2>3. StatusFor(c)' = "released"
    BY <1>1, <1>19, <2>2 DEF ReleaseCommit, SetStatus, StatusFor, TypeOK, Row
  <2> QED BY <2>1, <2>3 DEF Right
<1>20. CASE BalanceFind(c)
  BY <1>1, <1>3, <1>20 DEF BalanceFind, MissingAccount, Steps
<1>21. CASE BalanceHeld(c)
  <2>1. Kind(c) = "balance" /\ b.code = "ok"
    BY <1>1, <1>21 DEF BalanceHeld, At, Ok
  <2> QED BY <1>2, <2>1 DEF Right
<1>22. CASE \/ ReserveBalance(c) \/ ReserveInsert(c) \/ RecordOperation(c)
            \/ ReleaseBalance(c) \/ ReleaseHeld(c) \/ BalanceBalance(c)
  BY <1>1, <1>22 DEF ReserveBalance, ReserveInsert, RecordOperation, ReleaseBalance,
                     ReleaseHeld, BalanceBalance, ReadBalance, Steps
<1> QED
  BY <1>4, <1>5, <1>7, <1>8, <1>9, <1>10, <1>11, <1>12, <1>14, <1>15, <1>16, <1>17,
     <1>18, <1>19, <1>20, <1>21, <1>22 DEF Moves, Advance

\* Every step keeps what calls were told, and what they are about to be told.
LEMMA AnswersKept ==
    ASSUME TypeOK, TableInv, PaidOnce, OperationInv, \A d \in Calls : AnswerInv(d),
           NEW c \in Calls, CallInv(c), AgainInv(c), Moves(c), NEW d \in Calls
    PROVE  AnswerInv(d)'
<1>1. CASE d # c
  <2>1. request'[d] = request[d] /\ pc'[d] = pc[d] /\ answer'[d] = answer[d]
    BY <1>1, OthersKeep, OthersAnswers
  <2>2. Right(d, answer[d])'
    BY <2>1, RightStays DEF AnswerInv
  <2> QED BY <2>1, <2>2 DEF AnswerInv, Kind, Right
<1>2. CASE d = c
  <2>1. Kind(d)' \in {"commit", "release"} => request'[d].reservation \in Calls
    BY RequestsStay, WalletAssumption DEF AnswerInv, Kind
  <2>2. CASE answer' = answer /\ pc'[c] \in Steps
    <3>1. answer[c] = Failure("none")
      BY MoverNotDone DEF AnswerInv
    <3>2. Right(c, answer[c])'
      BY <2>2, <3>1, FailureIsRight
    <3> QED BY <1>2, <2>1, <2>2, <3>1, <3>2 DEF AnswerInv, Steps
  <2>3. CASE Refuse(c)
    <3>1. pc'[c] = "done" /\ answer'[c] = Failure("InvalidArgument")
      BY <2>3 DEF Refuse, Goto, TypeOK
    <3> QED BY <1>2, <2>1, <3>1, FailureIsRight DEF AnswerInv
  <2>4. ASSUME NEW b, Return(c, b) PROVE AnswerInv(d)'
    <3>1. pc'[c] = "done" /\ answer'[c] = b
      BY <2>4 DEF Return, TypeOK
    <3>2. Right(c, b)'
      BY <2>4, ReturnIsRight
    <3> QED BY <1>2, <2>1, <3>1, <3>2 DEF AnswerInv, Right
  <2> QED BY <2>2, <2>3, <2>4, MovesGoOnOrReturn
<1> QED BY <1>1, <1>2

\* ... and a commit that found its reservation paid finds it paid later.
LEMMA AgainKept ==
    ASSUME TypeOK, TableInv, \A d \in Calls : AnswerInv(d),
           NEW c \in Calls, CallInv(c), Moves(c), NEW d \in Calls, AgainInv(d)
    PROVE  AgainInv(d)'
<1> SUFFICES ASSUME Kind(d)' = "commit", pc'[d] \in {"recordAgain", "commitAgain"}
             PROVE  StatusFor(d)' = "committed"
  BY DEF AgainInv
<1>1. request'[d] = request[d]
  <2>1. CASE d # c
    BY <2>1, OthersKeep
  <2>2. CASE Accept(c) \/ Refuse(c)
    BY <2>2, OthersKeep DEF Accept, Refuse, Goto, TypeOK
  <2>3. pc[c] = "idle" => Accept(c) \/ Refuse(c)
    BY DEF Moves, Advance, Abort, ReserveFind, ReserveLock, ReserveBalance, ReserveHeld,
           ReserveInsert, ReserveReread, ReserveCommit, FindOperation, MissingReservation,
           RecordOperation, CommitLockReservation, LockFirst, LockSecond, Settle,
           RepeatCommit, ReleaseLockReservation, ReleaseBalance, ReleaseHeld,
           ReleaseCommit, BalanceFind, BalanceBalance, BalanceHeld, At, Steps
  <2> QED BY <2>1, <2>2, <2>3, RequestsStay
<1>2. Kind(d) = "commit" /\ request[d].reservation \in Calls
  BY <1>1 DEF Kind, AnswerInv
<1>3. StatusFor(d) = "committed"
  <2>1. CASE pc'[d] = pc[d]
    BY <1>2, <2>1 DEF AgainInv
  <2>2. CASE pc'[d] # pc[d]
    <3>1. d = c
      BY <2>2, OthersKeep
    <3>2. \A step : Goto(c, step) => step \in {"recordAgain", "commitAgain"}
      BY <3>1 DEF Goto, TypeOK
    <3>3. \A b : ~ Return(c, b)
      BY <3>1 DEF Return, TypeOK
    <3>4. CASE RecordOperation(c)
      BY <1>2, <3>1, <3>2, <3>4 DEF RecordOperation, AgainInv
    <3>5. CASE CommitLockReservation(c)
      BY <3>1, <3>2, <3>3, <3>5 DEF CommitLockReservation, LockReservation, Reply, StatusFor
    <3>6. RecordOperation(c) \/ CommitLockReservation(c)
      BY <3>2, <3>3 DEF Moves, Advance, Accept, Refuse, Abort, Reply, ReserveFind, ReserveLock,
         MissingAccount, LockAccount, ReserveBalance, ReadBalance,
         ReserveHeld, ReserveInsert, ReserveReread, ReserveCommit, FindOperation,
         MissingReservation, LockFirst, LockSecond, Settle, RepeatCommit,
         ReleaseLockReservation, LockReservation, ReleaseBalance, ReleaseHeld,
         ReleaseCommit, BalanceFind, BalanceBalance, BalanceHeld
    <3> QED BY <3>4, <3>5, <3>6
  <2> QED BY <2>1, <2>2
<1> QED BY <1>1, <1>2, <1>3, TablesStand DEF StatusFor

\* A result is recorded by the call it answers.
LEMMA WhoRecords ==
    ASSUME TypeOK, NEW c \in Calls, Moves(c)
    PROVE  \/ operations' = operations
           \/ \E b : Return(c, b) /\ b.code = "ok" /\ InsertOperation(c, b)
<1>1. \A reference, n : Ok(reference, n).code = "ok"
  BY DEF Ok
<1>2. CASE Settle(c) \/ ReleaseCommit(c)
  BY <1>1, <1>2 DEF Settle, ReleaseCommit
<1>3. CASE RepeatCommit(c)
  BY <1>1, <1>3 DEF RepeatCommit
<1>4. operations' = operations \/ Settle(c) \/ ReleaseCommit(c) \/ RepeatCommit(c)
  BY DEF Moves, Advance, Accept, Refuse, Abort, Reply, tableVars, ReserveFind, ReserveLock,
         MissingAccount, LockAccount, ReserveBalance, ReadBalance,
         ReserveHeld, ReserveInsert, ReserveReread, ReserveCommit, FindOperation,
         MissingReservation, RecordOperation, CommitLockReservation,
         LockReservation, LockFirst, LockSecond,
         ReleaseLockReservation, ReleaseBalance, ReleaseHeld,
         BalanceFind, BalanceBalance, BalanceHeld
<1> QED BY <1>2, <1>3, <1>4

\* Every step keeps the recorded results those of calls.
LEMMA OperationsKept ==
    ASSUME TypeOK, OperationInv, NEW c \in Calls, Moves(c)
    PROVE  OperationInv'
<1> DEFINE Said(o, d) == /\ pc[d] = "done" /\ Kind(d) = o.kind /\ request[d].key = o.key
                         /\ answer[d] = o.result /\ o.result.code = "ok"
<1>1. \A o \in operations : \E d \in Calls : Said(o, d)'
  <2> SUFFICES ASSUME NEW o \in operations PROVE \E d \in Calls : Said(o, d)'
    OBVIOUS
  <2>1. PICK d \in Calls : Said(o, d)
    BY DEF OperationInv
  <2>2. d # c
    BY <2>1, MoverNotDone
  <2>3. request'[d] = request[d] /\ pc'[d] = pc[d] /\ answer'[d] = answer[d]
    BY <2>2, OthersKeep, OthersAnswers
  <2> QED BY <2>1, <2>3 DEF Kind
<1>2. ASSUME NEW b, Return(c, b), b.code = "ok", InsertOperation(c, b)
      PROVE  \A o \in operations' : o \in operations \/ Said(o, c)'
  <2>1. /\ pc'[c] = "done" /\ answer'[c] = b /\ request' = request
    BY <1>2 DEF Return, TypeOK
  <2> DEFINE new == [key |-> request[c].key, kind |-> Kind(c), result |-> b]
  <2>2. operations' \in {operations, operations \cup {new}}
    BY <1>2 DEF InsertOperation
  <2>3. Said(new, c)'
    BY <1>2, <2>1 DEF Kind
  <2> HIDE DEF new
  <2> SUFFICES ASSUME NEW o \in operations', o \notin operations PROVE Said(o, c)'
    OBVIOUS
  <2>4. o = new /\ new' = new
    BY <2>1, <2>2 DEF new, Kind
  <2> QED BY <2>3, <2>4
<1>3. \A o \in operations' : \E d \in Calls : Said(o, d)'
  BY <1>1, <1>2, WhoRecords
<1> QED BY <1>3 DEF OperationInv

\* Nobody was told anything yet.
LEMMA InitPromise == Init => PromiseInv
<1> SUFFICES ASSUME Init PROVE PromiseInv
  OBVIOUS
<1>1. OperationInv
  BY DEF Init, OperationInv
<1>2. ASSUME NEW c \in Calls PROVE AnswerInv(c) /\ AgainInv(c)
  <2>1. request[c] = NoRequest /\ pc[c] = "idle" /\ answer[c] = Failure("none")
    BY DEF Init
  <2>2. NoRequest.kind = "balance"
    BY DEF NoRequest
  <2>3. Right(c, answer[c])
    BY <2>1, FailureIsRight
  <2> QED BY <2>1, <2>2, <2>3 DEF AnswerInv, AgainInv, Kind
<1> QED BY <1>1, <1>2, InitPayment DEF PromiseInv

\* Every step of Wallet keeps the invariant.
LEMMA NextPromise == PromiseInv /\ [Next]_vars => PromiseInv'
<1> SUFFICES ASSUME PromiseInv, [Next]_vars PROVE PromiseInv'
  OBVIOUS
<1>1. PaymentInv'
  BY NextPayment DEF PromiseInv
<1>2. CASE UNCHANGED vars
  <2> USE <1>2 DEF vars, callVars, tableVars
  <2>1. OperationInv'
    BY DEF PromiseInv, OperationInv, Kind
  <2>2. ASSUME NEW c \in Calls PROVE AnswerInv(c)' /\ AgainInv(c)'
    <3>1. AnswerInv(c) /\ AgainInv(c)
      BY DEF PromiseInv
    <3>2. Right(c, answer[c])'
      BY <3>1 DEF AnswerInv, Right, WithKey, SavedAnswer, KeyIsOwn, StatusFor, EntriesOf, Kind
    <3> QED BY <3>1, <3>2 DEF AnswerInv, AgainInv, StatusFor, Kind
  <2> QED BY <1>1, <2>1, <2>2 DEF PromiseInv
<1>3. CASE Next
  <2>1. PICK c \in Calls : Moves(c)
    BY <1>3 DEF Next, Moves
  <2>2. /\ TypeOK /\ TableInv /\ CallInv(c) /\ PaidOnce /\ OperationInv
        /\ \A d \in Calls : AnswerInv(d) /\ AgainInv(d)
    BY DEF PromiseInv, PaymentInv, IInv
  <2>3. OperationInv'
    BY <2>1, <2>2, OperationsKept
  <2>4. \A d \in Calls : AnswerInv(d)' /\ AgainInv(d)'
    BY <2>1, <2>2, AnswersKept, AgainKept
  <2> QED BY <1>1, <2>3, <2>4 DEF PromiseInv
<1> QED BY <1>2, <1>3

\* Every call that is over was told what is so, at any time.
LEMMA PromiseHolds == Spec => []PromiseInv
BY InitPromise, NextPromise, PTL DEF Spec

\* What a caller was told stays true.
THEOREM AnswersStayTrue == Spec => []AnswersStand
<1>1. PromiseInv => AnswersStand
  <2> SUFFICES ASSUME PromiseInv, NEW c \in Calls
      PROVE  /\ Succeeded(c, "reserve") => answer[c].reference \in WithKey(request[c].key)
             /\ KeyIsOwn(c) =>
                  /\ Succeeded(c, "commit") =>
                       /\ StatusFor(c) = "committed"
                       /\ \A e \in EntriesOf(request[c].reservation) :
                             e.operation = answer[c].reference
                  /\ Succeeded(c, "release") => StatusFor(c) = "released"
             /\ answer[c].code = "AlreadyCommitted" => StatusFor(c) = "committed"
             /\ answer[c].code = "AlreadyReleased" => StatusFor(c) = "released"
    BY DEF AnswersStand
  <2>1. Right(c, answer[c])
    BY DEF PromiseInv, AnswerInv
  <2>2. \A r : SavedAnswer(r).reference = r
    BY DEF SavedAnswer, Ok
  <2> QED BY <2>1, <2>2 DEF Right, Succeeded
<1> QED BY <1>1, PromiseHolds, PTL

\* Two calls that ask the same and both succeed are told the same, however
\* they ran: a retry gets the answer of the first success.
THEOREM RetriesGetOneAnswer == Spec => []RetriesAgree
<1>1. PromiseInv => RetriesAgree
  <2> SUFFICES ASSUME PromiseInv, NEW c \in Calls, NEW d \in Calls,
                      SameCall(c, d), KeyIsOwn(c), NEW kind \in {"reserve", "commit"},
                      Succeeded(c, kind), Succeeded(d, kind)
               PROVE  answer[c] = answer[d]
    BY DEF RetriesAgree
  <2>1. Right(c, answer[c]) /\ Right(d, answer[d])
    BY DEF PromiseInv, AnswerInv
  <2>2. /\ Kind(c) = kind /\ Kind(d) = kind /\ request[c].key = request[d].key
        /\ request[c].reservation = request[d].reservation
        /\ answer[c].code = "ok" /\ answer[d].code = "ok"
    BY DEF SameCall, Succeeded
  <2>3. CASE kind = "reserve"
    <3>1. PICK r \in WithKey(request[c].key) : answer[c] = SavedAnswer(r)
      BY <2>1, <2>2, <2>3 DEF Right
    <3>2. PICK s \in WithKey(request[c].key) : answer[d] = SavedAnswer(s)
      BY <2>1, <2>2, <2>3 DEF Right
    <3>3. r = s
      BY DEF PromiseInv, PaymentInv, IInv, UniqueKeys, WithKey
    <3> QED BY <3>1, <3>2, <3>3
  <2>4. CASE kind = "commit"
    <3> DEFINE r == request[c].reservation
    <3>1. KeyIsOwn(d)
      BY <2>2 DEF KeyIsOwn
    <3>2. r \in Calls /\ reservations[r].status = "committed"
      BY <2>1, <2>2, <2>4 DEF Right, StatusFor, PromiseInv, AnswerInv
    <3>3. Paid(r)
      BY <3>2, PaidParts DEF PromiseInv, PaymentInv
    <3>4. PICK e : e \in EntriesOf(r)
      BY <3>2, <3>3, PaidByOne
    <3>5. answer[c] = Ok(answer[c].reference, 0) /\ e.operation = answer[c].reference
      BY <2>1, <2>2, <2>4, <3>4 DEF Right
    <3>6. answer[d] = Ok(answer[d].reference, 0) /\ e.operation = answer[d].reference
      BY <2>1, <2>2, <2>4, <3>1, <3>4 DEF Right
    <3> QED BY <3>5, <3>6
  <2> QED BY <2>3, <2>4
<1> QED BY <1>1, PromiseHolds, PTL

-----------------------------------------------------------------------------
(* No calls wait in a circle. *)

\* How far a call must be to hold a row or a key.
LockInv(d) ==
    /\ \A a \in Accounts : Holds(d, AccountRow(a)) =>
          \/ Kind(d) = "reserve" /\ pc[d] \in {"balance", "held", "insert", "reread", "commit"}
          \/ Kind(d) = "commit" /\ pc[d] = "lockSecond" /\ a = First(d)
          \/ Kind(d) = "commit" /\ pc[d] \in {"record", "commit"}
    /\ \A r \in Calls : Holds(d, ReservationRow(r)) =>
          /\ Kind(d) \in {"commit", "release"}
          /\ pc[d] \in Steps \ {"find", "lockReservation"}
    /\ \A k \in Keys : Holds(d, ReservationKey(k)) => Kind(d) = "reserve" /\ pc[d] = "commit"
    /\ \A k \in Keys, kind \in {"commit", "release"} : Holds(d, OperationKey(k, kind)) =>
          Kind(d) \in {"commit", "release"} /\ pc[d] \in {"commit", "commitAgain"}

\* Rows and keys of different tables are different things to hold.
LEMMA ResourcesDiffer ==
    /\ \A a, b : AccountRow(a) = AccountRow(b) => a = b
    /\ \A a, r : AccountRow(a) # ReservationRow(r)
    /\ \A a, k : AccountRow(a) # ReservationKey(k)
    /\ \A a, k, kind : AccountRow(a) # OperationKey(k, kind)
    /\ \A r, k : ReservationRow(r) # ReservationKey(k)
    /\ \A r, k, kind : ReservationRow(r) # OperationKey(k, kind)
    /\ \A k, l, kind : ReservationKey(k) # OperationKey(l, kind)
BY DEF AccountRow, ReservationRow, ReservationKey, OperationKey

\* A call takes nothing for another.
LEMMA OthersTakeNothing ==
    ASSUME TypeOK, NEW c \in Calls, Moves(c), NEW d \in Calls, d # c, NEW x, Holds(d, x)'
    PROVE  Holds(d, x)
<1>1. \/ holder' = holder
      \/ \E y : holder' = [holder EXCEPT ![y] = c]
      \/ holder' = [y \in Resources |-> IF holder[y] = c THEN NoCall ELSE holder[y]]
  BY DEF Moves, Advance, Accept, Refuse, Abort, Reply, Return, Take, ReserveFind, ReserveLock,
         MissingAccount, LockAccount, ReserveBalance, ReadBalance,
         ReserveHeld, ReserveInsert, ReserveReread, ReserveCommit, FindOperation,
         MissingReservation, RecordOperation, CommitLockReservation,
         LockReservation, LockFirst, LockSecond, Settle, RepeatCommit,
         ReleaseLockReservation, ReleaseBalance, ReleaseHeld, ReleaseCommit,
         BalanceFind, BalanceBalance, BalanceHeld
<1>2. x \in Resources /\ holder'[x] = d
  BY DEF Holds, Resources
<1> QED BY <1>1, <1>2, WalletAssumption DEF Holds, TypeOK

\* The accounts a commit locks stay the same while it holds its reservation.
LEMMA OrderStands ==
    ASSUME TypeOK, TableInv, NEW c \in Calls, CallInv(c), Moves(c), NEW d \in Calls, CallInv(d),
           request'[d] = request[d], Kind(d) = "commit", pc[d] \in {"lockFirst", "lockSecond"}
    PROVE  First(d)' = First(d) /\ Second(d)' = Second(d)
<1> DEFINE r == request[d].reservation
<1>1. r \in Calls /\ reservations[r].status = "active"
  BY DEF CallInv, CommitInv, Steps
<1>2. reservations[r] \in Row
  BY <1>1 DEF TypeOK
<1>3. reservations'[r].account = reservations[r].account
  BY <1>1, <1>2, RowsChange DEF Row
<1>4. Buyer(d)' = Buyer(d) /\ Payee(d)' = Payee(d)
  BY <1>3 DEF Buyer, Payee
<1> QED BY <1>4 DEF First, Second, AccountsInOrder

\* A step of one call leaves what the others hold in its place.
LEMMA OthersKeepLocks ==
    ASSUME TypeOK, TableInv, NEW c \in Calls, CallInv(c), Moves(c),
           NEW d \in Calls, d # c, CallInv(d), LockInv(d)
    PROVE  LockInv(d)'
<1>1. request'[d] = request[d] /\ pc'[d] = pc[d]
  BY OthersKeep
<1>2. \A x : Holds(d, x)' => Holds(d, x)
  BY OthersTakeNothing
<1>3. Kind(d) = "commit" /\ pc[d] = "lockSecond" => First(d)' = First(d)
  BY <1>1, OrderStands
<1>4. Kind(d)' = Kind(d)
  BY <1>1 DEF Kind
<1> QED BY <1>1, <1>2, <1>3, <1>4 DEF LockInv

\* What a call that takes nothing may do with what it holds.
LEMMA KeepsPlace ==
    ASSUME NEW c \in Calls, LockInv(c), holder' = holder,
           \/ \A x : ~ Holds(c, x)
           \/ /\ Kind(c)' = Kind(c)
              /\ \/ /\ Kind(c) = "reserve"
                    /\ pc'[c] \in {"held", "insert", "reread"}
                    /\ pc[c] \in {"balance", "held", "insert"}
                 \/ /\ Kind(c) = "release"
                    /\ pc[c] \in {"balance", "held"} /\ pc'[c] \in {"held", "record"}
                 \/ /\ Kind(c) \in {"commit", "release"}
                    /\ pc[c] = "record" /\ pc'[c] = "commit"
                 \/ /\ Kind(c) \in {"commit", "release"}
                    /\ pc[c] = "recordAgain" /\ pc'[c] = "commitAgain"
    PROVE  LockInv(c)'
<1>1. \A x : Holds(c, x)' <=> Holds(c, x)
  BY DEF Holds, Resources
<1> QED BY <1>1 DEF LockInv, Steps

\* A call that takes x holds x besides what it held.
LEMMA TakesOne ==
    ASSUME TypeOK, NEW c \in Calls, NEW x, Take(x, c), NEW y, Holds(c, y)'
    PROVE  y = x \/ Holds(c, y)
<1>1. y \in Resources /\ holder'[y] = c
  BY DEF Holds, Resources
<1> QED BY <1>1 DEF Take, Holds, TypeOK

\* A call keeps its own locks in their place.
LEMMA SelfKeepsLocks ==
    ASSUME TypeOK, TableInv, NEW c \in Calls, CallInv(c), Moves(c), LockInv(c)
    PROVE  LockInv(c)'
<1>1. ASSUME NEW b, Return(c, b) PROVE LockInv(c)'
  <2>1. \A x : ~ Holds(c, x)'
    BY <1>1, WalletAssumption DEF Return, Holds, Resources
  <2> QED BY <2>1 DEF LockInv
<1>2. ASSUME NEW b, Reply(c, b) PROVE LockInv(c)'
  BY <1>1, <1>2 DEF Reply
<1>3. \A step : Goto(c, step) => pc'[c] = step
  BY DEF Goto, TypeOK
<1>4. request' = request => Kind(c)' = Kind(c)
  BY DEF Kind
<1>5. pc[c] \in {"idle", "find", "lockReservation"}
         \/ (pc[c] = "lockFirst" /\ Kind(c) = "reserve") \/ Kind(c) = "balance"
      => \A x : ~ Holds(c, x)
  BY DEF LockInv, Holds, Resources, Steps
<1>6. CASE Accept(c) \/ Refuse(c)
  BY <1>5, <1>6, KeepsPlace DEF Accept, Refuse
<1>7. CASE Abort(c)
  BY <1>2, <1>7 DEF Abort
<1>8. CASE ReserveFind(c) \/ FindOperation(c)
  BY <1>2, <1>5, <1>8, KeepsPlace DEF ReserveFind, FindOperation, At
<1>9. CASE BalanceFind(c) \/ BalanceBalance(c) \/ BalanceHeld(c)
  BY <1>2, <1>5, <1>9, KeepsPlace DEF BalanceFind, MissingAccount, BalanceBalance, ReadBalance,
                                      BalanceHeld, At
<1>10. CASE ReserveBalance(c) \/ ReserveHeld(c)
  BY <1>2, <1>3, <1>4, <1>10, KeepsPlace DEF ReserveBalance, ReadBalance, ReserveHeld, At
<1>11. CASE ReleaseBalance(c) \/ ReleaseHeld(c)
  BY <1>2, <1>3, <1>4, <1>11, KeepsPlace DEF ReleaseBalance, ReadBalance, ReleaseHeld, At
<1>12. CASE ReserveReread(c) \/ MissingReservation(c) \/ ReserveCommit(c) \/ Settle(c)
            \/ RepeatCommit(c) \/ ReleaseCommit(c)
  BY <1>1, <1>2, <1>12 DEF ReserveReread, MissingReservation, ReserveCommit, Settle, RepeatCommit, ReleaseCommit
<1>13. ASSUME NEW a, LockAccount(c, a, "balance"), Kind(c) = "reserve", pc[c] = "lockFirst"
       PROVE  LockInv(c)'
  <2>1. \A x : Holds(c, x)' => x = AccountRow(a)
    BY <1>5, <1>13, TakesOne DEF LockAccount
  <2>2. pc'[c] = "balance" /\ Kind(c)' = "reserve"
    BY <1>3, <1>4, <1>13 DEF LockAccount
  <2> QED BY <2>1, <2>2, ResourcesDiffer DEF LockInv
<1>14. CASE ReserveLock(c)
  BY <1>2, <1>13, <1>14 DEF ReserveLock, MissingAccount, At
<1>15. CASE ReserveInsert(c)
  <2>1. Kind(c)' = Kind(c) /\ Kind(c) = "reserve" /\ pc[c] = "insert"
    BY <1>4, <1>15 DEF ReserveInsert, At
  <2>2. CASE holder' = holder /\ Goto(c, "reread")
    BY <1>3, <2>1, <2>2, KeepsPlace
  <2>3. CASE Take(ReservationKey(request[c].key), c) /\ Goto(c, "commit")
    <3>1. \A x : Holds(c, x)' => x = ReservationKey(request[c].key) \/ Holds(c, x)
      BY <2>3, TakesOne
    <3>2. pc'[c] = "commit"
      BY <1>3, <2>3
    <3> QED BY <2>1, <3>1, <3>2, ResourcesDiffer DEF LockInv
  <2> QED BY <1>15, <2>2, <2>3 DEF ReserveInsert
<1>16. ASSUME NEW r, NEW step \in Steps \ {"find", "lockReservation"}, LockReservation(c, step), Kind(c) \in {"commit", "release"},
              pc[c] = "lockReservation"
       PROVE  LockInv(c)'
  <2> DEFINE x == ReservationRow(request[c].reservation)
  <2>1. \A y : Holds(c, y)' => y = x
    BY <1>5, <1>16, TakesOne DEF LockReservation
  <2>2. pc'[c] = step /\ Kind(c)' = Kind(c)
    BY <1>3, <1>4, <1>16 DEF LockReservation
  <2> QED BY <1>16, <2>1, <2>2, ResourcesDiffer DEF LockInv
<1>17. CASE CommitLockReservation(c)
  BY <1>2, <1>16, <1>17 DEF CommitLockReservation, At, Steps
<1>18. CASE ReleaseLockReservation(c)
  BY <1>2, <1>16, <1>18 DEF ReleaseLockReservation, At, Steps
<1>19. CASE LockFirst(c)
  <2>1. CASE LockAccount(c, First(c), "lockSecond")
    <3>1. \A x : Holds(c, x)' => x = AccountRow(First(c)) \/ Holds(c, x)
      BY <2>1, TakesOne DEF LockAccount
    <3>2. pc'[c] = "lockSecond" /\ Kind(c)' = "commit" /\ pc[c] = "lockFirst" /\ Kind(c) = "commit"
      BY <1>3, <1>4, <1>19, <2>1 DEF LockFirst, LockAccount, At
    <3>3. First(c)' = First(c)
      BY <2>1, <3>2, OrderStands DEF LockAccount
    <3> QED BY <3>1, <3>2, <3>3, ResourcesDiffer DEF LockInv, Steps
  <2> QED BY <1>2, <1>19, <2>1 DEF LockFirst, MissingAccount
<1>20. CASE LockSecond(c)
  <2>1. CASE LockAccount(c, Second(c), "record")
    <3>1. \A x : Holds(c, x)' => x = AccountRow(Second(c)) \/ Holds(c, x)
      BY <2>1, TakesOne DEF LockAccount
    <3>2. pc'[c] = "record" /\ Kind(c)' = "commit" /\ pc[c] = "lockSecond" /\ Kind(c) = "commit"
      BY <1>3, <1>4, <1>20, <2>1 DEF LockSecond, LockAccount, At
    <3> QED BY <3>1, <3>2, ResourcesDiffer DEF LockInv, Steps
  <2> QED BY <1>2, <1>20, <2>1 DEF LockSecond, MissingAccount
<1>21. CASE RecordOperation(c)
  <2> DEFINE x == OperationKey(request[c].key, Kind(c))
  <2>1. Kind(c) \in {"commit", "release"} /\ Kind(c)' = Kind(c)
    <3>1. Kind(c) \in Kinds
      BY DEF TypeOK, Request, Kind
    <3> QED BY <1>4, <1>21, <3>1 DEF RecordOperation, CallInv, ReserveInv, BalanceInv, Kinds, Steps
  <2>2. \/ pc[c] = "record" /\ pc'[c] = "commit"
        \/ pc[c] = "recordAgain" /\ pc'[c] = "commitAgain"
    BY <1>3, <1>21 DEF RecordOperation
  <2>3. CASE holder' = holder
    BY <2>1, <2>2, <2>3, KeepsPlace
  <2>4. CASE Take(x, c)
    <3>1. \A y : Holds(c, y)' => y = x \/ Holds(c, y)
      BY <2>4, TakesOne
    <3> QED BY <2>1, <2>2, <3>1, ResourcesDiffer DEF LockInv, Steps
  <2> QED BY <1>21, <2>3, <2>4 DEF RecordOperation
<1> QED
  BY <1>6, <1>7, <1>8, <1>9, <1>10, <1>11, <1>12, <1>14, <1>15, <1>17, <1>18, <1>19, <1>20,
     <1>21 DEF Moves, Advance

\* What a call waits for, by where it is.
LEMMA WantedCases ==
    ASSUME TypeOK, NEW c \in Calls, CallInv(c), Wanted(c) \in Resources
    PROVE  \/ /\ pc[c] \in {"lockFirst", "lockSecond"}
              /\ \E a \in Accounts : /\ Wanted(c) = AccountRow(a)
                                     /\ pc[c] = "lockSecond" => Kind(c) = "commit" /\ a = Second(c)
           \/ pc[c] = "lockReservation" /\ \E r \in Calls : Wanted(c) = ReservationRow(r)
           \/ pc[c] = "insert" /\ \E k \in Keys : Wanted(c) = ReservationKey(k)
           \/ /\ pc[c] \in {"record", "recordAgain"}
              /\ \E k \in Keys, kind \in {"commit", "release"} : Wanted(c) = OperationKey(k, kind)
<1>1. /\ \A a : AccountRow(a) \in Resources => a \in Accounts
      /\ \A r : ReservationRow(r) \in Resources => r \in Calls
      /\ \A k : ReservationKey(k) \in Resources => k \in Keys
      /\ \A k, kind : OperationKey(k, kind) \in Resources =>
                         k \in Keys /\ kind \in {"commit", "release"}
  BY DEF Resources, AccountRow, ReservationRow, ReservationKey, OperationKey
<1>2. <<"nothing">> \notin Resources
  BY DEF Resources, AccountRow, ReservationRow, ReservationKey, OperationKey
<1>3. Kind(c) \in Kinds
  BY DEF TypeOK, Request, Kind
<1>4. pc[c] = "lockSecond" => Kind(c) = "commit"
  BY <1>3 DEF CallInv, ReserveInv, ReleaseInv, BalanceInv, Kinds, Steps
<1>5. CASE At(c, "reserve", "lockFirst")
  <2>1. Wanted(c) = AccountRow(request[c].account)
    BY <1>5 DEF Wanted, At
  <2> QED BY <1>1, <1>5, <2>1 DEF At
<1>6. CASE At(c, "reserve", "insert")
  <2>1. Wanted(c) = ReservationKey(request[c].key)
    BY <1>6 DEF Wanted, At
  <2> QED BY <1>1, <1>6, <2>1 DEF At
<1>7. CASE pc[c] = "lockReservation"
  <2>1. Wanted(c) = ReservationRow(request[c].reservation)
    BY <1>7 DEF Wanted, At
  <2> QED BY <1>1, <1>7, <2>1
<1>8. CASE At(c, "commit", "lockFirst")
  <2>1. Wanted(c) = AccountRow(First(c))
    BY <1>8 DEF Wanted, At
  <2> QED BY <1>1, <1>8, <2>1 DEF At
<1>9. CASE pc[c] = "lockSecond"
  <2>1. Wanted(c) = AccountRow(Second(c))
    BY <1>9 DEF Wanted, At
  <2> QED BY <1>1, <1>4, <1>9, <2>1
<1>10. CASE pc[c] \in {"record", "recordAgain"}
  <2>1. Wanted(c) = OperationKey(request[c].key, Kind(c))
    BY <1>10 DEF Wanted, At
  <2> QED BY <1>1, <1>10, <2>1
<1>11. CASE /\ ~ At(c, "reserve", "lockFirst") /\ ~ At(c, "reserve", "insert")
            /\ pc[c] # "lockReservation" /\ ~ At(c, "commit", "lockFirst")
            /\ pc[c] # "lockSecond" /\ pc[c] \notin {"record", "recordAgain"}
  <2>1. Wanted(c) = <<"nothing">>
    BY <1>11 DEF Wanted
  <2> QED BY <1>2, <2>1
<1> QED BY <1>5, <1>6, <1>7, <1>8, <1>9, <1>10, <1>11

\* The calls waited for: one that holds a key is about to end and waits for
\* nothing, one that holds an account waits only as a commit for its second
\* account, and one that holds a reservation waits for an account.
LEMMA WaitingChain ==
    ASSUME TypeOK, NEW c \in Calls, CallInv(c), NEW d \in Calls, LockInv(d), WaitsFor(c, d)
    PROVE  \/ /\ pc[c] \in {"lockFirst", "lockSecond"}
              /\ \E a \in Accounts : /\ Holds(d, AccountRow(a))
                                     /\ pc[c] = "lockSecond" => Kind(c) = "commit" /\ a = Second(c)
           \/ pc[c] = "lockReservation" /\ pc[d] \in Steps \ {"find", "lockReservation"}
           \/ pc[c] \in {"insert", "record", "recordAgain"} /\ pc[d] \in {"commit", "commitAgain"}
<1>1. Wanted(c) \in Resources /\ Holds(d, Wanted(c))
  BY DEF WaitsFor, Holds
<1> QED BY <1>1, WantedCases DEF LockInv

LockedInv == IInv /\ \A c \in Calls : LockInv(c)

\* In a circle of waiting calls there would be commits that each hold one
\* account and wait for a larger one that another of them holds.
LEMMA NoCircle == LockedInv => NoDeadlock
<1> SUFFICES ASSUME LockedInv, NEW ring \in SUBSET Calls, ring # {},
                    \A c \in ring : \E d \in ring : WaitsFor(c, d)
             PROVE  FALSE
  BY DEF NoDeadlock
<1> DEFINE A == {e \in ring : Kind(e) = "commit" /\ pc[e] = "lockSecond"}
<1>1. /\ TypeOK
      /\ \A c \in ring : CallInv(c) /\ LockInv(c)
  BY DEF LockedInv, IInv
<1>2. \A c \in ring : pc[c] \in {"lockReservation", "lockFirst", "lockSecond", "insert",
                                 "record", "recordAgain"}
  BY <1>1, WaitingChain
<1>3. \A c \in ring : pc[c] \in {"lockReservation", "lockFirst", "lockSecond"}
  <2> SUFFICES ASSUME NEW c \in ring PROVE pc[c] \in {"lockReservation", "lockFirst", "lockSecond"}
    OBVIOUS
  <2>1. PICK d \in ring : WaitsFor(c, d)
    OBVIOUS
  <2>2. pc[d] \notin {"commit", "commitAgain"}
    BY <1>2
  <2> QED BY <1>1, <2>1, <2>2, WaitingChain
<1>4. \A d \in ring, a \in Accounts : Holds(d, AccountRow(a)) => d \in A /\ a = First(d)
  BY <1>1, <1>3 DEF LockInv
<1>5. \A c \in ring : pc[c] \in {"lockFirst", "lockSecond"} => A # {}
  <2> SUFFICES ASSUME NEW c \in ring, pc[c] \in {"lockFirst", "lockSecond"} PROVE A # {}
    OBVIOUS
  <2>1. PICK d \in ring : WaitsFor(c, d)
    OBVIOUS
  <2>2. \E a \in Accounts : Holds(d, AccountRow(a))
    BY <1>1, <2>1, WaitingChain
  <2> QED BY <1>4, <2>2
<1>6. A # {}
  <2>1. PICK c \in ring : TRUE
    OBVIOUS
  <2>2. PICK d \in ring : WaitsFor(c, d)
    OBVIOUS
  <2>3. CASE pc[c] = "lockReservation"
    <3>1. pc[d] # "lockReservation"
      BY <1>1, <2>2, <2>3, WaitingChain
    <3> QED BY <1>3, <1>5, <3>1
  <2> QED BY <1>3, <1>5, <2>3
<1>7. ASSUME NEW e \in A PROVE First(e) \in Int /\ \E f \in A : First(e) < First(f)
  <2>1. PICK f \in ring : WaitsFor(e, f)
    OBVIOUS
  <2>2. Holds(f, AccountRow(Second(e))) /\ Second(e) \in Accounts /\ f # e
    BY <1>1, <2>1, WaitingChain DEF WaitsFor
  <2>3. f \in A /\ First(f) = Second(e)
    BY <1>4, <2>2
  <2>4. First(e) \in Accounts /\ Holds(e, AccountRow(First(e)))
    BY <1>1 DEF CallInv, CommitInv, Steps
  <2>5. First(e) # Second(e)
    BY <2>2, <2>4 DEF Holds
  <2>6. Buyer(e) \in Int /\ Payee(e) \in Int
    BY <1>1 DEF TypeOK, Row, Request, Buyer, Payee, CallInv, CommitInv, Steps
  <2>7. First(e) <= Second(e) /\ First(e) \in Int /\ Second(e) \in Int
    BY <2>6 DEF First, Second, AccountsInOrder
  <2> QED BY <2>3, <2>5, <2>7
<1>8. IsFiniteSet(A)
  BY FS_Subset, WalletAssumption
<1> DEFINE f == [e \in A |-> First(e)]
<1>9. f \in [A -> Int] /\ \A x \in A : \E y \in A : f[x] < f[y]
  BY <1>7
<1> HIDE DEF A, f
<1> QED BY <1>6, <1>8, <1>9, NoEndlessRise

\* No set of calls waits in a circle, whatever accounts they name: a commit
\* takes the smaller account first.
THEOREM NeverDeadlocked == Spec => []NoDeadlock
<1>1. Init => LockedInv
  <2>1. Init => \A c \in Calls : LockInv(c)
    BY WalletAssumption DEF Init, LockInv, Holds
  <2> QED BY <2>1, InitIInv DEF LockedInv
<1>2. LockedInv /\ [Next]_vars => LockedInv'
  <2> SUFFICES ASSUME LockedInv, [Next]_vars, NEW d \in Calls PROVE LockInv(d)'
    BY NextIInv DEF LockedInv
  <2>1. CASE UNCHANGED vars
    BY <2>1 DEF vars, callVars, tableVars, LockedInv, LockInv, Holds, Kind, First,
                AccountsInOrder, Buyer, Payee, Resources
  <2>2. CASE Next
    <3>1. PICK c \in Calls : Moves(c)
      BY <2>2 DEF Next, Moves
    <3>2. /\ TypeOK /\ TableInv /\ CallInv(c) /\ CallInv(d) /\ LockInv(c) /\ LockInv(d)
      BY DEF LockedInv, IInv
    <3> QED BY <3>1, <3>2, OthersKeepLocks, SelfKeepsLocks
  <2> QED BY <2>1, <2>2
<1>3. Spec => []LockedInv
  BY <1>1, <1>2, PTL DEF Spec
<1> QED BY <1>3, NoCircle, PTL

-----------------------------------------------------------------------------
(* Every transaction is one step of WalletAbstract. *)

holds == [r \in Calls |-> HoldOf(reservations[r])]
balances == [a \in Accounts |-> LedgerBalance(a)]

\* A hold says of a row what the row says.
LEMMA HoldFields ==
    ASSUME NEW row \in Row
    PROVE  /\ HoldOf(row).status = row.status
           /\ row.status # "absent" =>
                 /\ HoldOf(row).account = row.account
                 /\ HoldOf(row).amount = row.amount
                 /\ HoldOf(row).key = row.key
                 /\ HoldOf(row) # [status |-> "absent"]
           /\ row.status = "absent" => HoldOf(row) = [status |-> "absent"]
<1>1. CASE row.status = "absent"
  BY <1>1 DEF HoldOf
<1>2. CASE row.status # "absent"
  <2> DEFINE h == [status |-> row.status, account |-> row.account,
                   amount |-> row.amount, key |-> row.key]
  <2>1. HoldOf(row) = h
    BY <1>2 DEF HoldOf
  <2>2. h.status = row.status /\ h.account = row.account /\ h.amount = row.amount /\ h.key = row.key
    OBVIOUS
  <2>3. [status |-> "absent"].status = "absent"
    OBVIOUS
  <2> HIDE DEF h
  <2>4. h # [status |-> "absent"]
    BY <1>2, <2>2, <2>3
  <2> QED BY <1>2, <2>1, <2>2, <2>4
<1> QED BY <1>1, <1>2

\* Only the status of an active row's hold changes with the row's.
LEMMA HoldStatus ==
    ASSUME NEW row \in Row, row.status # "absent", NEW status \in Statuses
    PROVE  HoldOf([row EXCEPT !.status = status]) = [HoldOf(row) EXCEPT !.status = status]
<1> DEFINE new == [row EXCEPT !.status = status]
<1>1. /\ new.status = status /\ new.account = row.account
      /\ new.amount = row.amount /\ new.key = row.key
  BY DEF Row
<1>2. status # "absent"
  BY DEF Statuses
<1> HIDE DEF new
<1>3. HoldOf(new) = [status |-> status, account |-> row.account,
                     amount |-> row.amount, key |-> row.key]
  BY <1>1, <1>2 DEF HoldOf
<1>4. HoldOf(row) = [status |-> row.status, account |-> row.account,
                     amount |-> row.amount, key |-> row.key]
  BY DEF HoldOf
<1> QED BY <1>3, <1>4 DEF new

\* The promise adds up as the tables do.
LEMMA SameSum ==
    ASSUME NEW amount, NEW rows
    PROVE  Abstract!SumOf(amount, rows) = SumOf(amount, rows)
<1>1. Abstract!Units(amount, rows) = Units(amount, rows)
  BY DEF Abstract!Units, Units
<1>2. \A S : Abstract!Cardinality(S) = Cardinality(S)
  BY DEF Abstract!Cardinality, Cardinality
<1> QED BY <1>1, <1>2, Zenon DEF Abstract!SumOf, SumOf

\* What the promise counts as available is what the tables leave.
LEMMA AvailableIs ==
    ASSUME TypeOK, NEW a \in Accounts
    PROVE  Abstract!Available(a) = LedgerBalance(a) - ActiveReservedSum(a)
<1>1. \A r \in Calls : /\ holds[r].status = reservations[r].status
                       /\ reservations[r].status # "absent" =>
                             /\ holds[r].account = reservations[r].account
                             /\ holds[r].amount = reservations[r].amount
  BY HoldFields DEF holds, TypeOK
<1>2. Abstract!OpenOn(a) = {r \in Calls : holds[r].status = "active" /\ holds[r].account = a}
  BY DEF Abstract!OpenOn, holds
<1>3. Abstract!OpenOn(a) = ActiveOn(a)
  BY <1>1, <1>2 DEF ActiveOn
<1> DEFINE f == [r \in ActiveOn(a) |-> holds[r].amount]
           g == [r \in Calls |-> reservations[r].amount]
<1>4. \A r \in ActiveOn(a) : f[r] = g[r]
  BY <1>1 DEF ActiveOn
<1> HIDE DEF f, g
<1>5. SumOf(f, ActiveOn(a)) = SumOf(g, ActiveOn(a))
  BY <1>4, SumAgrees
<1>6. Abstract!Available(a) = balances[a] - SumOf(f, ActiveOn(a))
  <2>1. Abstract!Available(a) =
            balances[a] - Abstract!SumOf([r \in Abstract!OpenOn(a) |-> holds[r].amount],
                                         Abstract!OpenOn(a))
    BY DEF Abstract!Available, balances, holds
  <2>2. [r \in Abstract!OpenOn(a) |-> holds[r].amount] = f
    BY <1>3 DEF f
  <2> QED BY <1>3, <2>1, <2>2, SameSum
<1>7. ActiveReservedSum(a) = SumOf(g, ActiveOn(a))
  BY DEF ActiveReservedSum, HeldBy, g
<1>8. balances[a] = LedgerBalance(a)
  BY DEF balances
<1> QED BY <1>5, <1>6, <1>7, <1>8

\* A reserve that commits holds money that is available, under a new key.
LEMMA ReserveHolds ==
    ASSUME IInv, NEW c \in Calls, ReserveCommit(c)
    PROVE  Abstract!AbsNext
<1> PICK a, n, k : a = request[c].account /\ n = request[c].amount /\ k = request[c].key
  OBVIOUS
<1>1. /\ TypeOK /\ TableInv /\ ReserveInv(c) /\ pc[c] = "commit" /\ pc[c] # "done"
  BY DEF IInv, CallInv, ReserveCommit, At, Steps
<1>2. /\ a \in Accounts /\ k \in Keys /\ n \in Int /\ n > 0
  BY <1>1 DEF ReserveInv, TypeOK, Request
<1>3. /\ seenBalance[c] = LedgerBalance(a) /\ seenHeld[c] >= ActiveReservedSum(a)
      /\ seenBalance[c] - seenHeld[c] >= n /\ seenBalance[c] \in Int /\ seenHeld[c] \in Int
  BY <1>1 DEF ReserveInv, TypeOK
<1>4. ActiveReservedSum(a) \in Nat
  BY <1>1, <1>2, SumsTyped
<1>5. Abstract!Available(a) \in Int /\ Abstract!Available(a) >= n
  BY <1>1, <1>2, <1>3, <1>4, AvailableIs
<1>6. n \in 1 .. Abstract!Available(a)
  BY <1>2, <1>5
<1>7. reservations[c].status = "absent" /\ reservations[c] \in Row
  BY <1>1 DEF TableInv, RowInv, TypeOK
<1>8. holds[c] = [status |-> "absent"]
  BY <1>7, HoldFields DEF holds
<1>9. \A s \in Calls : holds[s] # [status |-> "absent"] => holds[s].key # k
  <2> SUFFICES ASSUME NEW s \in Calls, holds[s] # [status |-> "absent"] PROVE holds[s].key # k
    OBVIOUS
  <2>1. reservations[s] \in Row /\ holds[s] = HoldOf(reservations[s])
    BY <1>1 DEF TypeOK, holds
  <2>2. reservations[s].status # "absent" /\ holds[s].key = reservations[s].key
    BY <2>1, HoldFields
  <2>3. ~ KeyTaken(c)
    BY <1>1 DEF ReserveInv
  <2> QED BY <2>2, <2>3 DEF KeyTaken, WithKey
<1> DEFINE new == [status |-> "active", account |-> a, amount |-> n, key |-> k]
<1>10. holds' = [holds EXCEPT ![c] = new]
  <2>1. \A s \in Calls : s # c => reservations'[s] = reservations[s]
    BY <1>1 DEF ReserveCommit, TypeOK
  <2>2. /\ reservations'[c].status = "active" /\ reservations'[c].account = a
        /\ reservations'[c].amount = n /\ reservations'[c].key = k
    BY <1>1 DEF ReserveCommit, TypeOK
  <2>3. HoldOf(reservations'[c]) = new
    BY <2>2 DEF HoldOf
  <2>4. \A s \in Calls : holds'[s] = IF s = c THEN new ELSE holds[s]
    BY <2>1, <2>3 DEF holds
  <2> QED BY <2>4 DEF holds
<1>11. balances' = balances
  <2>1. \A b \in Accounts : LedgerBalance(b)' = LedgerBalance(b)
    BY <1>1, ReserveSums DEF IInv
  <2> QED BY <2>1 DEF balances
<1>12. holds'[c] # holds[c]
  <2>1. new.status = "active" /\ [status |-> "absent"].status = "absent"
    OBVIOUS
  <2>2. holds'[c] = new
    BY <1>10 DEF holds
  <2> HIDE DEF new
  <2> QED BY <1>8, <2>1, <2>2
<1>13. Abstract!Hold(c, a, n, k)
  BY <1>5, <1>8, <1>9, <1>10, <1>11 DEF Abstract!Hold, Abstract!NoHold, holds, balances
<1> QED BY <1>2, <1>6, <1>12, <1>13 DEF Abstract!AbsNext, holds

\* A commit pays what was held.
LEMMA SettleIsPay ==
    ASSUME IInv, NEW c \in Calls, Settle(c)
    PROVE  Abstract!AbsNext
<1> PICK r, n : r = request[c].reservation /\ n = reservations[r].amount
  OBVIOUS
<1>1. TypeOK /\ TableInv /\ CallInv(c)
  BY DEF IInv
<1>2. r \in Calls /\ reservations[r].status = "active" /\ Payee(c) \in Accounts
  BY <1>1, SettleKnows
<1>3. reservations[r] \in Row
  BY <1>1, <1>2 DEF TypeOK
<1>4. /\ holds[r] = HoldOf(reservations[r]) /\ holds[r].status = "active"
      /\ holds[r].account = Buyer(c) /\ holds[r].amount = n
  BY <1>2, <1>3, HoldFields DEF holds, Buyer
<1>5. holds' = [holds EXCEPT ![r].status = "committed"]
  <2>1. reservations' = [reservations EXCEPT ![r].status = "committed"]
    BY DEF Settle, SetStatus
  <2>2. \A s \in Calls : s # r => reservations'[s] = reservations[s]
    BY <1>1, <2>1 DEF TypeOK
  <2>3. reservations'[r] = [reservations[r] EXCEPT !.status = "committed"]
    BY <1>1, <1>2, <2>1 DEF TypeOK
  <2>4. HoldOf(reservations'[r]) = [HoldOf(reservations[r]) EXCEPT !.status = "committed"]
    BY <1>2, <1>3, <2>3, HoldStatus DEF Statuses
  <2>5. \A s \in Calls : holds'[s] = IF s = r THEN [holds[r] EXCEPT !.status = "committed"]
                                             ELSE holds[s]
    BY <2>2, <2>4 DEF holds
  <2> QED BY <2>5 DEF holds
<1>6. \A a \in Accounts : balances'[a] = balances[a] + (IF a = Payee(c) THEN holds[r].amount ELSE 0)
                                                     - (IF a = holds[r].account THEN holds[r].amount ELSE 0)
  BY <1>1, <1>4, SettleSums DEF balances
<1>7. Abstract!Pay(r, Payee(c))
  <2>1. balances' = [a \in Accounts |-> balances[a] + (IF a = Payee(c) THEN holds[r].amount ELSE 0)
                                                    - (IF a = holds[r].account THEN holds[r].amount ELSE 0)]
    BY <1>6 DEF balances
  <2> QED BY <1>4, <1>5, <2>1 DEF Abstract!Pay, holds, balances
<1>8. holds'[r] # holds[r]
  <2>1. holds'[r].status = "committed"
    BY <1>2, <1>3, <1>5, HoldStatus, HoldFields DEF holds, HoldOf
  <2> QED BY <1>4, <2>1
<1> QED BY <1>2, <1>7, <1>8 DEF Abstract!AbsNext, holds

\* A release gives back what was held, once.
LEMMA ReleaseGivesBack ==
    ASSUME IInv, NEW c \in Calls, ReleaseCommit(c)
    PROVE  Abstract!AbsNext \/ UNCHANGED <<holds, balances>>
<1> PICK r : r = request[c].reservation
  OBVIOUS
<1>1. TypeOK /\ TableInv /\ ReleaseInv(c) /\ pc[c] = "commit"
  BY DEF IInv, CallInv, ReleaseCommit, At, Steps
<1>2. r \in Calls /\ reservations[r].status \in {"active", "released"} /\ reservations[r] \in Row
  BY <1>1 DEF ReleaseInv, TypeOK
<1>3. reservations' = [reservations EXCEPT ![r].status = "released"] /\ ledger' = ledger
  BY DEF ReleaseCommit, SetStatus
<1>4. balances' = balances
  <2>1. \A a \in Accounts : LedgerBalance(a)' = LedgerBalance(a)
    BY <1>3 DEF LedgerBalance, Posted
  <2> QED BY <2>1 DEF balances
<1>5. \A s \in Calls : holds'[s] = IF s = r THEN [holds[r] EXCEPT !.status = "released"]
                                           ELSE holds[s]
  <2>1. \A s \in Calls : s # r => reservations'[s] = reservations[s]
    BY <1>1, <1>3 DEF TypeOK
  <2>2. reservations'[r] = [reservations[r] EXCEPT !.status = "released"]
    BY <1>1, <1>2, <1>3 DEF TypeOK
  <2>3. HoldOf(reservations'[r]) = [HoldOf(reservations[r]) EXCEPT !.status = "released"]
    BY <1>2, <2>2, HoldStatus DEF Statuses
  <2> QED BY <2>1, <2>3 DEF holds
<1>6. holds' = [holds EXCEPT ![r].status = "released"]
  BY <1>5 DEF holds
<1>7. CASE reservations[r].status = "released"
  <2>1. reservations' = reservations
    BY <1>1, <1>2, <1>3, <1>7 DEF TypeOK, Row
  <2> QED BY <1>4, <2>1 DEF holds
<1>8. CASE reservations[r].status = "active"
  <2>1. holds[r].status = "active" /\ reservations[r].account \in Accounts
    BY <1>1, <1>2, <1>8, HoldFields DEF holds, TableInv, RowInv
  <2>2. Abstract!GiveBack(r)
    BY <1>4, <1>6, <2>1 DEF Abstract!GiveBack, holds, balances
  <2>3. holds'[r].status = "released"
    <3>1. reservations'[r] = [reservations[r] EXCEPT !.status = "released"]
      BY <1>1, <1>2, <1>3 DEF TypeOK
    <3>2. reservations'[r].status = "released" /\ reservations'[r] \in Row
      BY <1>2, <3>1 DEF Row, Statuses
    <3>3. holds'[r] = HoldOf(reservations'[r])
      BY <1>2 DEF holds
    <3> QED BY <3>2, <3>3, HoldFields
  <2>4. holds'[r] # holds[r]
    BY <2>1, <2>3
  <2> QED BY <1>2, <2>1, <2>2, <2>4 DEF Abstract!AbsNext, holds
<1> QED BY <1>2, <1>7, <1>8

\* The wallet is the one WalletAbstract describes: whatever a transaction
\* decided from its earlier reads is still so when its writes appear.
THEOREM EveryTransactionIsAtomic == Spec => Atomic
<1>1. Init => Abstract!AbsInit
  <2> SUFFICES ASSUME Init PROVE Abstract!AbsInit
    OBVIOUS
  <2>1. \A a, direction : Posted(direction, a) = 0
    <3>1. \A a, direction : {e \in ledger : e.account = a /\ e.direction = direction} = {}
      BY DEF Init
    <3> QED BY <3>1, SumEmpty DEF Posted
  <2>2. Opening \in [Accounts -> Nat]
    BY WalletAssumption
  <2>3. \A a \in Accounts : LedgerBalance(a) = Opening[a]
    BY <2>1, <2>2 DEF LedgerBalance
  <2>4. balances = Opening
    BY <2>2, <2>3 DEF balances
  <2>5. HoldOf(NoRow) = [status |-> "absent"]
    BY DEF HoldOf, NoRow
  <2>6. holds = [r \in Calls |-> [status |-> "absent"]]
    BY <2>5 DEF Init, holds
  <2> QED BY <2>4, <2>6 DEF Abstract!AbsInit, Abstract!NoHold, holds, balances
<1>2. IInv /\ [Next]_vars => [Abstract!AbsNext]_(Abstract!absVars)
  <2> SUFFICES ASSUME IInv, [Next]_vars PROVE Abstract!AbsNext \/ UNCHANGED <<holds, balances>>
    BY DEF Abstract!absVars, holds, balances
  <2>1. ASSUME UNCHANGED <<reservations, ledger>> PROVE UNCHANGED <<holds, balances>>
    BY <2>1, SumsUnchanged DEF holds, balances
  <2>2. CASE UNCHANGED vars
    BY <2>1, <2>2 DEF vars, tableVars
  <2>3. CASE Next
    <3>1. PICK c \in Calls : Moves(c)
      BY <2>3 DEF Next, Moves
    <3> QED BY <2>1, <3>1, WhoWrites, ReserveHolds, SettleIsPay, ReleaseGivesBack
  <2> QED BY <2>2, <2>3
<1> QED BY <1>1, <1>2, Invariance, PTL DEF Spec, Atomic, Abstract!AbsSpec
=============================================================================
