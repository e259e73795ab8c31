------------------------------- MODULE Wallet -------------------------------
(***************************************************************************)
(* services/wallet: ReserveFunds, CommitFunds, ReleaseFunds and GetBalance *)
(* as PostgreSQL runs them.                                                *)
(*                                                                         *)
(* A call is one gRPC call, served by one transaction (GetBalance by none).*)
(* Each statement of internal/app/service.go is an action: it reads what   *)
(* is committed at that moment (READ COMMITTED), waits for the row or for  *)
(* the unique key another transaction holds, and the transaction's writes  *)
(* appear together when it commits.  A retry is one more call with the     *)
(* same key.  Any call may fail between two statements (a lost connection, *)
(* a crash, a cancelled context): its transaction is rolled back.          *)
(***************************************************************************)
EXTENDS Integers, FiniteSets, Sums

CONSTANTS
    Calls,       \* the calls made in a behaviour; a reservation and a pair of
                 \* ledger entries are named by the call that inserts them
    Accounts,    \* ids of the rows of accounts
    Keys,        \* idempotency keys
    EmptyKey,    \* the key ""
    Currencies,
    CurrencyOf,  \* the currency of each account
    Opening,     \* what the entries made outside the service leave on it
    Requests,    \* the requests that may arrive
    NoCall

Kinds == {"reserve", "commit", "release", "balance"}

\* A commit's account is the payee's.  Fields a kind has no use for are
\* 0, "" and NoCall, as in the zero value of the message.
Request == [kind: Kinds, key: Keys \cup {EmptyKey}, account: Int,
            amount: Int, currency: Currencies \cup {""},
            reservation: Calls \cup {NoCall}]

NoRequest == [kind |-> "balance", key |-> EmptyKey, account |-> 0,
              amount |-> 0, currency |-> "", reservation |-> NoCall]

ASSUME WalletAssumption ==
    /\ IsFiniteSet(Calls)
    /\ NoCall \notin Calls
    /\ Accounts \subseteq Int
    /\ EmptyKey \notin Keys
    /\ CurrencyOf \in [Accounts -> Currencies]
    /\ Opening \in [Accounts -> Nat]
    /\ Requests \subseteq Request
    /\ \A q \in Requests : q.kind \in {"commit", "release"} => q.reservation \in Calls

VARIABLES
    request,       \* what each call asks for
    pc,            \* the statement it executes next
    seenBalance,   \* what its LedgerBalance returned
    seenHeld,      \* what its ActiveReservedSum returned
    answer,        \* what it returned to the caller
    reservations,  \* table reservations
    ledger,        \* table ledger_entries, the entries of this service
    operations,    \* table wallet_operations
    outbox,        \* the account.debited rows of outbox_wallet
    holder         \* who holds each row lock and each uncommitted unique key

callVars == <<request, pc, seenBalance, seenHeld, answer>>
tableVars == <<reservations, ledger, operations, outbox>>
vars == <<callVars, tableVars, holder>>

-----------------------------------------------------------------------------
(* Tables. *)

Statuses == {"active", "committed", "released"}

\* ReservationRow; the id is the index.  "absent": no such row.
Row == [status: Statuses \cup {"absent"}, account: Int, amount: Int,
        key: Keys \cup {EmptyKey}, availableAfter: Int]

NoRow == [status |-> "absent", account |-> 0, amount |-> 0,
          key |-> EmptyKey, availableAfter |-> 0]

\* LedgerEntryRow: id and operation are the posting call and the direction.
Entry == [operation: Calls, reference: Calls, account: Int, amount: Int,
          direction: {"debit", "credit"}]

Codes == {"none", "ok", "InvalidArgument", "NotFound", "InsufficientFunds",
          "AlreadyCommitted", "AlreadyReleased", "Internal"}

\* reference: the reservation (reserve) or the entries' operation (commit).
Answer == [code: Codes, reference: Calls \cup {NoCall}, available: Int]

Failure(code) == [code |-> code, reference |-> NoCall, available |-> 0]
Ok(reference, available) ==
    [code |-> "ok", reference |-> reference, available |-> available]

Operation == [key: Keys \cup {EmptyKey}, kind: Kinds, result: Answer]

\* What a transaction may hold until its end.
AccountRow(a) == <<"account", a>>
ReservationRow(r) == <<"reservation", r>>
ReservationKey(k) == <<"reservation_key", k>>
OperationKey(k, kind) == <<"operation_key", k, kind>>

Resources == {AccountRow(a) : a \in Accounts}
        \cup {ReservationRow(r) : r \in Calls}
        \cup {ReservationKey(k) : k \in Keys}
        \cup {OperationKey(k, kind) : k \in Keys, kind \in {"commit", "release"}}

Posted(direction, a) ==
    SumOf([e \in ledger |-> e.amount],
          {e \in ledger : e.account = a /\ e.direction = direction})

LedgerBalance(a) == Opening[a] + Posted("credit", a) - Posted("debit", a)

ActiveOn(a) == {r \in Calls : /\ reservations[r].status = "active"
                              /\ reservations[r].account = a}

HeldBy(rows) == SumOf([r \in Calls |-> reservations[r].amount], rows)

ActiveReservedSum(a) == HeldBy(ActiveOn(a))

\* Mutant: one key serves both kinds of operation.
RecordedAny(k, kind) == {o \in operations : o.key = k}

Recorded(k, kind) == {o \in operations : o.key = k /\ o.kind = kind}

WithKey(k) == {r \in Calls : /\ reservations[r].status # "absent"
                             /\ reservations[r].key = k}

EntriesOf(r) == {e \in ledger : e.reference = r}

-----------------------------------------------------------------------------
(* Control of one call. *)

Steps == {"find", "lockReservation", "lockFirst", "lockSecond", "balance",
          "held", "insert", "reread", "record", "commit",
          "recordAgain", "commitAgain"}

Kind(c) == request[c].kind
At(c, kind, step) == pc[c] = step /\ Kind(c) = kind
Goto(c, step) == pc' = [pc EXCEPT ![c] = step]
Free(x, c) == holder[x] \in {NoCall, c}
Take(x, c) == Free(x, c) /\ holder' = [holder EXCEPT ![x] = c]

\* The transaction ends, its locks with it, and the caller gets its answer.
Return(c, a) ==
    /\ pc' = [pc EXCEPT ![c] = "done"]
    /\ answer' = [answer EXCEPT ![c] = a]
    /\ holder' = [x \in Resources |-> IF holder[x] = c THEN NoCall ELSE holder[x]]
    /\ seenBalance' = [seenBalance EXCEPT ![c] = 0]
    /\ seenHeld' = [seenHeld EXCEPT ![c] = 0]
    /\ UNCHANGED request

\* It ends having written nothing.
Reply(c, a) == Return(c, a) /\ UNCHANGED tableVars

Valid(q) ==
    /\ q.kind # "balance" => q.key # EmptyKey
    /\ q.kind = "reserve" => q.amount > 0

Accept(c) ==
    /\ pc[c] = "idle"
    /\ \E q \in Requests :
        /\ Valid(q)
        /\ request' = [request EXCEPT ![c] = q]
    /\ Goto(c, "find")
    /\ UNCHANGED <<seenBalance, seenHeld, answer, tableVars, holder>>

Refuse(c) ==
    /\ pc[c] = "idle"
    /\ \E q \in Requests : ~ Valid(q) /\ request' = [request EXCEPT ![c] = q]
    /\ Goto(c, "done")
    /\ answer' = [answer EXCEPT ![c] = Failure("InvalidArgument")]
    /\ UNCHANGED <<seenBalance, seenHeld, tableVars, holder>>

\* Mutant: the failure leaves the transaction open.
AbortKeepsLocks(c) ==
    /\ pc[c] \in Steps
    /\ Goto(c, "done")
    /\ answer' = [answer EXCEPT ![c] = Failure("Internal")]
    /\ UNCHANGED <<request, seenBalance, seenHeld, tableVars, holder>>

\* A statement fails or the process dies: the transaction is rolled back.
Abort(c) ==
    /\ pc[c] \in Steps
    /\ Reply(c, Failure("Internal"))

\* Mutant: the account is read without FOR UPDATE.
ReadAccount(c, a, step) ==
    /\ a \in Accounts
    /\ Goto(c, step)
    /\ UNCHANGED <<request, seenBalance, seenHeld, answer, tableVars, holder>>

\* SELECT ... FOR UPDATE: waits for the transaction that holds the row.
LockAccount(c, a, step) ==
    /\ a \in Accounts
    /\ Take(AccountRow(a), c)
    /\ Goto(c, step)
    /\ UNCHANGED <<request, seenBalance, seenHeld, answer, tableVars>>

\* SELECT ... FOR UPDATE finds no row.
MissingAccount(c, a) == a \notin Accounts /\ Reply(c, Failure("NotFound"))

ReadBalance(c, a) ==
    /\ seenBalance' = [seenBalance EXCEPT ![c] = LedgerBalance(a)]
    /\ Goto(c, "held")
    /\ UNCHANGED <<request, seenHeld, answer, tableVars, holder>>

-----------------------------------------------------------------------------
(* ReserveFunds *)

\* Mutant: the retry is answered with what is available now.
FreshAnswer(r) ==
    LET a == reservations[r].account IN
    Ok(r, LedgerBalance(a) - ActiveReservedSum(a))

\* The first call's answer, kept in the row.
SavedAnswer(r) == Ok(r, reservations[r].availableAfter)

ReserveFind(c) ==
    /\ At(c, "reserve", "find")
    /\ LET found == WithKey(request[c].key) IN
        \/ \E r \in found : Reply(c, SavedAnswer(r))
        \/ /\ found = {}
           /\ Goto(c, "lockFirst")
           /\ UNCHANGED <<request, seenBalance, seenHeld, answer, tableVars, holder>>

\* The currency is compared as soon as the row is locked.
ReserveLock(c) ==
    /\ At(c, "reserve", "lockFirst")
    /\ LET a == request[c].account IN
        \/ MissingAccount(c, a)
        \/ /\ a \in Accounts
           /\ CurrencyOf[a] # request[c].currency
           /\ Free(AccountRow(a), c)
           /\ Reply(c, Failure("InvalidArgument"))
        \/ /\ a \in Accounts
           /\ CurrencyOf[a] = request[c].currency
           /\ LockAccount(c, a, "balance")

ReserveBalance(c) ==
    /\ At(c, "reserve", "balance")
    /\ ReadBalance(c, request[c].account)

ReserveHeld(c) ==
    /\ At(c, "reserve", "held")
    /\ LET held == ActiveReservedSum(request[c].account) IN
        \/ /\ seenBalance[c] - held < request[c].amount
           /\ Reply(c, Failure("InsufficientFunds"))
        \/ /\ seenBalance[c] - held >= request[c].amount
           /\ seenHeld' = [seenHeld EXCEPT ![c] = held]
           /\ Goto(c, "insert")
           /\ UNCHANGED <<request, seenBalance, answer, tableVars, holder>>

\* Mutant: the unique index is on the account and the key.
KeyTakenOnAccount(c) ==
    \E r \in WithKey(request[c].key) : reservations[r].account = request[c].account

KeyTaken(c) == WithKey(request[c].key) # {}

\* INSERT ... ON CONFLICT (idempotency_key) DO NOTHING: waits for a
\* transaction that inserted the key and has not ended.
ReserveInsert(c) ==
    /\ At(c, "reserve", "insert")
    /\ Free(ReservationKey(request[c].key), c)
    /\ \/ KeyTaken(c) /\ Goto(c, "reread") /\ UNCHANGED holder
       \/ /\ ~ KeyTaken(c)
          /\ Take(ReservationKey(request[c].key), c)
          /\ Goto(c, "commit")
    /\ UNCHANGED <<request, seenBalance, seenHeld, answer, tableVars>>

ReserveReread(c) ==
    /\ At(c, "reserve", "reread")
    /\ \E r \in WithKey(request[c].key) : Reply(c, SavedAnswer(r))

ReserveCommit(c) ==
    /\ At(c, "reserve", "commit")
    /\ LET left == seenBalance[c] - seenHeld[c] - request[c].amount IN
        /\ reservations' = [reservations EXCEPT ![c] =
              [status |-> "active", account |-> request[c].account,
               amount |-> request[c].amount, key |-> request[c].key,
               availableAfter |-> left]]
        /\ Return(c, Ok(c, left))
    /\ UNCHANGED <<ledger, operations, outbox>>

-----------------------------------------------------------------------------
(* CommitFunds and ReleaseFunds, the steps they share. *)

FindOperation(c) ==
    /\ pc[c] = "find" /\ Kind(c) \in {"commit", "release"}
    /\ LET found == Recorded(request[c].key, Kind(c)) IN
        \/ \E o \in found : Reply(c, o.result)
        \/ /\ found = {}
           /\ Goto(c, "lockReservation")
           /\ UNCHANGED <<request, seenBalance, seenHeld, answer, tableVars, holder>>

\* Mutant: the reservation is read without FOR UPDATE.
ReadReservation(c, step) ==
    /\ Goto(c, step)
    /\ UNCHANGED <<request, seenBalance, seenHeld, answer, tableVars, holder>>

\* Takes the reservation's row and goes where its status sends the call.
LockReservation(c, step) ==
    /\ Take(ReservationRow(request[c].reservation), c)
    /\ Goto(c, step)
    /\ UNCHANGED <<request, seenBalance, seenHeld, answer, tableVars>>

MissingReservation(c) ==
    /\ pc[c] = "lockReservation"
    /\ reservations[request[c].reservation].status = "absent"
    /\ Reply(c, Failure("NotFound"))

\* INSERT INTO wallet_operations ... ON CONFLICT DO NOTHING.  The key is
\* taken only when the row is this call's to insert.
RecordOperation(c) ==
    LET x == OperationKey(request[c].key, Kind(c)) IN
    /\ \/ pc[c] = "record" /\ Goto(c, "commit")
       \/ pc[c] = "recordAgain" /\ Goto(c, "commitAgain")
    /\ Free(x, c)
    /\ IF Recorded(request[c].key, Kind(c)) = {}
         THEN Take(x, c) ELSE UNCHANGED holder
    /\ UNCHANGED <<request, seenBalance, seenHeld, answer, tableVars>>

InsertOperation(c, result) ==
    operations' =
        IF holder[OperationKey(request[c].key, Kind(c))] = c
          THEN operations \cup
                 {[key |-> request[c].key, kind |-> Kind(c), result |-> result]}
          ELSE operations

SetStatus(r, status) ==
    reservations' = [reservations EXCEPT ![r].status = status]

-----------------------------------------------------------------------------
(* CommitFunds *)

CommitLockReservation(c) ==
    /\ At(c, "commit", "lockReservation")
    /\ LET r == request[c].reservation IN
        \/ reservations[r].status = "active" /\ LockReservation(c, "lockFirst")
        \/ reservations[r].status = "committed" /\ LockReservation(c, "recordAgain")
        \/ /\ reservations[r].status = "released"
           /\ Free(ReservationRow(r), c)
           /\ Reply(c, Failure("AlreadyReleased"))

Buyer(c) == reservations[request[c].reservation].account
Payee(c) == request[c].account

\* Mutant: the accounts are locked in the order they are named.
BuyerThenPayee(c) == <<Buyer(c), Payee(c)>>

\* lockAccountsSorted: the smaller id first, whoever it belongs to.
AccountsInOrder(c) == IF Payee(c) < Buyer(c)
                        THEN <<Payee(c), Buyer(c)>> ELSE <<Buyer(c), Payee(c)>>
First(c) == AccountsInOrder(c)[1]
Second(c) == AccountsInOrder(c)[2]

LockFirst(c) ==
    /\ At(c, "commit", "lockFirst")
    /\ \/ MissingAccount(c, First(c))
       \/ LockAccount(c, First(c), "lockSecond")

LockSecond(c) ==
    /\ At(c, "commit", "lockSecond")
    /\ \/ MissingAccount(c, Second(c))
       \/ /\ Second(c) \in Accounts
          /\ CurrencyOf[First(c)] # CurrencyOf[Second(c)]
          /\ Free(AccountRow(Second(c)), c)
          /\ Reply(c, Failure("InvalidArgument"))
       \/ /\ Second(c) \in Accounts
          /\ CurrencyOf[First(c)] = CurrencyOf[Second(c)]
          /\ LockAccount(c, Second(c), "record")

EntryOf(c, a, direction) ==
    [operation |-> c, reference |-> request[c].reservation, account |-> a,
     amount |-> reservations[request[c].reservation].amount,
     direction |-> direction]

\* Mutant: the event refers to the account.
EventOfAccount(c) == Buyer(c)

\* The reference_id of account.debited.
EventOf(c) == request[c].reservation

\* The entries, the status, the event and the operation, in one transaction.
Settle(c) ==
    /\ At(c, "commit", "commit")
    /\ ledger' = ledger \cup {EntryOf(c, Buyer(c), "debit"),
                              EntryOf(c, Payee(c), "credit")}
    /\ SetStatus(request[c].reservation, "committed")
    /\ outbox' = outbox \cup {EventOf(c)}
    /\ InsertOperation(c, Ok(c, 0))
    /\ Return(c, Ok(c, 0))

\* The reservation was committed by another call: its entries are returned.
RepeatCommit(c) ==
    /\ At(c, "commit", "commitAgain")
    /\ \E e \in EntriesOf(request[c].reservation) :
        /\ InsertOperation(c, Ok(e.operation, 0))
        /\ Return(c, Ok(e.operation, 0))
    /\ UNCHANGED <<reservations, ledger, outbox>>

-----------------------------------------------------------------------------
(* ReleaseFunds: no account is locked. *)

ReleaseLockReservation(c) ==
    /\ At(c, "release", "lockReservation")
    /\ LET r == request[c].reservation IN
        \/ /\ reservations[r].status \in {"active", "released"}
           /\ LockReservation(c, "balance")
        \/ /\ reservations[r].status = "committed"
           /\ Free(ReservationRow(r), c)
           /\ Reply(c, Failure("AlreadyCommitted"))

ReleaseBalance(c) ==
    /\ At(c, "release", "balance")
    /\ ReadBalance(c, Buyer(c))

\* The transaction sees its own update: the reservation is not active to it.
ReleaseHeld(c) ==
    /\ At(c, "release", "held")
    /\ seenHeld' = [seenHeld EXCEPT ![c] =
          HeldBy(ActiveOn(Buyer(c)) \ {request[c].reservation})]
    /\ Goto(c, "record")
    /\ UNCHANGED <<request, seenBalance, answer, tableVars, holder>>

ReleaseCommit(c) ==
    /\ At(c, "release", "commit")
    /\ SetStatus(request[c].reservation, "released")
    /\ LET available == seenBalance[c] - seenHeld[c] IN
        /\ InsertOperation(c, Ok(NoCall, available))
        /\ Return(c, Ok(NoCall, available))
    /\ UNCHANGED <<ledger, outbox>>

-----------------------------------------------------------------------------
(* GetBalance: three statements, no transaction. *)

BalanceFind(c) ==
    /\ At(c, "balance", "find")
    /\ \/ MissingAccount(c, request[c].account)
       \/ /\ request[c].account \in Accounts
          /\ Goto(c, "balance")
          /\ UNCHANGED <<request, seenBalance, seenHeld, answer, tableVars, holder>>

BalanceBalance(c) ==
    /\ At(c, "balance", "balance")
    /\ ReadBalance(c, request[c].account)

BalanceHeld(c) ==
    /\ At(c, "balance", "held")
    /\ Reply(c, Ok(NoCall,
          seenBalance[c] - ActiveReservedSum(request[c].account)))

-----------------------------------------------------------------------------
Init ==
    /\ request = [c \in Calls |-> NoRequest]
    /\ pc = [c \in Calls |-> "idle"]
    /\ seenBalance = [c \in Calls |-> 0]
    /\ seenHeld = [c \in Calls |-> 0]
    /\ answer = [c \in Calls |-> Failure("none")]
    /\ reservations = [r \in Calls |-> NoRow]
    /\ ledger = {}
    /\ operations = {}
    /\ outbox = {}
    /\ holder = [x \in Resources |-> NoCall]

Advance(c) ==
    \/ ReserveFind(c) \/ ReserveLock(c) \/ ReserveBalance(c) \/ ReserveHeld(c)
    \/ ReserveInsert(c) \/ ReserveReread(c) \/ ReserveCommit(c)
    \/ FindOperation(c) \/ MissingReservation(c) \/ RecordOperation(c)
    \/ CommitLockReservation(c) \/ LockFirst(c) \/ LockSecond(c)
    \/ Settle(c) \/ RepeatCommit(c)
    \/ ReleaseLockReservation(c) \/ ReleaseBalance(c) \/ ReleaseHeld(c)
    \/ ReleaseCommit(c)
    \/ BalanceFind(c) \/ BalanceBalance(c) \/ BalanceHeld(c)

Next == \E c \in Calls : Accept(c) \/ Refuse(c) \/ Abort(c) \/ Advance(c)

Spec == Init /\ [][Next]_vars

\* PostgreSQL grants a row lock once it is free and executes every statement.
FairSpec == Spec /\ \A c \in Calls : WF_vars(Advance(c))
=============================================================================
