---------------------------- MODULE WalletProofs ----------------------------
(***************************************************************************)
(* Theorems about Wallet, for any number of calls, accounts and keys.      *)
(*                                                                         *)
(* The inductive invariant says what a call in the middle of its           *)
(* transaction may rely on: the rows it holds, and what its earlier reads  *)
(* still say about them.                                                   *)
(***************************************************************************)
EXTENDS WalletProperties, SumsTheorems

Holds(c, x) == x \in Resources /\ holder[x] = c

\* Where a reserve may be, and what it knows there: the balance it read is
\* exact and the sum it read not too small, for the account is its own.
ReserveInv(c) ==
    LET a == request[c].account IN
    /\ pc[c] \in {"find", "lockFirst", "balance", "held", "insert", "reread", "commit"}
    /\ request[c].key \in Keys
    /\ request[c].amount > 0
    /\ pc[c] \in {"balance", "held", "insert", "commit"} =>
          a \in Accounts /\ Holds(c, AccountRow(a))
    /\ pc[c] \in {"held", "insert", "commit"} => seenBalance[c] = LedgerBalance(a)
    /\ pc[c] \in {"insert", "commit"} =>
          /\ seenHeld[c] >= ActiveReservedSum(a)
          /\ seenBalance[c] - seenHeld[c] >= request[c].amount
    /\ pc[c] = "commit" =>
          Holds(c, ReservationKey(request[c].key)) /\ ~ KeyTaken(c)

\* A commit keeps the reservation active and both accounts to itself.
CommitInv(c) ==
    LET r == request[c].reservation IN
    /\ pc[c] \in {"find", "lockReservation", "lockFirst", "lockSecond", "record",
                  "commit", "recordAgain", "commitAgain"}
    /\ r \in Calls
    /\ pc[c] \in {"lockFirst", "lockSecond", "record", "commit"} =>
          Holds(c, ReservationRow(r)) /\ reservations[r].status = "active"
    /\ pc[c] \in {"lockSecond", "record", "commit"} =>
          First(c) \in Accounts /\ Holds(c, AccountRow(First(c)))
    /\ pc[c] \in {"record", "commit"} =>
          Second(c) \in Accounts /\ Holds(c, AccountRow(Second(c)))

ReleaseInv(c) ==
    LET r == request[c].reservation IN
    /\ pc[c] \in {"find", "lockReservation", "balance", "held", "record", "commit"}
    /\ r \in Calls
    /\ pc[c] \in {"balance", "held", "record", "commit"} =>
          /\ Holds(c, ReservationRow(r))
          /\ reservations[r].status \in {"active", "released"}

BalanceInv(c) ==
    /\ pc[c] \in {"find", "balance", "held"}
    /\ pc[c] \in {"balance", "held"} => request[c].account \in Accounts

CallInv(c) == pc[c] \in Steps =>
    /\ Kind(c) = "reserve" => ReserveInv(c)
    /\ Kind(c) = "commit" => CommitInv(c)
    /\ Kind(c) = "release" => ReleaseInv(c)
    /\ Kind(c) = "balance" => BalanceInv(c)

RowInv(r) == reservations[r].status # "absent" =>
    /\ pc[r] = "done"
    /\ reservations[r].account \in Accounts
    /\ reservations[r].amount \in Nat
    /\ reservations[r].key \in Keys

\* What is in the tables was put there by calls that are over.
TableInv ==
    /\ IsFiniteSet(ledger)
    /\ \A e \in ledger : e.amount \in Nat /\ pc[e.operation] = "done"
    /\ \A r \in Calls : RowInv(r)

UniqueKeys == \A r, s \in Calls :
    /\ reservations[r].status # "absent" /\ reservations[s].status # "absent"
    /\ reservations[r].key = reservations[s].key
    => r = s

IInv == TypeOK /\ TableInv /\ (\A c \in Calls : CallInv(c)) /\ UniqueKeys /\ NoOverdraft

-----------------------------------------------------------------------------
(* Types. *)

CallTypes ==
    /\ request \in [Calls -> Request]
    /\ pc \in [Calls -> {"idle", "done"} \cup Steps]
    /\ seenBalance \in [Calls -> Int]
    /\ seenHeld \in [Calls -> Int]
    /\ answer \in [Calls -> Answer]
    /\ holder \in [Resources -> Calls \cup {NoCall}]

TableTypes ==
    /\ reservations \in [Calls -> Row]
    /\ ledger \subseteq Entry
    /\ operations \subseteq Operation
    /\ outbox \subseteq Calls

\* Types are those of the calls and those of the tables.
LEMMA TypeParts == TypeOK <=> CallTypes /\ TableTypes
BY DEF TypeOK, CallTypes, TableTypes

\* A refusal is an answer.
LEMMA FailureType ==
    ASSUME NEW code \in Codes
    PROVE  Failure(code) \in Answer
BY DEF Failure, Answer

\* So is a success.
LEMMA OkType ==
    ASSUME NEW reference \in Calls \cup {NoCall}, NEW available \in Int
    PROVE  Ok(reference, available) \in Answer
BY DEF Ok, Answer, Codes

\* A call that ends leaves every variable of the calls well typed.
LEMMA ReturnTypes ==
    ASSUME CallTypes, NEW c \in Calls, NEW a \in Answer, Return(c, a)
    PROVE  CallTypes'
BY DEF CallTypes, Return

\* So does one that ends having written nothing.
LEMMA ReplyTypes ==
    ASSUME TypeOK, NEW c \in Calls, NEW a \in Answer, Reply(c, a)
    PROVE  TypeOK'
<1>1. CallTypes'
  BY ReturnTypes, TypeParts DEF Reply
<1>2. TableTypes'
  BY TypeParts DEF Reply, TableTypes, tableVars
<1> QED BY <1>1, <1>2 DEF TypeOK, CallTypes, TableTypes

\* The two sums of an account are numbers.
LEMMA SumsTyped ==
    ASSUME TypeOK, TableInv, NEW a \in Accounts
    PROVE  /\ LedgerBalance(a) \in Int
           /\ \A direction : Posted(direction, a) \in Nat
           /\ ActiveReservedSum(a) \in Nat
           /\ \A rows \in SUBSET ActiveOn(a) : HeldBy(rows) \in Nat
<1>1. \A direction : Posted(direction, a) \in Nat
  <2> SUFFICES ASSUME NEW direction PROVE Posted(direction, a) \in Nat
    OBVIOUS
  <2> DEFINE rows == {e \in ledger : e.account = a /\ e.direction = direction}
             amount == [e \in ledger |-> e.amount]
  <2>1. IsFiniteSet(rows)
    BY FS_Subset DEF TableInv, RowInv
  <2>2. \A e \in rows : amount[e] \in Nat
    BY DEF TableInv, RowInv
  <2> HIDE DEF rows, amount
  <2>3. SumOf(amount, rows) \in Nat
    BY <2>1, <2>2, SumType
  <2> QED BY <2>3 DEF rows, amount, Posted
<1>2. Opening[a] \in Nat
  BY WalletAssumption
<1>3. \A rows \in SUBSET ActiveOn(a) : HeldBy(rows) \in Nat
  <2> SUFFICES ASSUME NEW rows \in SUBSET ActiveOn(a) PROVE HeldBy(rows) \in Nat
    OBVIOUS
  <2> DEFINE amount == [r \in Calls |-> reservations[r].amount]
  <2>1. rows \in SUBSET Calls
    BY DEF ActiveOn
  <2>2. IsFiniteSet(rows)
    BY <2>1, FS_Subset, WalletAssumption
  <2>3. \A r \in rows : amount[r] \in Nat
    BY <2>1 DEF ActiveOn, TableInv, RowInv
  <2> HIDE DEF amount
  <2>4. SumOf(amount, rows) \in Nat
    BY <2>2, <2>3, SumType
  <2> QED BY <2>4 DEF amount, HeldBy
<1>4. ActiveReservedSum(a) \in Nat
  BY <1>3 DEF ActiveReservedSum
<1>5. LedgerBalance(a) \in Int
  BY <1>1, <1>2 DEF LedgerBalance
<1> QED BY <1>1, <1>3, <1>4, <1>5

Moves(c) == Accept(c) \/ Refuse(c) \/ Abort(c) \/ Advance(c)

\* Every statement of a call keeps the variables well typed.
LEMMA MovesKeepTypes ==
    ASSUME TypeOK, TableInv, NEW c \in Calls, CallInv(c), Moves(c)
    PROVE  TypeOK'
<1> USE DEF At, Kind, Goto
<1>1. CASE Accept(c)
  <2>1. \A q \in Requests : q \in Request
    BY WalletAssumption
  <2> QED BY <1>1, <2>1 DEF Accept, TypeOK, tableVars, Steps
<1>2. CASE Refuse(c)
  <2>1. \A q \in Requests : q \in Request
    BY WalletAssumption
  <2>2. Failure("InvalidArgument") \in Answer
    BY FailureType DEF Codes
  <2> QED BY <1>2, <2>1, <2>2 DEF Refuse, TypeOK, tableVars
<1>3. CASE Abort(c)
  BY <1>3, FailureType, ReplyTypes DEF Abort, Codes
<1>4. CASE ReserveFind(c)
  <2>1. \A r \in WithKey(request[c].key) : SavedAnswer(r) \in Answer
    BY OkType DEF WithKey, SavedAnswer, TypeOK, Row
  <2>2. CASE \E r \in WithKey(request[c].key) : Reply(c, SavedAnswer(r))
    BY <2>1, <2>2, ReplyTypes
  <2>3. CASE Goto(c, "lockFirst") /\ UNCHANGED <<request, seenBalance, seenHeld, answer, tableVars, holder>>
    BY <2>3 DEF TypeOK, tableVars, Steps
  <2> QED BY <1>4, <2>2, <2>3 DEF ReserveFind
<1>5. CASE ReserveLock(c)
  <2>1. CASE \E code \in {"NotFound", "InvalidArgument"} : Reply(c, Failure(code))
    BY <2>1, FailureType, ReplyTypes DEF Codes
  <2>2. CASE LockAccount(c, request[c].account, "balance")
    BY <2>2 DEF LockAccount, Take, TypeOK, tableVars, Steps
  <2> QED BY <1>5, <2>1, <2>2 DEF ReserveLock, MissingAccount
<1>6. ASSUME NEW a \in Accounts, ReadBalance(c, a) PROVE TypeOK'
  <2>1. LedgerBalance(a) \in Int
    BY SumsTyped
  <2> QED BY <1>6, <2>1 DEF ReadBalance, TypeOK, tableVars, Steps
<1>7. CASE ReserveBalance(c)
  <2>1. request[c].account \in Accounts
    BY <1>7 DEF ReserveBalance, CallInv, ReserveInv, Steps
  <2> QED BY <1>6, <1>7, <2>1 DEF ReserveBalance
<1>8. CASE ReserveHeld(c)
  <2>1. request[c].account \in Accounts
    BY <1>8 DEF ReserveHeld, CallInv, ReserveInv, Steps
  <2>2. ActiveReservedSum(request[c].account) \in Int
    BY <2>1, SumsTyped
  <2>3. CASE Reply(c, Failure("InsufficientFunds"))
    BY <2>3, FailureType, ReplyTypes DEF Codes
  <2>4. CASE ~ Reply(c, Failure("InsufficientFunds"))
    BY <1>8, <2>2, <2>4 DEF ReserveHeld, TypeOK, tableVars, Steps
  <2> QED BY <2>3, <2>4
<1>9. CASE ReserveInsert(c)
  BY <1>9 DEF ReserveInsert, Take, TypeOK, tableVars, Steps
<1>10. CASE ReserveReread(c)
  <2>1. \A r \in WithKey(request[c].key) : SavedAnswer(r) \in Answer
    BY OkType DEF WithKey, SavedAnswer, TypeOK, Row
  <2> QED BY <1>10, <2>1, ReplyTypes DEF ReserveReread
<1>11. CASE ReserveCommit(c)
  <2> DEFINE left == seenBalance[c] - seenHeld[c] - request[c].amount
  <2>1. left \in Int
    <3>1. request[c] \in Request
      BY DEF TypeOK
    <3>2. request[c].amount \in Int
      BY <3>1 DEF Request
    <3> QED BY <3>2 DEF TypeOK
  <2>2. Return(c, Ok(c, left)) /\ Ok(c, left) \in Answer
    BY <1>11, <2>1, OkType DEF ReserveCommit
  <2>3. CallTypes'
    BY <2>2, ReturnTypes, TypeParts
  <2>4. TableTypes'
    BY <1>11, <2>1 DEF ReserveCommit, TypeOK, TableTypes, Request, Row, Statuses
  <2> QED BY <2>3, <2>4 DEF TypeOK, CallTypes, TableTypes
<1>12. CASE FindOperation(c)
  <2>1. \A o \in Recorded(request[c].key, Kind(c)) : o.result \in Answer
    BY DEF Recorded, TypeOK, Operation
  <2>2. CASE \E o \in Recorded(request[c].key, Kind(c)) : Reply(c, o.result)
    BY <2>1, <2>2, ReplyTypes
  <2>3. CASE Goto(c, "lockReservation") /\ UNCHANGED <<request, seenBalance, seenHeld, answer, tableVars, holder>>
    BY <2>3 DEF TypeOK, tableVars, Steps
  <2> QED BY <1>12, <2>2, <2>3 DEF FindOperation
<1>13. CASE MissingReservation(c)
  BY <1>13, FailureType, ReplyTypes DEF MissingReservation, Codes
<1>14. CASE RecordOperation(c)
  BY <1>14 DEF RecordOperation, Take, TypeOK, tableVars, Steps
<1>15. ASSUME NEW step \in Steps, LockReservation(c, step) PROVE TypeOK'
  BY <1>15 DEF LockReservation, Take, TypeOK, tableVars
<1>16. CASE CommitLockReservation(c)
  <2>1. CASE Reply(c, Failure("AlreadyReleased"))
    BY <2>1, FailureType, ReplyTypes DEF Codes
  <2> QED BY <1>15, <1>16, <2>1 DEF CommitLockReservation, Steps
<1>17. ASSUME NEW a, NEW step \in Steps, LockAccount(c, a, step) PROVE TypeOK'
  BY <1>17 DEF LockAccount, Take, TypeOK, tableVars
<1>18. CASE LockFirst(c)
  <2>1. CASE MissingAccount(c, First(c))
    BY <2>1, FailureType, ReplyTypes DEF MissingAccount, Codes
  <2> QED BY <1>17, <1>18, <2>1 DEF LockFirst, Steps
<1>19. CASE LockSecond(c)
  <2>1. CASE \E code \in {"NotFound", "InvalidArgument"} : Reply(c, Failure(code))
    BY <2>1, FailureType, ReplyTypes DEF Codes
  <2> QED BY <1>17, <1>19, <2>1 DEF LockSecond, MissingAccount, Steps
<1>20. ASSUME NEW result \in Answer, InsertOperation(c, result)
       PROVE  operations' \subseteq Operation
  <2>1. request[c] \in Request
    BY DEF TypeOK
  <2>2. request[c].key \in Keys \cup {EmptyKey} /\ Kind(c) \in Kinds
    BY <2>1 DEF Request
  <2> QED BY <1>20, <2>2 DEF InsertOperation, Operation, TypeOK
<1>21. CASE Settle(c)
  <2> DEFINE r == request[c].reservation
  <2>1. r \in Calls /\ reservations[r].status = "active"
    BY <1>21 DEF Settle, CallInv, CommitInv, Steps
  <2>2. Ok(c, 0) \in Answer
    BY OkType
  <2>3. CallTypes'
    BY <1>21, <2>2, ReturnTypes, TypeParts DEF Settle
  <2>4. reservations[r] \in Row
    BY <2>1 DEF TypeOK
  <2>5. reservations' \in [Calls -> Row]
    BY <1>21, <2>1, <2>4 DEF Settle, SetStatus, TypeOK, Row, Statuses
  <2>6. ledger' \subseteq Entry
    <3>1. request[c].account \in Int
      BY DEF TypeOK, Request
    <3>2. reservations[r].account \in Int /\ reservations[r].amount \in Int
      BY <2>4 DEF Row
    <3> QED BY <1>21, <2>1, <3>1, <3>2 DEF Settle, EntryOf, Entry, Buyer, Payee, TypeOK
  <2>7. operations' \subseteq Operation
    BY <1>20, <1>21, <2>2 DEF Settle
  <2>8. outbox' \subseteq Calls
    BY <1>21, <2>1 DEF Settle, EventOf, TypeOK
  <2> QED BY <2>3, <2>5, <2>6, <2>7, <2>8 DEF TypeOK, CallTypes
<1>22. CASE RepeatCommit(c)
  <2>1. PICK e \in EntriesOf(request[c].reservation) :
            /\ InsertOperation(c, Ok(e.operation, 0))
            /\ Return(c, Ok(e.operation, 0))
    BY <1>22 DEF RepeatCommit
  <2>2. Ok(e.operation, 0) \in Answer
    BY OkType DEF EntriesOf, TypeOK, Entry
  <2>3. CallTypes'
    BY <2>1, <2>2, ReturnTypes, TypeParts
  <2>4. operations' \subseteq Operation
    BY <1>20, <2>1, <2>2
  <2> QED BY <1>22, <2>3, <2>4 DEF RepeatCommit, TypeOK, CallTypes
<1>23. CASE ReleaseLockReservation(c)
  <2>1. CASE Reply(c, Failure("AlreadyCommitted"))
    BY <2>1, FailureType, ReplyTypes DEF Codes
  <2> QED BY <1>15, <1>23, <2>1 DEF ReleaseLockReservation, Steps
<1>24. ASSUME Kind(c) = "release", pc[c] \in {"balance", "held", "record", "commit"}
       PROVE  request[c].reservation \in Calls /\ Buyer(c) \in Accounts
  BY <1>24 DEF CallInv, ReleaseInv, Steps, Buyer, TableInv, RowInv
<1>25. CASE ReleaseBalance(c)
  BY <1>6, <1>24, <1>25 DEF ReleaseBalance
<1>26. CASE ReleaseHeld(c)
  <2>1. HeldBy(ActiveOn(Buyer(c)) \ {request[c].reservation}) \in Int
    <3>1. Buyer(c) \in Accounts
      BY <1>24, <1>26 DEF ReleaseHeld
    <3> DEFINE rows == ActiveOn(Buyer(c)) \ {request[c].reservation}
    <3>2. rows \in SUBSET ActiveOn(Buyer(c))
      OBVIOUS
    <3> HIDE DEF rows
    <3>3. HeldBy(rows) \in Nat
      BY <3>1, <3>2, SumsTyped
    <3> QED BY <3>3 DEF rows
  <2> QED BY <1>26, <2>1 DEF ReleaseHeld, TypeOK, tableVars, Steps
<1>27. CASE ReleaseCommit(c)
  <2> DEFINE available == seenBalance[c] - seenHeld[c]
             r == request[c].reservation
  <2>1. available \in Int
    BY DEF TypeOK
  <2>2. Ok(NoCall, available) \in Answer
    BY <2>1, OkType
  <2>3. CallTypes'
    BY <1>27, <2>2, ReturnTypes, TypeParts DEF ReleaseCommit
  <2>4. operations' \subseteq Operation
    BY <1>20, <1>27, <2>2 DEF ReleaseCommit
  <2>5. reservations' \in [Calls -> Row]
    <3>1. r \in Calls /\ reservations[r] \in Row
      BY <1>24, <1>27 DEF ReleaseCommit, TypeOK
    <3> QED BY <1>27, <3>1 DEF ReleaseCommit, SetStatus, TypeOK, Row, Statuses
  <2> QED BY <1>27, <2>3, <2>4, <2>5 DEF ReleaseCommit, TypeOK, CallTypes
<1>28. CASE BalanceFind(c)
  <2>1. CASE MissingAccount(c, request[c].account)
    BY <2>1, FailureType, ReplyTypes DEF MissingAccount, Codes
  <2> QED BY <1>28, <2>1 DEF BalanceFind, TypeOK, tableVars, Steps
<1>29. ASSUME Kind(c) = "balance", pc[c] \in {"balance", "held"}
       PROVE  request[c].account \in Accounts
  BY <1>29 DEF CallInv, BalanceInv, Steps
<1>30. CASE BalanceBalance(c)
  BY <1>6, <1>29, <1>30 DEF BalanceBalance
<1>31. CASE BalanceHeld(c)
  <2>1. seenBalance[c] - ActiveReservedSum(request[c].account) \in Int
    BY <1>29, <1>31, SumsTyped DEF BalanceHeld, TypeOK
  <2> QED BY <1>31, <2>1, OkType, ReplyTypes DEF BalanceHeld
<1> QED BY <1>1, <1>2, <1>3, <1>4, <1>5, <1>7, <1>8, <1>9, <1>10, <1>11, <1>12,
           <1>13, <1>14, <1>16, <1>18, <1>19, <1>21, <1>22, <1>23, <1>25, <1>26,
           <1>27, <1>28, <1>30, <1>31 DEF Moves, Advance
-----------------------------------------------------------------------------
(* What one call leaves to the others. *)

\* A call changes no other call's place, request or reads, and takes no lock
\* from it.
LEMMA OthersKeep ==
    ASSUME TypeOK, NEW c \in Calls, Moves(c), NEW d \in Calls, d # c
    PROVE  /\ request'[d] = request[d] /\ pc'[d] = pc[d]
           /\ seenBalance'[d] = seenBalance[d] /\ seenHeld'[d] = seenHeld[d]
           /\ \A x : Holds(d, x) => Holds(d, x)'
<1> DEFINE Goal == /\ request'[d] = request[d] /\ pc'[d] = pc[d]
                   /\ seenBalance'[d] = seenBalance[d] /\ seenHeld'[d] = seenHeld[d]
                   /\ \A x : Holds(d, x) => Holds(d, x)'
<1> SUFFICES Goal
  OBVIOUS
<1> USE DEF Goto, Holds, TypeOK
<1>1. ASSUME NEW a, Return(c, a) PROVE Goal
  BY <1>1 DEF Return
<1>2. ASSUME NEW a, Reply(c, a) PROVE Goal
  BY <1>1, <1>2 DEF Reply
<1>3. ASSUME UNCHANGED <<request, seenBalance, seenHeld, holder>>, NEW step, Goto(c, step) PROVE Goal
  BY <1>3
<1>4. ASSUME UNCHANGED <<request, seenBalance, seenHeld>>,
             NEW step, Goto(c, step), NEW x, Take(x, c) PROVE Goal
  <2>1. \A y : Holds(d, y) => y # x
    BY <1>4, WalletAssumption DEF Take, Free
  <2> QED BY <1>4, <2>1, WalletAssumption DEF Take, Free
<1>5. ASSUME NEW a, ReadBalance(c, a) PROVE Goal
  BY <1>5 DEF ReadBalance
<1>6. ASSUME NEW a, NEW step, LockAccount(c, a, step) PROVE Goal
  BY <1>4, <1>6 DEF LockAccount
<1>7. ASSUME NEW step, LockReservation(c, step) PROVE Goal
  BY <1>4, <1>7 DEF LockReservation
<1>8. CASE Accept(c) \/ Refuse(c) \/ Abort(c)
  <2>1. CASE Abort(c)
    BY <1>2, <2>1 DEF Abort
  <2>2. CASE Accept(c) \/ Refuse(c)
    BY <2>2 DEF Accept, Refuse
  <2> QED BY <1>8, <2>1, <2>2
<1> HIDE DEF Goal
<1>9. CASE ReserveFind(c) \/ FindOperation(c) \/ BalanceFind(c)
  BY <1>2, <1>3, <1>9 DEF ReserveFind, FindOperation, BalanceFind, MissingAccount
<1>10. CASE ReserveLock(c) \/ LockFirst(c) \/ LockSecond(c)
  BY <1>2, <1>6, <1>10 DEF ReserveLock, LockFirst, LockSecond, MissingAccount
<1>11. CASE ReserveBalance(c) \/ ReleaseBalance(c) \/ BalanceBalance(c)
  BY <1>5, <1>11 DEF ReserveBalance, ReleaseBalance, BalanceBalance
<1>12. CASE ReserveHeld(c) \/ ReleaseHeld(c)
  <2>1. CASE ReserveHeld(c) /\ ~ Reply(c, Failure("InsufficientFunds"))
    BY <2>1 DEF ReserveHeld, Goal
  <2>2. CASE ReleaseHeld(c)
    BY <2>2 DEF ReleaseHeld, Goal
  <2> QED BY <1>2, <1>12, <2>1, <2>2
<1>13. CASE ReserveInsert(c) \/ RecordOperation(c)
  <2>1. PICK step : Goto(c, step)
    BY <1>13 DEF ReserveInsert, RecordOperation
  <2>2. UNCHANGED holder \/ \E x : Take(x, c)
    BY <1>13 DEF ReserveInsert, RecordOperation
  <2>3. UNCHANGED <<request, seenBalance, seenHeld>>
    BY <1>13 DEF ReserveInsert, RecordOperation
  <2> QED BY <1>3, <1>4, <2>1, <2>2, <2>3
<1>14. CASE ReserveReread(c) \/ MissingReservation(c) \/ BalanceHeld(c)
  BY <1>2, <1>14 DEF ReserveReread, MissingReservation, BalanceHeld
<1>15. CASE CommitLockReservation(c) \/ ReleaseLockReservation(c)
  BY <1>2, <1>7, <1>15 DEF CommitLockReservation, ReleaseLockReservation
<1>16. CASE ReserveCommit(c) \/ Settle(c) \/ RepeatCommit(c) \/ ReleaseCommit(c)
  BY <1>1, <1>16 DEF ReserveCommit, Settle, RepeatCommit, ReleaseCommit
<1> QED BY <1>8, <1>9, <1>10, <1>11, <1>12, <1>13, <1>14, <1>15, <1>16 DEF Moves, Advance

\* Only three statements change the reservations or the ledger.
LEMMA WhoWrites ==
    ASSUME NEW c \in Calls, Moves(c)
    PROVE  \/ UNCHANGED <<reservations, ledger>>
           \/ ReserveCommit(c) \/ Settle(c) \/ ReleaseCommit(c)
BY DEF Moves, Advance, Accept, Refuse, Abort, Reply, tableVars, ReserveFind,
       ReserveLock, MissingAccount, LockAccount, ReserveBalance, ReadBalance,
       ReserveHeld, ReserveInsert, ReserveReread, FindOperation,
       MissingReservation, RecordOperation, CommitLockReservation,
       LockReservation, LockFirst, LockSecond, RepeatCommit,
       ReleaseLockReservation, ReleaseBalance, ReleaseHeld, BalanceFind,
       BalanceBalance, BalanceHeld

-----------------------------------------------------------------------------
(* How the sums of an account change. *)

\* The sums depend on the reservations and the ledger only.
LEMMA SumsUnchanged ==
    ASSUME UNCHANGED <<reservations, ledger>>, NEW a
    PROVE  LedgerBalance(a)' = LedgerBalance(a) /\ ActiveReservedSum(a)' = ActiveReservedSum(a)
BY DEF LedgerBalance, Posted, ActiveReservedSum, HeldBy, ActiveOn

\* A reserve adds its amount to what is held of its account.
LEMMA ReserveSums ==
    ASSUME TypeOK, TableInv, NEW c \in Calls, CallInv(c), ReserveCommit(c), NEW a \in Accounts
    PROVE  /\ LedgerBalance(a)' = LedgerBalance(a)
           /\ ActiveReservedSum(a)' = ActiveReservedSum(a) +
                 (IF a = request[c].account THEN request[c].amount ELSE 0)
<1> DEFINE old == [r \in Calls |-> reservations[r].amount]
           new == [r \in Calls |-> reservations'[r].amount]
<1>1. LedgerBalance(a)' = LedgerBalance(a)
  BY DEF ReserveCommit, LedgerBalance, Posted
<1>2. c \notin ActiveOn(a)
  BY DEF ReserveCommit, At, TableInv, RowInv, ActiveOn
<1>3. ActiveOn(a)' = IF a = request[c].account THEN ActiveOn(a) \cup {c} ELSE ActiveOn(a)
  BY <1>2 DEF ReserveCommit, ActiveOn, TypeOK
<1>4. \A r \in ActiveOn(a) : old[r] \in Nat /\ new[r] = old[r]
  BY <1>2 DEF ReserveCommit, ActiveOn, TypeOK, TableInv, RowInv
<1>5. new[c] = request[c].amount /\ request[c].amount \in Nat
  <2>1. request[c].amount > 0
    BY DEF ReserveCommit, At, CallInv, ReserveInv, Steps
  <2>2. request[c] \in Request
    BY DEF TypeOK
  <2>3. request[c].amount \in Int
    BY <2>2 DEF Request
  <2> QED BY <2>1, <2>3 DEF ReserveCommit, TypeOK
<1>6. IsFiniteSet(ActiveOn(a))
  BY FS_Subset, WalletAssumption DEF ActiveOn
<1>7. ActiveReservedSum(a) = SumOf(old, ActiveOn(a))
  BY DEF ActiveReservedSum, HeldBy
<1>8. ActiveReservedSum(a)' = SumOf(new, ActiveOn(a)')
  BY DEF ActiveReservedSum, HeldBy
<1> HIDE DEF old, new
<1>9. SumOf(new, ActiveOn(a)) = SumOf(old, ActiveOn(a))
  BY <1>4, SumAgrees
<1>10. SumOf(new, ActiveOn(a) \cup {c}) = SumOf(new, ActiveOn(a)) + new[c]
  BY <1>2, <1>4, <1>5, <1>6, SumAdd
<1>11. SumOf(old, ActiveOn(a)) \in Nat
  BY <1>4, <1>6, SumType
<1> QED BY <1>1, <1>3, <1>5, <1>7, <1>8, <1>9, <1>10, <1>11

\* A reservation that is paid or given back leaves the sum of its account.
LEMMA LeavingSums ==
    ASSUME TypeOK, TableInv, NEW r \in Calls, NEW status \in {"committed", "released"},
           SetStatus(r, status), NEW a \in Accounts
    PROVE  ActiveReservedSum(a)' = ActiveReservedSum(a) -
              (IF r \in ActiveOn(a) THEN reservations[r].amount ELSE 0)
<1> DEFINE old == [s \in Calls |-> reservations[s].amount]
           new == [s \in Calls |-> reservations'[s].amount]
           rest == ActiveOn(a) \ {r}
<1>1. ActiveOn(a)' = rest
  BY DEF SetStatus, ActiveOn, TypeOK
<1>2. \A s \in ActiveOn(a) : old[s] \in Nat /\ new[s] = old[s]
  BY DEF SetStatus, ActiveOn, TypeOK, TableInv, RowInv, Row
<1>3. IsFiniteSet(ActiveOn(a))
  BY FS_Subset, WalletAssumption DEF ActiveOn
<1>4. ActiveReservedSum(a) = SumOf(old, ActiveOn(a))
  BY DEF ActiveReservedSum, HeldBy
<1>5. ActiveReservedSum(a)' = SumOf(new, rest)
  BY <1>1 DEF ActiveReservedSum, HeldBy
<1>6. r \in ActiveOn(a) => old[r] = reservations[r].amount
  OBVIOUS
<1>7. IsFiniteSet(rest) /\ r \notin rest /\ (r \in ActiveOn(a) => rest \cup {r} = ActiveOn(a))
  BY <1>3, FS_Subset
<1>8. r \notin ActiveOn(a) => SumOf(old, rest) = SumOf(old, ActiveOn(a))
  <2>1. r \notin ActiveOn(a) => rest = ActiveOn(a)
    OBVIOUS
  <2> QED BY <2>1, Zenon
<1>9. \A s \in rest : new[s] = old[s] /\ old[s] \in Nat
  BY <1>2
<1> HIDE DEF old, new, rest
<1>10. SumOf(new, rest) = SumOf(old, rest)
  BY <1>9, SumAgrees
<1>11. SumOf(old, rest) \in Nat
  BY <1>7, <1>9, SumType
<1>12. r \in ActiveOn(a) => SumOf(old, ActiveOn(a)) = SumOf(old, rest) + old[r]
  <2>1. r \in ActiveOn(a) => SumOf(old, rest \cup {r}) = SumOf(old, rest) + old[r]
    BY <1>2, <1>7, <1>9, SumAdd
  <2> QED BY <1>7, <2>1, Zenon
<1>13. CASE r \in ActiveOn(a)
  BY <1>2, <1>4, <1>5, <1>6, <1>7, <1>10, <1>11, <1>12, <1>13
<1>14. CASE r \notin ActiveOn(a)
  BY <1>4, <1>5, <1>8, <1>10, <1>11, <1>14
<1> QED BY <1>13, <1>14

\* New entries change what is posted by their amounts.
LEMMA PostedMore ==
    ASSUME TableInv, NEW direction, NEW a, NEW e, e.amount \in Nat, e \notin ledger,
           {x \in ledger' : x.account = a /\ x.direction = direction} =
              {x \in ledger : x.account = a /\ x.direction = direction} \cup {e}
    PROVE  Posted(direction, a)' = Posted(direction, a) + e.amount
<1> DEFINE rows == {x \in ledger : x.account = a /\ x.direction = direction}
           old == [x \in ledger |-> x.amount]
           new == [x \in ledger' |-> x.amount]
<1>1. IsFiniteSet(rows)
  BY FS_Subset DEF TableInv, RowInv
<1>2. \A x \in rows : old[x] \in Nat /\ new[x] = old[x]
  BY DEF TableInv, RowInv
<1>3. e \notin rows /\ new[e] = e.amount
  OBVIOUS
<1>4. Posted(direction, a) = SumOf(old, rows)
  BY DEF Posted
<1>5. Posted(direction, a)' = SumOf(new, rows \cup {e})
  BY DEF Posted
<1> HIDE DEF rows, old, new
<1>6. SumOf(new, rows \cup {e}) = SumOf(new, rows) + new[e]
  BY <1>1, <1>2, <1>3, SumAdd
<1>7. SumOf(new, rows) = SumOf(old, rows)
  BY <1>2, SumAgrees
<1> QED BY <1>3, <1>4, <1>5, <1>6, <1>7

\* The same entries post the same.
LEMMA PostedSame ==
    ASSUME NEW direction, NEW a,
           {x \in ledger' : x.account = a /\ x.direction = direction} =
              {x \in ledger : x.account = a /\ x.direction = direction}
    PROVE  Posted(direction, a)' = Posted(direction, a)
<1> DEFINE rows == {x \in ledger : x.account = a /\ x.direction = direction}
           old == [x \in ledger |-> x.amount]
           new == [x \in ledger' |-> x.amount]
<1>1. \A x \in rows : new[x] = old[x]
  OBVIOUS
<1>2. Posted(direction, a) = SumOf(old, rows)
  BY DEF Posted
<1>3. Posted(direction, a)' = SumOf(new, rows)
  BY DEF Posted
<1> HIDE DEF rows, old, new
<1> QED BY <1>1, <1>2, <1>3, SumAgrees

\* A commit moves the amount of its reservation from the buyer to the payee.
LEMMA SettleSums ==
    ASSUME TypeOK, TableInv, NEW c \in Calls, CallInv(c), Settle(c), NEW a \in Accounts,
           NEW n, n = reservations[request[c].reservation].amount
    PROVE  LedgerBalance(a)' = LedgerBalance(a) + (IF a = Payee(c) THEN n ELSE 0)
                                               - (IF a = Buyer(c) THEN n ELSE 0)
<1> DEFINE debit == EntryOf(c, Buyer(c), "debit")
           credit == EntryOf(c, Payee(c), "credit")
           Rows(direction) == {x \in ledger : x.account = a /\ x.direction = direction}
           RowsAfter(direction) == {x \in ledger' : x.account = a /\ x.direction = direction}
<1>1. ledger' = ledger \cup {debit, credit}
  BY DEF Settle
<1>2. debit \notin ledger /\ credit \notin ledger
  BY DEF Settle, At, TableInv, RowInv, EntryOf
<1>3. /\ debit.amount = n /\ debit.account = Buyer(c) /\ debit.direction = "debit"
      /\ credit.amount = n /\ credit.account = Payee(c) /\ credit.direction = "credit"
  BY DEF EntryOf
<1>4. n \in Nat
  BY DEF Settle, At, CallInv, CommitInv, Steps, TableInv, RowInv
<1> HIDE DEF debit, credit
<1>5. RowsAfter("debit") = IF a = Buyer(c) THEN Rows("debit") \cup {debit} ELSE Rows("debit")
  BY <1>1, <1>3
<1>6. RowsAfter("credit") = IF a = Payee(c) THEN Rows("credit") \cup {credit} ELSE Rows("credit")
  BY <1>1, <1>3
<1>7. Posted("debit", a)' = Posted("debit", a) + (IF a = Buyer(c) THEN n ELSE 0)
  <2>1. Posted("debit", a) \in Nat
    BY SumsTyped
  <2>2. CASE a = Buyer(c)
    BY <1>2, <1>3, <1>4, <1>5, <2>2, PostedMore
  <2>3. CASE a # Buyer(c)
    BY <1>5, <2>1, <2>3, PostedSame
  <2> QED BY <2>2, <2>3
<1>8. Posted("credit", a)' = Posted("credit", a) + (IF a = Payee(c) THEN n ELSE 0)
  <2>1. Posted("credit", a) \in Nat
    BY SumsTyped
  <2>2. CASE a = Payee(c)
    BY <1>2, <1>3, <1>4, <1>6, <2>2, PostedMore
  <2>3. CASE a # Payee(c)
    BY <1>6, <2>1, <2>3, PostedSame
  <2> QED BY <2>2, <2>3
<1>9. /\ Posted("debit", a) \in Nat /\ Posted("credit", a) \in Nat
      /\ Opening[a] \in Nat
  BY SumsTyped, WalletAssumption
<1> QED BY <1>4, <1>7, <1>8, <1>9 DEF LedgerBalance
-----------------------------------------------------------------------------
(* Each part of the invariant is preserved. *)

\* A call that is over takes no step.
LEMMA MoverNotDone ==
    ASSUME NEW c \in Calls, Moves(c)
    PROVE  pc[c] # "done"
BY DEF Moves, Advance, Accept, Refuse, Abort, ReserveFind, ReserveLock, ReserveBalance,
       ReserveHeld, ReserveInsert, ReserveReread, ReserveCommit, FindOperation,
       MissingReservation, RecordOperation, CommitLockReservation, LockFirst, LockSecond,
       Settle, RepeatCommit, ReleaseLockReservation, ReleaseBalance, ReleaseHeld,
       ReleaseCommit, BalanceFind, BalanceBalance, BalanceHeld, At, Steps

\* And stays over.
LEMMA DoneStaysDone ==
    ASSUME TypeOK, NEW c \in Calls, Moves(c), NEW d \in Calls, pc[d] = "done"
    PROVE  pc'[d] = "done"
BY MoverNotDone, OthersKeep

\* Every row and entry is written by a call that is over with that.
LEMMA TableInvKept ==
    ASSUME TypeOK, TableInv, NEW c \in Calls, CallInv(c), Moves(c)
    PROVE  TableInv'
<1>1. \A d \in Calls : pc[d] = "done" => pc'[d] = "done"
  BY DoneStaysDone
<1>2. \A e \in ledger : e.operation \in Calls
  BY DEF TypeOK, Entry
<1>3. CASE UNCHANGED <<reservations, ledger>>
  BY <1>1, <1>2, <1>3 DEF TableInv, RowInv
<1>4. CASE ReserveCommit(c)
  <2> DEFINE q == request[c]
  <2>1. q.account \in Accounts /\ q.amount > 0 /\ q.key \in Keys
    BY <1>4 DEF ReserveCommit, At, CallInv, ReserveInv, Steps
  <2>2. q \in Request
    BY DEF TypeOK
  <2>3. q.amount \in Nat
    <3>1. q.amount \in Int
      BY <2>2 DEF Request
    <3> QED BY <2>1, <3>1
  <2>4. pc'[c] = "done"
    BY <1>4 DEF ReserveCommit, Return, Goto, TypeOK
  <2> HIDE DEF q
  <2>5. ASSUME NEW r \in Calls PROVE RowInv(r)'
    <3>1. CASE r = c
      BY <1>4, <2>1, <2>3, <2>4, <3>1 DEF ReserveCommit, TypeOK, RowInv, q
    <3>2. CASE r # c
      BY <1>1, <1>4, <3>2 DEF ReserveCommit, TypeOK, TableInv, RowInv
    <3> QED BY <3>1, <3>2
  <2>6. ledger' = ledger
    BY <1>4 DEF ReserveCommit
  <2> QED BY <1>1, <1>2, <2>5, <2>6 DEF TableInv, RowInv
<1>5. ASSUME NEW r \in Calls, NEW status \in Statuses, SetStatus(r, status),
             reservations[r].status # "absent"
      PROVE  \A s \in Calls : RowInv(s)'
  <2> SUFFICES ASSUME NEW s \in Calls, reservations'[s].status # "absent"
               PROVE  RowInv(s)'
    BY DEF RowInv
  <2>1. reservations[s].status # "absent"
    BY <1>5 DEF SetStatus, TypeOK
  <2>2. reservations[r] \in Row
    BY DEF TypeOK
  <2>3. /\ reservations'[s].account = reservations[s].account
        /\ reservations'[s].amount = reservations[s].amount
        /\ reservations'[s].key = reservations[s].key
    BY <1>5, <2>2 DEF SetStatus, TypeOK, Row
  <2> QED BY <1>1, <2>1, <2>3 DEF TableInv, RowInv
<1>6. CASE Settle(c)
  <2> DEFINE r == request[c].reservation
             debit == EntryOf(c, Buyer(c), "debit")
             credit == EntryOf(c, Payee(c), "credit")
  <2>1. r \in Calls /\ reservations[r].status = "active"
    BY <1>6 DEF Settle, At, CallInv, CommitInv, Steps
  <2>2. reservations[r].amount \in Nat
    BY <2>1 DEF TableInv, RowInv
  <2>3. /\ debit.amount \in Nat /\ debit.operation = c
        /\ credit.amount \in Nat /\ credit.operation = c
    BY <2>2 DEF EntryOf
  <2>4. ledger' = ledger \cup {debit, credit}
    BY <1>6 DEF Settle
  <2>5. pc'[c] = "done"
    BY <1>6 DEF Settle, Return, Goto, TypeOK
  <2>6. SetStatus(r, "committed")
    BY <1>6 DEF Settle
  <2> HIDE DEF debit, credit
  <2>7. \A e \in ledger' : e.amount \in Nat /\ pc'[e.operation] = "done"
    BY <1>1, <1>2, <2>3, <2>4, <2>5 DEF TableInv, RowInv
  <2>8. IsFiniteSet(ledger')
    <3>1. IsFiniteSet(ledger \cup {debit})
      BY FS_AddElement DEF TableInv, RowInv
    <3>2. IsFiniteSet((ledger \cup {debit}) \cup {credit})
      BY <3>1, FS_AddElement
    <3>3. ledger' = (ledger \cup {debit}) \cup {credit}
      BY <2>4
    <3> QED BY <3>2, <3>3
  <2>9. \A s \in Calls : RowInv(s)'
    BY <1>5, <2>1, <2>6 DEF Statuses
  <2> QED BY <2>7, <2>8, <2>9 DEF TableInv, RowInv
<1>7. CASE ReleaseCommit(c)
  <2> DEFINE r == request[c].reservation
  <2>1. r \in Calls /\ reservations[r].status # "absent"
    BY <1>7 DEF ReleaseCommit, At, CallInv, ReleaseInv, Steps
  <2>2. SetStatus(r, "released") /\ ledger' = ledger
    BY <1>7 DEF ReleaseCommit
  <2>3. \A s \in Calls : RowInv(s)'
    BY <1>5, <2>1, <2>2 DEF Statuses
  <2> QED BY <1>1, <1>2, <2>2, <2>3 DEF TableInv, RowInv
<1> QED BY <1>3, <1>4, <1>6, <1>7, WhoWrites

\* No account is overdrawn: a reserve read the balance under the account's
\* lock, and a commit pays what the reservation held.
LEMMA NoOverdraftKept ==
    ASSUME TypeOK, TableInv, NoOverdraft, NEW c \in Calls, CallInv(c), Moves(c)
    PROVE  NoOverdraft'
<1> SUFFICES ASSUME NEW a \in Accounts
             PROVE  LedgerBalance(a)' >= ActiveReservedSum(a)'
  BY DEF NoOverdraft
<1>1. /\ LedgerBalance(a) \in Int /\ ActiveReservedSum(a) \in Nat
      /\ LedgerBalance(a) >= ActiveReservedSum(a)
  BY SumsTyped DEF NoOverdraft
<1>2. CASE UNCHANGED <<reservations, ledger>>
  BY <1>1, <1>2, SumsUnchanged
<1>3. CASE ReserveCommit(c)
  <2> DEFINE q == request[c]
  <2>1. /\ seenBalance[c] = LedgerBalance(q.account)
        /\ seenHeld[c] >= ActiveReservedSum(q.account)
        /\ seenBalance[c] - seenHeld[c] >= q.amount
    BY <1>3 DEF ReserveCommit, At, CallInv, ReserveInv, Steps
  <2>2. q \in Request /\ seenHeld[c] \in Int /\ seenBalance[c] \in Int
    BY DEF TypeOK
  <2>3. q.amount \in Int
    BY <2>2 DEF Request
  <2>4. /\ LedgerBalance(a)' = LedgerBalance(a)
        /\ ActiveReservedSum(a)' = ActiveReservedSum(a) + (IF a = q.account THEN q.amount ELSE 0)
    BY <1>3, ReserveSums
  <2> HIDE DEF q
  <2>5. CASE a = q.account
    BY <1>1, <2>1, <2>2, <2>3, <2>4, <2>5
  <2>6. CASE a # q.account
    BY <1>1, <2>4, <2>6
  <2> QED BY <2>5, <2>6
<1>4. CASE Settle(c)
  <2> DEFINE r == request[c].reservation
             n == reservations[r].amount
  <2>1. r \in Calls /\ reservations[r].status = "active"
    BY <1>4 DEF Settle, At, CallInv, CommitInv, Steps
  <2>2. n \in Nat
    BY <2>1 DEF TableInv, RowInv
  <2>3. r \in ActiveOn(a) <=> a = Buyer(c)
    BY <2>1 DEF ActiveOn, Buyer
  <2>4. SetStatus(r, "committed")
    BY <1>4 DEF Settle
  <2>5. ActiveReservedSum(a)' = ActiveReservedSum(a) - (IF r \in ActiveOn(a) THEN n ELSE 0)
    BY <2>1, <2>4, LeavingSums
  <2>6. LedgerBalance(a)' = LedgerBalance(a) + (IF a = Payee(c) THEN n ELSE 0)
                                             - (IF a = Buyer(c) THEN n ELSE 0)
    BY <1>4, SettleSums
  <2> HIDE DEF r, n
  <2> QED BY <1>1, <2>2, <2>3, <2>5, <2>6
<1>5. CASE ReleaseCommit(c)
  <2> DEFINE r == request[c].reservation
             n == reservations[r].amount
  <2>1. r \in Calls /\ reservations[r].status # "absent"
    BY <1>5 DEF ReleaseCommit, At, CallInv, ReleaseInv, Steps
  <2>2. n \in Nat
    BY <2>1 DEF TableInv, RowInv
  <2>3. SetStatus(r, "released") /\ LedgerBalance(a)' = LedgerBalance(a)
    BY <1>5 DEF ReleaseCommit, LedgerBalance, Posted
  <2>4. ActiveReservedSum(a)' = ActiveReservedSum(a) - (IF r \in ActiveOn(a) THEN n ELSE 0)
    BY <2>1, <2>3, LeavingSums
  <2> HIDE DEF r, n
  <2> QED BY <1>1, <2>2, <2>3, <2>4
<1> QED BY <1>2, <1>3, <1>4, <1>5, WhoWrites

\* What one call writes says nothing new about the rows another one holds,
\* but that fewer reservations may be active on its account.
LEMMA HeldRowsStand ==
    ASSUME TypeOK, TableInv, NEW c \in Calls, CallInv(c), Moves(c), NEW d \in Calls, d # c
    PROVE  /\ \A a \in Accounts : Holds(d, AccountRow(a)) =>
                 /\ LedgerBalance(a)' = LedgerBalance(a)
                 /\ ActiveReservedSum(a)' \in Int /\ ActiveReservedSum(a)' <= ActiveReservedSum(a)
           /\ \A r \in Calls : Holds(d, ReservationRow(r)) /\ reservations[r].status # "absent" =>
                 reservations'[r] = reservations[r]
           /\ \A k \in Keys : Holds(d, ReservationKey(k)) /\ WithKey(k) = {} => WithKey(k)' = {}
<1> DEFINE Goal ==
           /\ \A a \in Accounts : Holds(d, AccountRow(a)) =>
                 /\ LedgerBalance(a)' = LedgerBalance(a)
                 /\ ActiveReservedSum(a)' \in Int /\ ActiveReservedSum(a)' <= ActiveReservedSum(a)
           /\ \A r \in Calls : Holds(d, ReservationRow(r)) /\ reservations[r].status # "absent" =>
                 reservations'[r] = reservations[r]
           /\ \A k \in Keys : Holds(d, ReservationKey(k)) /\ WithKey(k) = {} => WithKey(k)' = {}
<1>1. \A a \in Accounts : ActiveReservedSum(a) \in Nat
  BY SumsTyped
<1>2. CASE UNCHANGED <<reservations, ledger>>
  <2>1. \A a \in Accounts : /\ LedgerBalance(a)' = LedgerBalance(a)
                            /\ ActiveReservedSum(a)' \in Int /\ ActiveReservedSum(a)' <= ActiveReservedSum(a)
    BY <1>1, <1>2, SumsUnchanged
  <2>2. \A k : WithKey(k)' = WithKey(k)
    BY <1>2 DEF WithKey
  <2> QED BY <1>2, <2>1, <2>2
<1>3. CASE ReserveCommit(c)
  <2> DEFINE q == request[c]
  <2>1. /\ Holds(c, AccountRow(q.account)) /\ Holds(c, ReservationKey(q.key))
        /\ pc[c] # "done"
    BY <1>3 DEF ReserveCommit, At, CallInv, ReserveInv, Steps
  <2>2. \A a \in Accounts : Holds(d, AccountRow(a)) =>
            /\ LedgerBalance(a)' = LedgerBalance(a)
            /\ ActiveReservedSum(a)' \in Int /\ ActiveReservedSum(a)' <= ActiveReservedSum(a)
    <3> SUFFICES ASSUME NEW a \in Accounts, Holds(d, AccountRow(a))
                 PROVE  /\ LedgerBalance(a)' = LedgerBalance(a)
                        /\ ActiveReservedSum(a)' \in Int /\ ActiveReservedSum(a)' <= ActiveReservedSum(a)
      OBVIOUS
    <3>1. a # q.account
      BY <2>1 DEF Holds
    <3>2. /\ LedgerBalance(a)' = LedgerBalance(a)
          /\ ActiveReservedSum(a)' = ActiveReservedSum(a) + (IF a = q.account THEN q.amount ELSE 0)
      BY <1>3, ReserveSums
    <3> HIDE DEF q
    <3> QED BY <1>1, <3>1, <3>2
  <2>3. \A r \in Calls : reservations[r].status # "absent" => reservations'[r] = reservations[r]
    BY <1>3, <2>1 DEF ReserveCommit, TypeOK, TableInv, RowInv
  <2>4. \A k \in Keys : Holds(d, ReservationKey(k)) /\ WithKey(k) = {} => WithKey(k)' = {}
    <3> SUFFICES ASSUME NEW k \in Keys, Holds(d, ReservationKey(k)), WithKey(k) = {},
                        NEW r \in WithKey(k)'
                 PROVE  FALSE
      OBVIOUS
    <3>1. k # q.key
      BY <2>1 DEF Holds
    <3>2. r \in Calls /\ reservations'[r].status # "absent" /\ reservations'[r].key = k
      BY DEF WithKey
    <3>3. r # c
      BY <1>3, <3>1, <3>2 DEF ReserveCommit, TypeOK
    <3>4. reservations'[r] = reservations[r]
      BY <1>3, <3>2, <3>3 DEF ReserveCommit, TypeOK
    <3> QED BY <3>2, <3>4 DEF WithKey
  <2> QED BY <2>2, <2>3, <2>4
<1>4. ASSUME NEW r \in Calls, NEW status \in {"committed", "released"}, SetStatus(r, status),
             reservations[r].status # "absent", Holds(c, ReservationRow(r))
      PROVE  /\ \A a \in Accounts : ActiveReservedSum(a)' \in Int /\ ActiveReservedSum(a)' <= ActiveReservedSum(a)
             /\ \A s \in Calls : Holds(d, ReservationRow(s)) => reservations'[s] = reservations[s]
             /\ \A k : WithKey(k)' = WithKey(k)
  <2>1. \A a \in Accounts : ActiveReservedSum(a)' \in Int /\ ActiveReservedSum(a)' <= ActiveReservedSum(a)
    <3> SUFFICES ASSUME NEW a \in Accounts
                 PROVE  ActiveReservedSum(a)' \in Int /\ ActiveReservedSum(a)' <= ActiveReservedSum(a)
      OBVIOUS
    <3>1. reservations[r].amount \in Nat
      BY <1>4 DEF TableInv, RowInv
    <3>2. ActiveReservedSum(a)' = ActiveReservedSum(a) -
              (IF r \in ActiveOn(a) THEN reservations[r].amount ELSE 0)
      BY <1>4, LeavingSums
    <3> QED BY <1>1, <3>1, <3>2
  <2>2. \A s \in Calls : Holds(d, ReservationRow(s)) => s # r
    BY <1>4 DEF Holds
  <2>3. reservations[r] \in Row
    BY DEF TypeOK
  <2>4. \A s \in Calls : /\ s # r => reservations'[s] = reservations[s]
                         /\ reservations'[s].key = reservations[s].key
                         /\ reservations'[s].status = "absent" <=> reservations[s].status = "absent"
    BY <1>4, <2>3 DEF SetStatus, TypeOK, Row
  <2>5. \A k : WithKey(k)' = WithKey(k)
    BY <2>4 DEF WithKey
  <2> QED BY <2>1, <2>2, <2>4, <2>5
<1>5. CASE Settle(c)
  <2> DEFINE r == request[c].reservation
  <2>1. /\ r \in Calls /\ reservations[r].status = "active" /\ Holds(c, ReservationRow(r))
        /\ First(c) \in Accounts /\ Holds(c, AccountRow(First(c)))
        /\ Second(c) \in Accounts /\ Holds(c, AccountRow(Second(c)))
    BY <1>5 DEF Settle, At, CallInv, CommitInv, Steps
  <2>2. SetStatus(r, "committed")
    BY <1>5 DEF Settle
  <2>3. \A a \in Accounts : Holds(d, AccountRow(a)) => LedgerBalance(a)' = LedgerBalance(a)
    <3> SUFFICES ASSUME NEW a \in Accounts, Holds(d, AccountRow(a))
                 PROVE  LedgerBalance(a)' = LedgerBalance(a)
      OBVIOUS
    <3>1. a # First(c) /\ a # Second(c)
      BY <2>1 DEF Holds
    <3>2. a # Buyer(c) /\ a # Payee(c)
      BY <3>1 DEF First, Second, AccountsInOrder
    <3>3. LedgerBalance(a) \in Int
      BY SumsTyped
    <3>4. LedgerBalance(a)' = LedgerBalance(a) + (IF a = Payee(c) THEN reservations[r].amount ELSE 0)
                                               - (IF a = Buyer(c) THEN reservations[r].amount ELSE 0)
      BY <1>5, SettleSums
    <3> QED BY <3>2, <3>3, <3>4
  <2> HIDE DEF r
  <2> QED BY <1>4, <2>1, <2>2, <2>3
<1>6. CASE ReleaseCommit(c)
  <2> DEFINE r == request[c].reservation
  <2>1. r \in Calls /\ reservations[r].status # "absent" /\ Holds(c, ReservationRow(r))
    BY <1>6 DEF ReleaseCommit, At, CallInv, ReleaseInv, Steps
  <2>2. SetStatus(r, "released")
    BY <1>6 DEF ReleaseCommit
  <2>3. \A a : LedgerBalance(a)' = LedgerBalance(a)
    BY <1>6 DEF ReleaseCommit, LedgerBalance, Posted
  <2> HIDE DEF r
  <2> QED BY <1>4, <2>1, <2>2, <2>3
<1> QED BY <1>2, <1>3, <1>5, <1>6, WhoWrites

\* So the other calls lose nothing they rely on.
LEMMA OthersKeepInv ==
    ASSUME TypeOK, TableInv, NEW c \in Calls, CallInv(c), Moves(c),
           NEW d \in Calls, d # c, CallInv(d)
    PROVE  CallInv(d)'
<1>1. /\ request'[d] = request[d] /\ pc'[d] = pc[d]
      /\ seenBalance'[d] = seenBalance[d] /\ seenHeld'[d] = seenHeld[d]
  BY OthersKeep
<1>2. \A x : Holds(d, x) => Holds(d, x)'
  BY OthersKeep
<1>3. /\ \A a \in Accounts : Holds(d, AccountRow(a)) =>
                 /\ LedgerBalance(a)' = LedgerBalance(a)
                 /\ ActiveReservedSum(a)' \in Int /\ ActiveReservedSum(a)' <= ActiveReservedSum(a)
      /\ \A r \in Calls : Holds(d, ReservationRow(r)) /\ reservations[r].status # "absent" =>
                 reservations'[r] = reservations[r]
      /\ \A k \in Keys : Holds(d, ReservationKey(k)) /\ WithKey(k) = {} => WithKey(k)' = {}
  BY HeldRowsStand
<1>4. Kind(d)' = Kind(d)
  BY <1>1 DEF Kind
<1> SUFFICES ASSUME pc[d] \in Steps PROVE CallInv(d)'
  BY <1>1 DEF CallInv
<1>5. CASE Kind(d) = "reserve"
  <2> PICK a : a = request[d].account
    OBVIOUS
  <2>1. ReserveInv(d)
    BY <1>5 DEF CallInv
  <2>2. pc[d] \in {"balance", "held", "insert", "commit"} =>
            a \in Accounts /\ Holds(d, AccountRow(a)) /\ Holds(d, AccountRow(a))'
    BY <1>2, <2>1 DEF ReserveInv
  <2>3. pc[d] \in {"held", "insert", "commit"} => seenBalance[d] = LedgerBalance(a)'
    BY <1>3, <2>1, <2>2 DEF ReserveInv
  <2>4. pc[d] \in {"insert", "commit"} => seenHeld[d] >= ActiveReservedSum(a)'
    <3>1. SUFFICES ASSUME pc[d] \in {"insert", "commit"} PROVE seenHeld[d] >= ActiveReservedSum(a)'
      OBVIOUS
    <3>2. seenHeld[d] >= ActiveReservedSum(a) /\ a \in Accounts
      BY <2>1, <2>2, <3>1 DEF ReserveInv
    <3>3. ActiveReservedSum(a)' \in Int /\ ActiveReservedSum(a)' <= ActiveReservedSum(a)
      BY <1>3, <2>2, <3>1
    <3>4. seenHeld[d] \in Int /\ ActiveReservedSum(a) \in Nat
      BY <3>2, SumsTyped DEF TypeOK
    <3> QED BY <3>2, <3>3, <3>4
  <2>5. pc[d] = "commit" => Holds(d, ReservationKey(request[d].key))' /\ ~ KeyTaken(d)'
    BY <1>1, <1>2, <1>3, <2>1 DEF ReserveInv, KeyTaken
  <2>6. ReserveInv(d)'
    BY <1>1, <2>1, <2>2, <2>3, <2>4, <2>5 DEF ReserveInv
  <2> QED BY <1>4, <1>5, <2>6 DEF CallInv
<1>6. CASE Kind(d) = "commit"
  <2> PICK r : r = request[d].reservation
    OBVIOUS
  <2>1. CommitInv(d)
    BY <1>6 DEF CallInv
  <2>2. pc[d] \in {"lockFirst", "lockSecond", "record", "commit"} =>
            /\ Holds(d, ReservationRow(r)) /\ Holds(d, ReservationRow(r))'
            /\ reservations[r].status = "active" /\ reservations'[r] = reservations[r]
    BY <1>2, <1>3, <2>1 DEF CommitInv
  <2>3. pc[d] \in {"lockFirst", "lockSecond", "record", "commit"} =>
            First(d)' = First(d) /\ Second(d)' = Second(d)
    BY <1>1, <2>2 DEF First, Second, AccountsInOrder, Buyer, Payee
  <2> PICK x, y : x = First(d) /\ y = Second(d)
    OBVIOUS
  <2>4. pc[d] \in {"lockSecond", "record", "commit"} => x \in Accounts /\ Holds(d, AccountRow(x))'
    BY <1>2, <2>1 DEF CommitInv
  <2>5. pc[d] \in {"record", "commit"} => y \in Accounts /\ Holds(d, AccountRow(y))'
    BY <1>2, <2>1 DEF CommitInv
  <2>6. pc[d] \in {"lockSecond", "record", "commit"} =>
            First(d)' \in Accounts /\ Holds(d, AccountRow(First(d)))'
    BY <2>3, <2>4
  <2>7. pc[d] \in {"record", "commit"} =>
            Second(d)' \in Accounts /\ Holds(d, AccountRow(Second(d)))'
    BY <2>3, <2>5
  <2>8. CommitInv(d)'
    BY <1>1, <2>1, <2>2, <2>6, <2>7 DEF CommitInv
  <2> QED BY <1>4, <1>6, <2>8 DEF CallInv
<1>7. CASE Kind(d) = "release"
  <2>1. ReleaseInv(d)
    BY <1>7 DEF CallInv
  <2>2. ReleaseInv(d)'
    BY <1>1, <1>2, <1>3, <2>1 DEF ReleaseInv
  <2> QED BY <1>4, <1>7, <2>2 DEF CallInv
<1>8. CASE Kind(d) = "balance"
  <2>1. BalanceInv(d)'
    BY <1>1, <1>8 DEF CallInv, BalanceInv
  <2> QED BY <1>4, <1>8, <2>1 DEF CallInv
<1>9. Kind(d) \in Kinds
  <2>1. request[d] \in Request
    BY DEF TypeOK
  <2> QED BY <2>1 DEF Kind, Request
<1> QED BY <1>5, <1>6, <1>7, <1>8, <1>9 DEF Kinds

\* A call that ends relies on nothing any more.
LEMMA EndedInv ==
    ASSUME TypeOK, NEW c \in Calls, NEW a, Return(c, a)
    PROVE  CallInv(c)'
BY DEF Return, Goto, TypeOK, CallInv, Steps

\* A lock that is taken is held, with those held before.
LEMMA TakeHolds ==
    ASSUME TypeOK, NEW c \in Calls, NEW x \in Resources, Take(x, c)
    PROVE  Holds(c, x)' /\ \A y : Holds(c, y) => Holds(c, y)'
BY DEF Take, Holds, TypeOK

\* A step of a reserve keeps what the reserve relies on.
LEMMA ReserveKeepsInv ==
    ASSUME TypeOK, TableInv, NEW c \in Calls, CallInv(c), Kind(c) = "reserve",
           \/ ReserveFind(c) \/ ReserveLock(c) \/ ReserveBalance(c) \/ ReserveHeld(c)
           \/ ReserveInsert(c) \/ ReserveReread(c) \/ ReserveCommit(c)
    PROVE  CallInv(c)'
<1> PICK a : a = request[c].account
  OBVIOUS
<1>1. pc[c] \in Steps
  BY DEF ReserveFind, ReserveLock, ReserveBalance, ReserveHeld, ReserveInsert,
         ReserveReread, ReserveCommit, At, Steps
<1>2. ReserveInv(c)
  BY <1>1 DEF CallInv
<1>3. SUFFICES ASSUME pc'[c] # "done" PROVE ReserveInv(c)'
  <2>1. request' = request
    BY DEF ReserveFind, ReserveLock, MissingAccount, LockAccount, Reply, Return,
           ReserveBalance, ReadBalance, ReserveHeld, ReserveInsert, ReserveReread,
           ReserveCommit
  <2>2. Kind(c)' = "reserve"
    BY <2>1 DEF Kind
  <2>3. pc'[c] = "done" => CallInv(c)'
    BY DEF CallInv, Steps
  <2> QED BY <2>2, <2>3 DEF CallInv
<1> USE DEF At, Goto
<1>4. ASSUME NEW b, Reply(c, b) PROVE FALSE
  BY <1>3, <1>4 DEF Reply, Return, TypeOK
<1>5. CASE ReserveFind(c)
  BY <1>2, <1>4, <1>5 DEF ReserveFind, ReserveInv, TypeOK
<1>6. CASE ReserveLock(c)
  <2>1. a \in Accounts /\ LockAccount(c, a, "balance")
    BY <1>4, <1>6 DEF ReserveLock, MissingAccount
  <2>2. AccountRow(a) \in Resources
    BY <2>1 DEF Resources
  <2>3. Holds(c, AccountRow(a))'
    BY <2>1, <2>2, TakeHolds DEF LockAccount
  <2> QED BY <1>2, <2>1, <2>3 DEF LockAccount, ReserveInv, TypeOK
<1>7. CASE ReserveBalance(c)
  <2>1. /\ a \in Accounts /\ Holds(c, AccountRow(a))
        /\ UNCHANGED <<request, holder, reservations, ledger>>
        /\ pc'[c] = "held" /\ seenBalance'[c] = LedgerBalance(a)
    BY <1>2, <1>7 DEF ReserveBalance, ReadBalance, ReserveInv, TypeOK, tableVars
  <2>2. LedgerBalance(a)' = LedgerBalance(a) /\ Holds(c, AccountRow(a))'
    BY <2>1, SumsUnchanged DEF Holds
  <2> QED BY <1>2, <2>1, <2>2 DEF ReserveInv
<1>8. CASE ReserveHeld(c)
  <2> DEFINE held == ActiveReservedSum(a)
  <2>1. /\ a \in Accounts /\ Holds(c, AccountRow(a))
        /\ UNCHANGED <<request, holder, reservations, ledger, seenBalance>>
        /\ pc'[c] = "insert" /\ seenHeld'[c] = held
        /\ seenBalance[c] - held >= request[c].amount
        /\ seenBalance[c] = LedgerBalance(a)
    BY <1>2, <1>4, <1>8 DEF ReserveHeld, ReserveInv, TypeOK, tableVars
  <2>2. /\ LedgerBalance(a)' = LedgerBalance(a) /\ ActiveReservedSum(a)' = held
        /\ Holds(c, AccountRow(a))' /\ held \in Nat
    BY <2>1, SumsUnchanged, SumsTyped DEF Holds
  <2> HIDE DEF held
  <2>3. seenHeld'[c] >= ActiveReservedSum(a)'
    BY <2>1, <2>2
  <2>4. seenBalance'[c] - seenHeld'[c] >= request'[c].amount
    BY <2>1
  <2> QED BY <1>2, <2>1, <2>2, <2>3, <2>4 DEF ReserveInv
<1>9. CASE ReserveInsert(c)
  <2> PICK k : k = request[c].key
    OBVIOUS
  <2>1. UNCHANGED <<request, seenBalance, seenHeld, reservations, ledger>>
    BY <1>9 DEF ReserveInsert, tableVars
  <2>2. CASE pc'[c] = "reread"
    BY <1>2, <2>1, <2>2 DEF ReserveInv
  <2>3. CASE pc'[c] = "commit"
    <3>1. Take(ReservationKey(k), c) /\ ~ KeyTaken(c) /\ pc[c] = "insert"
      BY <1>9, <2>3 DEF ReserveInsert, TypeOK
    <3>2. ReservationKey(k) \in Resources
      BY <1>2 DEF ReserveInv, Resources
    <3>3. Holds(c, ReservationKey(k))' /\ \A y : Holds(c, y) => Holds(c, y)'
      BY <3>1, <3>2, TakeHolds
    <3>4. ~ KeyTaken(c)'
      BY <2>1, <3>1 DEF KeyTaken, WithKey
    <3>5. LedgerBalance(a)' = LedgerBalance(a) /\ ActiveReservedSum(a)' = ActiveReservedSum(a)
      BY <2>1, SumsUnchanged
    <3>6. /\ a \in Accounts /\ Holds(c, AccountRow(a))' /\ seenBalance[c] = LedgerBalance(a)
          /\ seenHeld[c] >= ActiveReservedSum(a)
          /\ seenBalance[c] - seenHeld[c] >= request[c].amount
      BY <1>2, <3>1, <3>3 DEF ReserveInv
    <3> QED BY <1>2, <2>1, <2>3, <3>3, <3>4, <3>5, <3>6 DEF ReserveInv
  <2> QED BY <1>9, <2>2, <2>3 DEF ReserveInsert, TypeOK
<1>10. CASE ReserveReread(c)
  BY <1>4, <1>10 DEF ReserveReread
<1>11. CASE ReserveCommit(c)
  BY <1>3, <1>11 DEF ReserveCommit, Return, TypeOK
<1> QED BY <1>5, <1>6, <1>7, <1>8, <1>9, <1>10, <1>11

\* So does a step of a commit, ...
LEMMA CommitKeepsInv ==
    ASSUME TypeOK, TableInv, NEW c \in Calls, CallInv(c), Kind(c) = "commit",
           \/ FindOperation(c) \/ MissingReservation(c) \/ RecordOperation(c)
           \/ CommitLockReservation(c) \/ LockFirst(c) \/ LockSecond(c)
           \/ Settle(c) \/ RepeatCommit(c)
    PROVE  CallInv(c)'
<1> PICK r, x, y : r = request[c].reservation /\ x = First(c) /\ y = Second(c)
  OBVIOUS
<1>1. pc[c] \in Steps
  BY DEF FindOperation, MissingReservation, RecordOperation, CommitLockReservation,
         LockFirst, LockSecond, Settle, RepeatCommit, At, Steps
<1>2. CommitInv(c)
  BY <1>1 DEF CallInv
<1>3. SUFFICES ASSUME pc'[c] # "done" PROVE CommitInv(c)'
  <2>1. request' = request
    BY DEF FindOperation, MissingReservation, RecordOperation, CommitLockReservation,
           LockFirst, LockSecond, MissingAccount, LockAccount, LockReservation, Reply,
           Return, Settle, RepeatCommit
  <2>2. Kind(c)' = "commit"
    BY <2>1 DEF Kind
  <2>3. pc'[c] = "done" => CallInv(c)'
    BY DEF CallInv, Steps
  <2> QED BY <2>2, <2>3 DEF CallInv
<1> USE DEF At, Goto
<1>4. ASSUME NEW b, Return(c, b) PROVE FALSE
  BY <1>3, <1>4 DEF Return, TypeOK
<1>5. ASSUME NEW b, Reply(c, b) PROVE FALSE
  BY <1>4, <1>5 DEF Reply
<1>6. ASSUME UNCHANGED <<request, reservations>>
      PROVE  First(c)' = x /\ Second(c)' = y
  BY <1>6 DEF First, Second, AccountsInOrder, Buyer, Payee
<1>7. CASE FindOperation(c)
  BY <1>2, <1>5, <1>7 DEF FindOperation, CommitInv, TypeOK
<1>8. CASE MissingReservation(c)
  BY <1>5, <1>8 DEF MissingReservation
<1>9. CASE CommitLockReservation(c)
  <2>1. PICK step \in {"lockFirst", "recordAgain"} :
            /\ LockReservation(c, step)
            /\ step = "lockFirst" => reservations[r].status = "active"
    BY <1>5, <1>9 DEF CommitLockReservation
  <2>2. ReservationRow(r) \in Resources
    BY <1>2 DEF CommitInv, Resources
  <2>3. Holds(c, ReservationRow(r))'
    BY <2>1, <2>2, TakeHolds DEF LockReservation
  <2> QED BY <1>2, <2>1, <2>3 DEF LockReservation, CommitInv, TypeOK, tableVars
<1>10. ASSUME NEW b \in Accounts, NEW step \in Steps, LockAccount(c, b, step)
       PROVE  /\ Holds(c, AccountRow(b))' /\ \A z : Holds(c, z) => Holds(c, z)'
              /\ pc'[c] = step /\ UNCHANGED <<request, reservations>>
              /\ First(c)' = x /\ Second(c)' = y
  <2>1. AccountRow(b) \in Resources
    BY DEF Resources
  <2> QED BY <1>6, <1>10, <2>1, TakeHolds DEF LockAccount, TypeOK, tableVars
<1>11. CASE LockFirst(c)
  <2>1. x \in Accounts /\ LockAccount(c, x, "lockSecond") /\ pc[c] = "lockFirst"
    BY <1>5, <1>11 DEF LockFirst, MissingAccount, LockAccount
  <2> QED BY <1>2, <1>10, <2>1 DEF CommitInv, Steps
<1>12. CASE LockSecond(c)
  <2>1. y \in Accounts /\ LockAccount(c, y, "record") /\ pc[c] = "lockSecond"
    BY <1>5, <1>12 DEF LockSecond, MissingAccount
  <2> QED BY <1>2, <1>10, <2>1 DEF CommitInv, Steps
<1>13. CASE RecordOperation(c)
  <2>1. \A z : Holds(c, z) => Holds(c, z)'
    BY <1>13 DEF RecordOperation, Take, Holds, TypeOK
  <2>2. UNCHANGED <<request, reservations>>
    BY <1>13 DEF RecordOperation, tableVars
  <2>3. \/ pc[c] = "record" /\ pc'[c] = "commit"
        \/ pc[c] = "recordAgain" /\ pc'[c] = "commitAgain"
    BY <1>13 DEF RecordOperation, TypeOK
  <2> QED BY <1>2, <1>6, <2>1, <2>2, <2>3 DEF CommitInv
<1>14. CASE Settle(c) \/ RepeatCommit(c)
  BY <1>4, <1>14 DEF Settle, RepeatCommit
<1> QED BY <1>7, <1>8, <1>9, <1>11, <1>12, <1>13, <1>14

\* ... of a release, ...
LEMMA ReleaseKeepsInv ==
    ASSUME TypeOK, TableInv, NEW c \in Calls, CallInv(c), Kind(c) = "release",
           \/ FindOperation(c) \/ MissingReservation(c) \/ RecordOperation(c)
           \/ ReleaseLockReservation(c) \/ ReleaseBalance(c) \/ ReleaseHeld(c)
           \/ ReleaseCommit(c)
    PROVE  CallInv(c)'
<1> PICK r : r = request[c].reservation
  OBVIOUS
<1>1. pc[c] \in Steps
  BY DEF FindOperation, MissingReservation, RecordOperation, ReleaseLockReservation,
         ReleaseBalance, ReleaseHeld, ReleaseCommit, At, Steps
<1>2. ReleaseInv(c)
  BY <1>1 DEF CallInv
<1>3. SUFFICES ASSUME pc'[c] # "done" PROVE ReleaseInv(c)'
  <2>1. request' = request
    BY DEF FindOperation, MissingReservation, RecordOperation, ReleaseLockReservation,
           LockReservation, ReleaseBalance, ReadBalance, ReleaseHeld, ReleaseCommit,
           Reply, Return
  <2>2. Kind(c)' = "release"
    BY <2>1 DEF Kind
  <2>3. pc'[c] = "done" => CallInv(c)'
    BY DEF CallInv, Steps
  <2> QED BY <2>2, <2>3 DEF CallInv
<1> USE DEF At, Goto
<1>4. ASSUME NEW b, Return(c, b) PROVE FALSE
  BY <1>3, <1>4 DEF Return, TypeOK
<1>5. ASSUME NEW b, Reply(c, b) PROVE FALSE
  BY <1>4, <1>5 DEF Reply
<1>6. CASE FindOperation(c)
  BY <1>2, <1>5, <1>6 DEF FindOperation, ReleaseInv, TypeOK
<1>7. CASE MissingReservation(c)
  BY <1>5, <1>7 DEF MissingReservation
<1>8. CASE ReleaseLockReservation(c)
  <2>1. LockReservation(c, "balance") /\ reservations[r].status \in {"active", "released"}
    BY <1>5, <1>8 DEF ReleaseLockReservation
  <2>2. ReservationRow(r) \in Resources
    BY <1>2 DEF ReleaseInv, Resources
  <2>3. Holds(c, ReservationRow(r))'
    BY <2>1, <2>2, TakeHolds DEF LockReservation
  <2> QED BY <1>2, <2>1, <2>3 DEF LockReservation, ReleaseInv, TypeOK, tableVars
<1>9. CASE ReleaseBalance(c) \/ ReleaseHeld(c) \/ RecordOperation(c)
  <2>1. \A z : Holds(c, z) => Holds(c, z)'
    BY <1>9 DEF ReleaseBalance, ReadBalance, ReleaseHeld, RecordOperation, Take, Holds, TypeOK
  <2>2. UNCHANGED <<request, reservations>>
    BY <1>9 DEF ReleaseBalance, ReadBalance, ReleaseHeld, RecordOperation, tableVars
  <2>3. /\ pc[c] \in {"balance", "held", "record"}
        /\ pc'[c] \in {"held", "record", "commit"}
    BY <1>2, <1>9 DEF ReleaseBalance, ReadBalance, ReleaseHeld, RecordOperation, ReleaseInv, TypeOK
  <2> QED BY <1>2, <2>1, <2>2, <2>3 DEF ReleaseInv
<1>10. CASE ReleaseCommit(c)
  BY <1>4, <1>10 DEF ReleaseCommit
<1> QED BY <1>6, <1>7, <1>8, <1>9, <1>10

\* ... and of a balance.
LEMMA BalanceKeepsInv ==
    ASSUME TypeOK, NEW c \in Calls, CallInv(c), Kind(c) = "balance",
           BalanceFind(c) \/ BalanceBalance(c) \/ BalanceHeld(c)
    PROVE  CallInv(c)'
<1> USE DEF At, Goto
<1>1. ASSUME NEW b, Reply(c, b) PROVE CallInv(c)'
  BY <1>1, EndedInv DEF Reply
<1>2. CASE BalanceFind(c)
  <2>1. CASE MissingAccount(c, request[c].account)
    BY <1>1, <2>1 DEF MissingAccount
  <2> QED BY <1>2, <2>1 DEF BalanceFind, CallInv, BalanceInv, Kind, TypeOK
<1>3. CASE BalanceBalance(c)
  BY <1>3 DEF BalanceBalance, ReadBalance, CallInv, BalanceInv, Kind, TypeOK, Steps
<1>4. CASE BalanceHeld(c)
  BY <1>1, <1>4 DEF BalanceHeld
<1> QED BY <1>2, <1>3, <1>4

\* A call keeps what it relies on itself.
LEMMA SelfKeepsInv ==
    ASSUME TypeOK, TableInv, NEW c \in Calls, CallInv(c), Moves(c)
    PROVE  CallInv(c)'
<1>1. CASE Accept(c)
  <2>1. PICK q \in Requests : Valid(q) /\ request' = [request EXCEPT ![c] = q]
    BY <1>1 DEF Accept
  <2>2. request'[c] = q /\ pc'[c] = "find" /\ q \in Request
    BY <1>1, <2>1, WalletAssumption DEF Accept, Goto, TypeOK
  <2>3. q.kind \in {"commit", "release"} => q.reservation \in Calls
    BY WalletAssumption
  <2>4. q.kind = "reserve" => q.key \in Keys /\ q.amount > 0
    BY <2>1, <2>2 DEF Valid, Request
  <2> QED BY <2>2, <2>3, <2>4 DEF CallInv, Kind, ReserveInv, CommitInv, ReleaseInv, BalanceInv
<1>2. CASE Refuse(c)
  BY <1>2 DEF Refuse, Goto, TypeOK, CallInv, Steps
<1>3. CASE Abort(c)
  BY <1>3, EndedInv DEF Abort, Reply
<1>4. CASE Advance(c)
  <2>1. request[c] \in Request
    BY DEF TypeOK
  <2>2. Kind(c) \in Kinds
    BY <2>1 DEF Kind, Request
  <2>3. CASE MissingReservation(c)
    BY <2>3, EndedInv DEF MissingReservation, Reply
  <2>4. CASE RecordOperation(c)
    <3>1. Kind(c) \in {"commit", "release"}
      BY <2>2, <2>4 DEF RecordOperation, CallInv, ReserveInv, BalanceInv, Kinds, Steps
    <3> QED BY <2>4, <3>1, CommitKeepsInv, ReleaseKeepsInv
  <2>5. CASE FindOperation(c)
    BY <2>5, CommitKeepsInv, ReleaseKeepsInv DEF FindOperation
  <2>6. CASE \/ ReserveFind(c) \/ ReserveLock(c) \/ ReserveBalance(c) \/ ReserveHeld(c)
             \/ ReserveInsert(c) \/ ReserveReread(c) \/ ReserveCommit(c)
    <3>1. Kind(c) = "reserve"
      BY <2>6 DEF ReserveFind, ReserveLock, ReserveBalance, ReserveHeld, ReserveInsert,
                  ReserveReread, ReserveCommit, At
    <3> QED BY <2>6, <3>1, ReserveKeepsInv
  <2>7. CASE \/ CommitLockReservation(c) \/ LockFirst(c) \/ LockSecond(c)
             \/ Settle(c) \/ RepeatCommit(c)
    <3>1. Kind(c) = "commit"
      BY <2>7 DEF CommitLockReservation, LockFirst, LockSecond, Settle, RepeatCommit, At
    <3> QED BY <2>7, <3>1, CommitKeepsInv
  <2>8. CASE \/ ReleaseLockReservation(c) \/ ReleaseBalance(c) \/ ReleaseHeld(c)
             \/ ReleaseCommit(c)
    <3>1. Kind(c) = "release"
      BY <2>8 DEF ReleaseLockReservation, ReleaseBalance, ReleaseHeld, ReleaseCommit, At
    <3> QED BY <2>8, <3>1, ReleaseKeepsInv
  <2>9. CASE BalanceFind(c) \/ BalanceBalance(c) \/ BalanceHeld(c)
    <3>1. Kind(c) = "balance"
      BY <2>9 DEF BalanceFind, BalanceBalance, BalanceHeld, At
    <3> QED BY <2>9, <3>1, BalanceKeepsInv
  <2> QED BY <1>4, <2>3, <2>4, <2>5, <2>6, <2>7, <2>8, <2>9 DEF Advance
<1> QED BY <1>1, <1>2, <1>3, <1>4 DEF Moves

\* What becomes of a reservation in one step.
LEMMA RowsChange ==
    ASSUME TypeOK, TableInv, NEW c \in Calls, CallInv(c), Moves(c), NEW r \in Calls
    PROVE  \/ reservations'[r] = reservations[r]
           \/ /\ r = c /\ reservations[r].status = "absent" /\ ReserveCommit(c)
              /\ reservations'[r].key = request[c].key
           \/ /\ reservations[r].status = "active"
              /\ \E status \in Statuses :
                    reservations'[r] = [reservations[r] EXCEPT !.status = status]
<1>1. CASE UNCHANGED <<reservations, ledger>>
  BY <1>1
<1>2. CASE ReserveCommit(c)
  BY <1>2 DEF ReserveCommit, At, TypeOK, TableInv, RowInv
<1>3. CASE Settle(c)
  <2>1. reservations[request[c].reservation].status = "active"
    BY <1>3 DEF Settle, At, CallInv, CommitInv, Steps
  <2> QED BY <1>3, <2>1 DEF Settle, SetStatus, TypeOK, Statuses
<1>4. CASE ReleaseCommit(c)
  <2> PICK s : s = request[c].reservation
    OBVIOUS
  <2>1. s \in Calls /\ reservations[s].status \in {"active", "released"}
    BY <1>4 DEF ReleaseCommit, At, CallInv, ReleaseInv, Steps
  <2>2. reservations' = [reservations EXCEPT ![s].status = "released"]
    BY <1>4 DEF ReleaseCommit, SetStatus
  <2>3. reservations[s] \in Row
    BY <2>1 DEF TypeOK
  <2>4. reservations[s].status = "released" => reservations'[s] = reservations[s]
    BY <2>1, <2>2, <2>3 DEF TypeOK, Row
  <2> QED BY <2>1, <2>2, <2>4 DEF TypeOK, Statuses
<1> QED BY <1>1, <1>2, <1>3, <1>4, WhoWrites

\* No second reservation gets a key: the unique index waits and looks again.
LEMMA UniqueKeysKept ==
    ASSUME TypeOK, TableInv, UniqueKeys, NEW c \in Calls, CallInv(c), Moves(c)
    PROVE  UniqueKeys'
<1>1. \A r \in Calls :
          \/ /\ reservations'[r].key = reservations[r].key
             /\ reservations'[r].status # "absent" => reservations[r].status # "absent"
          \/ r = c /\ reservations'[r].key = request[c].key /\ ReserveCommit(c)
  <2> SUFFICES ASSUME NEW r \in Calls
               PROVE  \/ /\ reservations'[r].key = reservations[r].key
                         /\ reservations'[r].status # "absent" => reservations[r].status # "absent"
                      \/ r = c /\ reservations'[r].key = request[c].key /\ ReserveCommit(c)
    OBVIOUS
  <2>1. reservations[r] \in Row
    BY DEF TypeOK
  <2> QED BY <2>1, RowsChange DEF Row
<1>2. ReserveCommit(c) => \A r \in Calls :
          reservations[r].status # "absent" => reservations[r].key # request[c].key
  BY DEF ReserveCommit, At, CallInv, ReserveInv, KeyTaken, WithKey, Steps
<1> QED BY <1>1, <1>2 DEF UniqueKeys

-----------------------------------------------------------------------------
(* The theorems. *)

\* The tables start empty and no call has begun.
LEMMA InitIInv == Init => IInv
<1> SUFFICES ASSUME Init PROVE IInv
  OBVIOUS
<1>1. NoRequest \in Request /\ NoRow \in Row /\ Failure("none") \in Answer
  BY DEF NoRequest, Request, Kinds, NoRow, Row, Failure, Answer, Codes
<1>2. TypeOK
  BY <1>1 DEF Init, TypeOK
<1>3. TableInv /\ UniqueKeys
  BY FS_EmptySet DEF Init, TableInv, RowInv, UniqueKeys, NoRow
<1>4. \A c \in Calls : CallInv(c)
  BY DEF Init, CallInv, Steps
<1>5. ASSUME NEW a \in Accounts PROVE LedgerBalance(a) >= ActiveReservedSum(a)
  <2>1. ActiveOn(a) = {}
    BY DEF Init, ActiveOn, NoRow
  <2>2. ActiveReservedSum(a) = 0
    BY <2>1, SumEmpty DEF ActiveReservedSum, HeldBy
  <2>3. \A direction :
            {e \in ledger : e.account = a /\ e.direction = direction} = {}
    BY DEF Init
  <2>4. \A direction : Posted(direction, a) = 0
    BY <2>3, SumEmpty DEF Posted
  <2>5. Opening[a] \in Nat
    BY WalletAssumption
  <2> QED BY <2>2, <2>4, <2>5 DEF LedgerBalance
<1> QED BY <1>2, <1>3, <1>4, <1>5 DEF IInv, NoOverdraft

\* Every step of Wallet keeps the invariant.
LEMMA NextIInv == IInv /\ [Next]_vars => IInv'
<1> SUFFICES ASSUME IInv, [Next]_vars PROVE IInv'
  OBVIOUS
<1>1. CASE UNCHANGED vars
  <2> USE <1>1 DEF vars, callVars, tableVars
  <2>1. TypeOK' /\ TableInv' /\ UniqueKeys'
    BY DEF IInv, TypeOK, TableInv, RowInv, UniqueKeys
  <2>2. \A a : LedgerBalance(a)' = LedgerBalance(a) /\ ActiveReservedSum(a)' = ActiveReservedSum(a)
    BY SumsUnchanged
  <2>3. NoOverdraft'
    BY <2>2 DEF IInv, NoOverdraft
  <2>4. ASSUME NEW c \in Calls PROVE CallInv(c)'
    <3>1. CallInv(c)
      BY DEF IInv
    <3>2. ReserveInv(c) => ReserveInv(c)'
      BY <2>2 DEF ReserveInv, Holds, KeyTaken, WithKey
    <3>3. CommitInv(c) => CommitInv(c)'
      BY DEF CommitInv, Holds, First, Second, AccountsInOrder, Buyer, Payee
    <3>4. (ReleaseInv(c) => ReleaseInv(c)') /\ (BalanceInv(c) => BalanceInv(c)')
      BY DEF ReleaseInv, BalanceInv, Holds
    <3> QED BY <3>1, <3>2, <3>3, <3>4 DEF CallInv, Kind
  <2> QED BY <2>1, <2>3, <2>4 DEF IInv
<1>2. CASE Next
  <2>1. PICK c \in Calls : Moves(c)
    BY <1>2 DEF Next, Moves
  <2>2. TypeOK /\ TableInv /\ UniqueKeys /\ NoOverdraft /\ \A d \in Calls : CallInv(d)
    BY DEF IInv
  <2>3. TypeOK'
    BY <2>1, <2>2, MovesKeepTypes
  <2>4. TableInv'
    BY <2>1, <2>2, TableInvKept
  <2>5. \A d \in Calls : CallInv(d)'
    <3> SUFFICES ASSUME NEW d \in Calls PROVE CallInv(d)'
      OBVIOUS
    <3>1. CASE d = c
      BY <2>1, <2>2, <3>1, SelfKeepsInv
    <3>2. CASE d # c
      BY <2>1, <2>2, <3>2, OthersKeepInv
    <3> QED BY <3>1, <3>2
  <2>6. UniqueKeys'
    BY <2>1, <2>2, UniqueKeysKept
  <2>7. NoOverdraft'
    BY <2>1, <2>2, NoOverdraftKept
  <2> QED BY <2>3, <2>4, <2>5, <2>6, <2>7 DEF IInv
<1> QED BY <1>1, <1>2

\* What every call in the middle of its transaction relies on is always so.
THEOREM Invariance == Spec => []IInv
BY InitIInv, NextIInv, PTL DEF Spec

\* The variables keep their types.
THEOREM TypesHold == Spec => []TypeOK
<1>1. IInv => TypeOK
  BY DEF IInv
<1> QED BY <1>1, Invariance, PTL

\* No interleaving of any number of calls overdraws an account.
THEOREM NeverOverdrawn == Spec => []NoOverdraft
<1>1. IInv => NoOverdraft
  BY DEF IInv
<1> QED BY <1>1, Invariance, PTL

\* A key never freezes money twice.
THEOREM KeysFreezeOnce == Spec => []OneReservationPerKey
<1>1. IInv => OneReservationPerKey
  <2> SUFFICES ASSUME IInv, NEW k \in Keys PROVE Cardinality(WithKey(k)) <= 1
    BY DEF OneReservationPerKey
  <2>1. \A r, s \in WithKey(k) : r = s
    BY DEF IInv, UniqueKeys, WithKey
  <2>2. CASE WithKey(k) = {}
    BY <2>2, FS_EmptySet
  <2>3. CASE WithKey(k) # {}
    <3>1. PICK r : WithKey(k) = {r}
      BY <2>1, <2>3
    <3>2. Cardinality({r}) = 1
      BY FS_Singleton
    <3>3. Cardinality(WithKey(k)) = 1
      BY <3>1, <3>2, Zenon
    <3> QED BY <3>3
  <2> QED BY <2>2, <2>3
<1> QED BY <1>1, Invariance, PTL

\* A reservation that was paid or given back never changes again.
THEOREM OutcomesAreFinal == Spec => OutcomeIsFinal
<1> DEFINE Final(r) ==
        LET old == reservations[r] new == reservations'[r] IN
        old.status # "absent" =>
            /\ old.status # "active" => new = old
            /\ new = [old EXCEPT !.status = new.status]
            /\ new.status \in Statuses
<1>1. IInv /\ [Next]_vars => [\A r \in Calls : Final(r)]_vars
  <2> SUFFICES ASSUME IInv, Next, NEW r \in Calls PROVE Final(r)
    BY DEF vars
  <2>1. PICK c \in Calls : Moves(c)
    BY DEF Next, Moves
  <2>2. reservations[r] \in Row
    BY DEF IInv, TypeOK
  <2>3. \/ reservations'[r] = reservations[r]
        \/ reservations[r].status = "absent"
        \/ /\ reservations[r].status = "active"
           /\ \E status \in Statuses :
                 reservations'[r] = [reservations[r] EXCEPT !.status = status]
    BY <2>1, RowsChange DEF IInv
  <2>4. CASE reservations'[r] = reservations[r]
    BY <2>2, <2>4 DEF Row
  <2> QED BY <2>2, <2>3, <2>4 DEF Row
<1> QED BY <1>1, Invariance, PTL DEF Spec, OutcomeIsFinal
=============================================================================
