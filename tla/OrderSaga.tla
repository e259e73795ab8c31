------------------------------ MODULE OrderSaga ------------------------------
(***************************************************************************)
(* PlaceOrderWorkflow (services/order, adapters/temporal/workflow.go) and  *)
(* the services its activities call: the wallet, here WalletAbstract with  *)
(* the order id as every key, the licences of catalog and the orders table.*)
(*                                                                         *)
(* An activity attempt reaches its service or is lost, and so is its       *)
(* answer.  A forward activity is attempted MaxAttempts times and has a    *)
(* deadline; the others are retried for ever.  Temporal replays the        *)
(* workflow from its history, so the crash of a worker is a lost attempt.  *)
(***************************************************************************)
EXTENDS Integers, Sequences, FiniteSets

CONSTANTS
    Orders,
    Accounts, Opening,       \* the wallet's accounts and their money
    BuyerOf, AuthorOf,       \* the accounts of an order
    PriceOf,
    MaxAttempts,             \* forwardActivityOptions: 5
    MaxLate,                 \* bound on requests that outlive their attempt
    MaxLostConfirms          \* bound on answers to ConfirmOrder that are lost

ASSUME SagaAssumption ==
    /\ Opening \in [Accounts -> Nat]
    /\ BuyerOf \in [Orders -> Int]
    /\ AuthorOf \in [Orders -> Int]
    /\ PriceOf \in [Orders -> Nat \ {0}]
    /\ MaxAttempts \in Nat \ {0}
    /\ MaxLate \in Nat
    /\ MaxLostConfirms \in Nat

VARIABLES
    balance, hold,  \* wallet
    license,        \* catalog: table licenses, by order_id
    status,         \* order: orders.status
    paidEvents,     \* order: order.order.paid rows in the outbox
    step,           \* workflow: the activity it waits for, or how it ended
    undo,           \* workflow: compensations
    attempts,       \* workflow: attempts of a forward activity that failed
    late            \* requests on their way after their attempt timed out

vars == <<balance, hold, license, status, paidEvents, step, undo, attempts, late>>

Wallet == INSTANCE WalletAbstract WITH Calls <- Orders, Keys <- Orders

Forward == {"ReserveFunds", "GrantLicense", "CommitFunds"}
Compensations == {"RevokeLicense", "ReleaseFunds"}
Critical == Compensations \cup
    {"MarkReserved", "MarkGranted", "MarkCompensating", "ConfirmOrder", "FailOrder"}
Activities == Forward \cup Critical
Ended == {"completed", "failed", "broken"}

-----------------------------------------------------------------------------
(* What the services do. *)

ReserveFunds(o) ==
    /\ \/ hold[o].status # "absent" /\ UNCHANGED <<balance, hold>>
       \/ BuyerOf[o] \in Accounts /\ Wallet!Hold(o, BuyerOf[o], PriceOf[o], o)
    /\ UNCHANGED <<license, status, paidEvents>>

CommitFunds(o) ==
    /\ \/ hold[o].status = "committed" /\ UNCHANGED <<balance, hold>>
       \/ AuthorOf[o] \in Accounts /\ Wallet!Pay(o, AuthorOf[o])
    /\ UNCHANGED <<license, status, paidEvents>>

ReleaseFunds(o) ==
    /\ \/ hold[o].status = "released" /\ UNCHANGED <<balance, hold>>
       \/ Wallet!GiveBack(o)
    /\ UNCHANGED <<license, status, paidEvents>>

\* The row of the order, if there is one, is the answer, revoked or not.
GrantLicense(o) ==
    /\ license' = [license EXCEPT ![o] = IF @ = "absent" THEN "granted" ELSE @]
    /\ UNCHANGED <<balance, hold, status, paidEvents>>

RevokeLicense(o) ==
    /\ license' = [license EXCEPT ![o] = IF @ = "granted" THEN "revoked" ELSE @]
    /\ UNCHANGED <<balance, hold, status, paidEvents>>

UpdateStatus(o, to) ==
    /\ status' = [status EXCEPT ![o] = to]
    /\ UNCHANGED <<balance, hold, license, paidEvents>>

\* status, license_id and order.order.paid in one transaction; every attempt
\* makes an event with an id of its own.
ConfirmOrder(o) ==
    /\ status' = [status EXCEPT ![o] = "completed"]
    /\ paidEvents' = [paidEvents EXCEPT ![o] = @ + 1]
    /\ UNCHANGED <<balance, hold, license>>

Perform(o, activity) ==
    \/ activity = "ReserveFunds" /\ ReserveFunds(o)
    \/ activity = "GrantLicense" /\ GrantLicense(o)
    \/ activity = "CommitFunds" /\ CommitFunds(o)
    \/ activity = "RevokeLicense" /\ RevokeLicense(o)
    \/ activity = "ReleaseFunds" /\ ReleaseFunds(o)
    \/ activity = "MarkReserved" /\ UpdateStatus(o, "funds_reserved")
    \/ activity = "MarkGranted" /\ UpdateStatus(o, "license_granted")
    \/ activity = "MarkCompensating" /\ UpdateStatus(o, "compensating")
    \/ activity = "ConfirmOrder" /\ ConfirmOrder(o)
    \/ activity = "FailOrder" /\ UpdateStatus(o, "failed")

\* The errors classifyGRPCError makes non-retryable.
Refuses(o, activity) ==
    CASE activity = "ReserveFunds" ->
            /\ hold[o].status = "absent"
            /\ \/ BuyerOf[o] \notin Accounts
               \/ Wallet!Available(BuyerOf[o]) < PriceOf[o]
      [] activity = "CommitFunds" ->
            \/ hold[o].status = "released"
            \/ hold[o].status = "active" /\ AuthorOf[o] \notin Accounts
      [] activity = "ReleaseFunds" -> hold[o].status = "committed"
      [] OTHER -> FALSE

NothingDone == UNCHANGED <<balance, hold, license, status, paidEvents>>

-----------------------------------------------------------------------------
(* What the workflow does with the outcome. *)

Goto(o, next) ==
    /\ step' = [step EXCEPT ![o] = next]
    /\ attempts' = [attempts EXCEPT ![o] = 0]

\* Mutant: RevokeLicense is pushed once the licence is known to be granted.
PushedOnAnswer(activity) ==
    CASE activity = "ReserveFunds" -> <<"ReleaseFunds">>
      [] activity = "GrantLicense" -> <<"RevokeLicense">>
      [] OTHER -> <<>>

\* The compensation pushed when an activity succeeds; RevokeLicense before
\* GrantLicense is called, so that a grant whose answer is lost is revoked.
Pushed(activity) ==
    CASE activity = "ReserveFunds" -> <<"ReleaseFunds">>
      [] activity = "MarkReserved" -> <<"RevokeLicense">>
      [] OTHER -> <<>>

\* Mutant: the order is confirmed before the money moves.
ConfirmBeforeCommit(activity) ==
    CASE activity = "ReserveFunds" -> "MarkReserved"
      [] activity = "MarkReserved" -> "GrantLicense"
      [] activity = "GrantLicense" -> "MarkGranted"
      [] activity = "MarkGranted" -> "ConfirmOrder"
      [] activity = "ConfirmOrder" -> "CommitFunds"
      [] activity = "CommitFunds" -> "completed"
      [] activity = "FailOrder" -> "failed"

NextForward(activity) ==
    CASE activity = "ReserveFunds" -> "MarkReserved"
      [] activity = "MarkReserved" -> "GrantLicense"
      [] activity = "GrantLicense" -> "MarkGranted"
      [] activity = "MarkGranted" -> "CommitFunds"
      [] activity = "CommitFunds" -> "ConfirmOrder"
      [] activity = "ConfirmOrder" -> "completed"
      [] activity = "FailOrder" -> "failed"

\* Mutant: the workflow stops after its last compensation.
TopOrStop(stack) == IF stack = <<>> THEN "failed" ELSE stack[Len(stack)]

Top(stack) == IF stack = <<>> THEN "FailOrder" ELSE stack[Len(stack)]
Pop(stack) == SubSeq(stack, 1, Len(stack) - 1)

Proceed(o, activity) ==
    \/ /\ activity \in Compensations
       /\ undo' = [undo EXCEPT ![o] = Pop(@)]
       /\ Goto(o, Top(Pop(undo[o])))
    \/ /\ activity = "MarkCompensating"
       /\ UNCHANGED undo
       /\ Goto(o, Top(undo[o]))
    \/ /\ activity \notin Compensations \cup {"MarkCompensating"}
       /\ undo' = [undo EXCEPT ![o] = @ \o Pushed(activity)]
       /\ Goto(o, NextForward(activity))

\* failOrder
FailOrder(o) ==
    /\ Goto(o, IF undo[o] = <<>> THEN "FailOrder" ELSE "MarkCompensating")
    /\ UNCHANGED undo

\* The service answers and the answer arrives.
Answered(o) ==
    /\ step[o] \notin Ended
    /\ Perform(o, step[o])
    /\ Proceed(o, step[o])
    /\ UNCHANGED late

\* Mutant: the order is failed though a compensation was refused.
FailsAnyway(o) ==
    /\ step[o] \notin Ended
    /\ Refuses(o, step[o])
    /\ NothingDone
    /\ \/ step[o] \in Forward /\ FailOrder(o)
       \/ step[o] \in Compensations /\ Goto(o, "FailOrder") /\ UNCHANGED undo
    /\ UNCHANGED late

\* Mutant: a compensation that is refused is attempted again.
RefusedForward(o) ==
    /\ step[o] \in Forward
    /\ Refuses(o, step[o])
    /\ NothingDone
    /\ FailOrder(o)
    /\ UNCHANGED late

\* A permanent error: the forward steps are undone, but a compensation that
\* is refused ends the workflow where it stands.
Refused(o) ==
    /\ step[o] \notin Ended
    /\ Refuses(o, step[o])
    /\ NothingDone
    /\ \/ step[o] \in Forward /\ FailOrder(o)
       \/ step[o] \in Compensations /\ Goto(o, "broken") /\ UNCHANGED undo
    /\ UNCHANGED late

\* Mutant: one attempt too many.
RetryOnceMore(o) ==
    /\ step[o] \in Forward
    /\ \/ /\ attempts[o] < MaxAttempts
          /\ attempts' = [attempts EXCEPT ![o] = @ + 1]
          /\ UNCHANGED <<step, undo>>
       \/ attempts[o] = MaxAttempts /\ FailOrder(o)

\* The attempt reached the service or not; no answer came in time.
Retry(o) ==
    /\ step[o] \in Forward
    /\ \/ /\ attempts[o] + 1 < MaxAttempts
          /\ attempts' = [attempts EXCEPT ![o] = @ + 1]
          /\ UNCHANGED <<step, undo>>
       \/ attempts[o] + 1 = MaxAttempts /\ FailOrder(o)

AnswerLost(o) ==
    /\ step[o] \notin Ended
    /\ step[o] = "ConfirmOrder" => paidEvents[o] < MaxLostConfirms
    /\ Perform(o, step[o])
    /\ \/ Retry(o)
       \/ step[o] \in Critical /\ UNCHANGED <<step, undo, attempts>>
    /\ UNCHANGED late

RequestLost(o) ==
    /\ step[o] \notin Ended
    /\ NothingDone
    /\ \/ Retry(o)
       \/ step[o] \in Critical /\ UNCHANGED <<step, undo, attempts>>
    /\ \/ UNCHANGED late
       \/ Cardinality(late) < MaxLate /\ late' = late \cup {<<o, step[o]>>}

\* ScheduleToCloseTimeout of a forward activity, no worker having taken it.
NoWorker(o) ==
    /\ step[o] \in Forward
    /\ NothingDone
    /\ FailOrder(o)
    /\ UNCHANGED late

\* The service executes a request nobody waits for.
LateArrival(o, activity) ==
    /\ <<o, activity>> \in late
    /\ activity = "ConfirmOrder" => paidEvents[o] < MaxLostConfirms
    /\ \/ Perform(o, activity)
       \/ Refuses(o, activity) /\ NothingDone
    /\ late' = late \ {<<o, activity>>}
    /\ UNCHANGED <<step, undo, attempts>>

-----------------------------------------------------------------------------
\* OrderRepository.Create and StartPlaceOrder have run for every order.
Init ==
    /\ Wallet!AbsInit
    /\ license = [o \in Orders |-> "absent"]
    /\ status = [o \in Orders |-> "pending"]
    /\ paidEvents = [o \in Orders |-> 0]
    /\ step = [o \in Orders |-> "ReserveFunds"]
    /\ undo = [o \in Orders |-> <<>>]
    /\ attempts = [o \in Orders |-> 0]
    /\ late = {}

Next == \E o \in Orders :
    \/ Answered(o) \/ Refused(o)
    \/ AnswerLost(o) \/ RequestLost(o) \/ NoWorker(o)
    \/ \E activity \in Activities : LateArrival(o, activity)

Spec == Init /\ [][Next]_vars

\* Temporal keeps attempting what it has scheduled, and a service that is
\* down comes back.
FairSpec == Spec /\ \A o \in Orders : WF_vars(Answered(o) \/ Refused(o))
-----------------------------------------------------------------------------
TypeOK ==
    /\ balance \in [Accounts -> Int]
    /\ \A o \in Orders : hold[o].status \in {"absent", "active", "committed", "released"}
    /\ license \in [Orders -> {"absent", "granted", "revoked"}]
    /\ status \in [Orders -> {"pending", "funds_reserved", "license_granted",
                              "compensating", "completed", "failed"}]
    /\ paidEvents \in [Orders -> 0 .. MaxLostConfirms + 1]
    /\ step \in [Orders -> Activities \cup Ended]
    /\ \A o \in Orders : undo[o] \in {SubSeq(<<"ReleaseFunds", "RevokeLicense">>, 1, n) : n \in 0 .. 2}
    /\ attempts \in [Orders -> 0 .. MaxAttempts - 1]
    /\ late \subseteq Orders \X Activities

\* An order that failed has not been paid for, now or ever, whichever answers
\* were lost and whichever requests come late.
FailedIsNotCharged == \A o \in Orders :
    step[o] = "failed" => hold[o].status # "committed"

\* order.order.paid is told only of an order whose money reached the author
\* and whose licence is in force.
PaidEventIsTrue == \A o \in Orders :
    paidEvents[o] > 0 => hold[o].status = "committed" /\ license[o] = "granted"

\* A workflow that ended leaves a licence only with who paid for it.
LicenseIsPaid == \A o \in Orders :
    step[o] \in Ended /\ license[o] = "granted" => hold[o].status = "committed"

\* The status the buyer reads is how the saga ended: completed and failed are
\* written by its last step alone, and a saga that stopped half undone reads
\* as compensating (UpdateStatus and Fail overwrite whatever is there).
EndIsReported == \A o \in Orders :
    /\ step[o] = "completed" => status[o] = "completed"
    /\ status[o] = "completed" => step[o] \in {"ConfirmOrder", "completed"}
    /\ step[o] = "failed" => status[o] = "failed"
    /\ status[o] = "failed" => step[o] \in {"FailOrder", "failed"}
    /\ step[o] = "broken" => status[o] = "compensating"

Rank == [s \in {"pending", "funds_reserved", "license_granted", "compensating",
                "completed", "failed"} |->
            CASE s = "pending" -> 0 [] s = "funds_reserved" -> 1
              [] s = "license_granted" -> 2 [] s = "compensating" -> 3
              [] OTHER -> 4]

\* The status an order shows only moves forward (domain/order.go): a retried
\* write never brings an earlier one back.
Advances == \A o \in Orders :
    status'[o] # status[o] => Rank[status[o]] < Rank[status'[o]]

\* Every order is eventually completed, failed, or left to an operator.
SagaEnds == \A o \in Orders : <>(step[o] \in Ended)
=============================================================================
