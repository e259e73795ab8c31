-------------------------- MODULE WalletProperties --------------------------
(* What services/wallet promises about money, keys, answers and locks. *)
EXTENDS Wallet

TypeOK ==
    /\ request \in [Calls -> Request]
    /\ pc \in [Calls -> {"idle", "done"} \cup Steps]
    /\ seenBalance \in [Calls -> Int]
    /\ seenHeld \in [Calls -> Int]
    /\ answer \in [Calls -> Answer]
    /\ reservations \in [Calls -> Row]
    /\ ledger \subseteq Entry
    /\ operations \subseteq Operation
    /\ outbox \subseteq Calls
    /\ holder \in [Resources -> Calls \cup {NoCall}]

-----------------------------------------------------------------------------
(* Money. *)

\* No interleaving of reserves, commits and releases holds more of an account
\* than the ledger leaves on it (Reserve decides from two reads under the
\* account's lock, and Release changes the second one without that lock).
NoOverdraft == \A a \in Accounts : LedgerBalance(a) >= ActiveReservedSum(a)

\* A committed reservation has exactly one pair of entries, of one operation
\* and of its amount, the debit on its own account, and one account.debited
\* event; any other reservation has none of these (Commit writes all four in
\* one transaction, whoever else commits or releases the reservation).
PaidOnce == \A r \in Calls :
    IF reservations[r].status = "committed"
      THEN /\ r \in outbox
           /\ \E c \in Calls, a \in Accounts :
                EntriesOf(r) =
                  {[operation |-> c, reference |-> r, amount |-> reservations[r].amount,
                    account |-> IF d = "debit" THEN reservations[r].account ELSE a,
                    direction |-> d] : d \in {"debit", "credit"}}
      ELSE r \notin outbox /\ EntriesOf(r) = {}

\* A reservation that was paid or given back never changes again, and until
\* then only its status does (Commit and Release race on one row).
OutcomeIsFinal ==
    [][\A r \in Calls :
          LET old == reservations[r] new == reservations'[r] IN
          old.status # "absent" =>
            /\ old.status # "active" => new = old
            /\ new = [old EXCEPT !.status = new.status]
            /\ new.status \in Statuses]_vars

-----------------------------------------------------------------------------
(* Keys and answers. *)

\* A key freezes money once, on whatever accounts its retries name.
OneReservationPerKey == \A k \in Keys : Cardinality(WithKey(k)) <= 1

Succeeded(c, kind) == Kind(c) = kind /\ answer[c].code = "ok"

SameCall(c, d) ==
    /\ Kind(c) = Kind(d)
    /\ request[c].key = request[d].key
    /\ request[c].reservation = request[d].reservation

\* The key of a commit or a release is an order's, and an order has one
\* reservation: no other call uses the key for another.
KeyIsOwn(c) == \A d \in Calls :
    Kind(d) = Kind(c) /\ request[d].key = request[c].key
        => request[d].reservation = request[c].reservation

\* A retry that succeeds returns what the first success returned, though
\* both may have run at the same time (ReserveFunds and CommitFunds).
RetriesAgree == \A c, d \in Calls :
    /\ SameCall(c, d) /\ KeyIsOwn(c)
    /\ \E kind \in {"reserve", "commit"} : Succeeded(c, kind) /\ Succeeded(d, kind)
    => answer[c] = answer[d]

StatusFor(c) == reservations[request[c].reservation].status

\* What a caller was told stays true: money it was told is paid, given back
\* or frozen is, and a refusal names the outcome the reservation really has.
AnswersStand == \A c \in Calls :
    /\ Succeeded(c, "reserve") => answer[c].reference \in WithKey(request[c].key)
    /\ KeyIsOwn(c) =>
        /\ Succeeded(c, "commit") =>
            /\ StatusFor(c) = "committed"
            /\ \A e \in EntriesOf(request[c].reservation) :
                  e.operation = answer[c].reference
        /\ Succeeded(c, "release") => StatusFor(c) = "released"
    /\ answer[c].code = "AlreadyCommitted" => StatusFor(c) = "committed"
    /\ answer[c].code = "AlreadyReleased" => StatusFor(c) = "released"

-----------------------------------------------------------------------------
(* Locks. *)

\* What the next statement of c has to take.
Wanted(c) ==
    CASE At(c, "reserve", "lockFirst") -> AccountRow(request[c].account)
      [] At(c, "reserve", "insert") -> ReservationKey(request[c].key)
      [] pc[c] = "lockReservation" -> ReservationRow(request[c].reservation)
      [] At(c, "commit", "lockFirst") -> AccountRow(First(c))
      [] pc[c] = "lockSecond" -> AccountRow(Second(c))
      [] pc[c] \in {"record", "recordAgain"} -> OperationKey(request[c].key, Kind(c))
      [] OTHER -> <<"nothing">>

WaitsFor(c, d) == Wanted(c) \in Resources /\ holder[Wanted(c)] = d /\ d # c

\* No calls wait for one another in a circle: commits that pay each other's
\* buyers take the two accounts in one order (lockAccountsSorted).
NoDeadlock == \A ring \in (SUBSET Calls) \ {{}} :
    \E c \in ring : \A d \in ring : ~ WaitsFor(c, d)

\* Every call that arrives is answered.
EveryCallEnds == \A c \in Calls : pc[c] \in Steps ~> pc[c] = "done"

-----------------------------------------------------------------------------
(* Many statements behave as one step of the promise. *)

HoldOf(row) ==
    IF row.status = "absent" THEN [status |-> "absent"]
    ELSE [status |-> row.status, account |-> row.account,
          amount |-> row.amount, key |-> row.key]

Abstract == INSTANCE WalletAbstract WITH
    balance <- [a \in Accounts |-> LedgerBalance(a)],
    hold <- [r \in Calls |-> HoldOf(reservations[r])]

\* Every transaction that commits does one step of WalletAbstract: what a
\* call decided from its earlier reads is still so when its writes appear.
Atomic == Abstract!AbsSpec
=============================================================================
