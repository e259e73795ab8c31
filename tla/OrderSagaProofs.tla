--------------------------- MODULE OrderSagaProofs ---------------------------
(***************************************************************************)
(* Theorems about OrderSaga, for any number of orders, accounts, attempts  *)
(* and late requests.                                                      *)
(*                                                                         *)
(* The inductive invariant: the list of compensations is a function of the *)
(* activity the workflow waits for, and so is what may be on its way from  *)
(* an attempt that is over; from both follows how far money and licence    *)
(* can be.                                                                 *)
(***************************************************************************)
EXTENDS SagaInTime, SequenceTheorems, TLAPS

Both == <<"ReleaseFunds", "RevokeLicense">>

\* The compensations the workflow has at each activity.
UndoAt(s) ==
    CASE s \in {"ReserveFunds", "FailOrder", "failed"} -> <<>>
      [] s \in {"MarkReserved", "ReleaseFunds", "broken"} -> <<"ReleaseFunds">>
      [] OTHER -> Both

\* The activities before CommitFunds, and the whole way of an order that is paid.
BeforeCommit == {"ReserveFunds", "MarkReserved", "GrantLicense", "MarkGranted"}
Granted == {"MarkGranted", "CommitFunds", "ConfirmOrder", "completed"}
OnTheWay == BeforeCommit \cup Granted
Confirming == {"ConfirmOrder", "completed"}

Holds == {[status |-> "absent"]} \cup
    [status : {"active", "committed", "released"}, account : Accounts, amount : Nat, key : Orders]

Types ==
    /\ balance \in [Accounts -> Int]
    /\ hold \in [Orders -> Holds]
    /\ license \in [Orders -> {"absent", "granted", "revoked"}]
    /\ status \in [Orders -> {"pending", "funds_reserved", "license_granted",
                              "compensating", "completed", "failed"}]
    /\ paidEvents \in [Orders -> Nat]
    /\ step \in [Orders -> Activities \cup Ended]
    /\ undo \in [Orders -> {<<>>, <<"ReleaseFunds">>, Both}]
    /\ attempts \in [Orders -> 0 .. MaxAttempts - 1]
    /\ late \subseteq Orders \X Activities

\* What is true of an order, whatever the others do.
OrderInv(o) ==
    /\ undo[o] = UndoAt(step[o])
    /\ step[o] \in BeforeCommit => <<o, "CommitFunds">> \notin late
    /\ step[o] \in OnTheWay => <<o, "RevokeLicense">> \notin late /\ <<o, "ReleaseFunds">> \notin late
    /\ step[o] \notin Confirming => <<o, "ConfirmOrder">> \notin late /\ paidEvents[o] = 0
    /\ step[o] # "completed" => paidEvents[o] <= MaxLostConfirms
    /\ paidEvents[o] <= MaxLostConfirms + 1
    /\ step[o] \in BeforeCommit => hold[o].status \in {"absent", "active"}
    /\ step[o] \in {"FailOrder", "failed"} =>
          /\ hold[o].status # "committed"
          /\ hold[o].status = "released" \/ <<o, "CommitFunds">> \notin late
    /\ step[o] \in Confirming => hold[o].status = "committed"
    /\ step[o] \in OnTheWay => license[o] # "revoked"
    /\ step[o] \in Granted => license[o] = "granted"

IInv == Types /\ \A o \in Orders : OrderInv(o)
-----------------------------------------------------------------------------
(* The list of compensations.                                              *)

\* What Pop and Top find in the lists there are.
LEMMA Stacks ==
    /\ Pop(Both) = <<"ReleaseFunds">>
    /\ Pop(<<"ReleaseFunds">>) = <<>>
    /\ Top(Both) = "RevokeLicense"
    /\ Top(<<"ReleaseFunds">>) = "ReleaseFunds"
    /\ Top(<<>>) = "FailOrder"
<1>1. Pop(Both) = <<"ReleaseFunds">>
  <2> DEFINE s == SubSeq(Both, 1, 1)
  <2>1. s \in Seq(Compensations) /\ Len(s) = 1 /\ s[1] = Both[1]
    <3>1. \A i \in 1 .. 1 : Both[i] \in Compensations
      BY DEF Both, Compensations
    <3> QED  BY <3>1, SubSeqProperties, Z3
  <2>2. <<"ReleaseFunds">> \in Seq(Compensations)
    BY DEF Compensations
  <2>3. s = <<"ReleaseFunds">>
    <3> HIDE DEF s
    <3> QED  BY <2>1, <2>2, SeqEqual DEF Both
  <2> QED  BY <2>3 DEF Pop, Both
<1>2. Pop(<<"ReleaseFunds">>) = <<>>
  BY DEF Pop
<1>3. Top(Both) = "RevokeLicense"
  BY DEF Top, Both
<1>4. Top(<<"ReleaseFunds">>) = "ReleaseFunds"
  BY DEF Top
<1>5. Top(<<>>) = "FailOrder"
  BY DEF Top
<1> QED  BY <1>1, <1>2, <1>3, <1>4, <1>5

\* What an activity that succeeds adds to them.
LEMMA Pushes ==
    /\ <<>> \o Pushed("ReserveFunds") = <<"ReleaseFunds">>
    /\ <<"ReleaseFunds">> \o Pushed("MarkReserved") = Both
    /\ \A a \in {"GrantLicense", "MarkGranted", "CommitFunds", "ConfirmOrder"} :
          Both \o Pushed(a) = Both
    /\ <<>> \o Pushed("FailOrder") = <<>>
<1>1. <<>> \o Pushed("ReserveFunds") = <<"ReleaseFunds">>
  BY DEF Pushed
<1>2. <<"ReleaseFunds">> \o Pushed("MarkReserved") = Both
  <2> DEFINE s == <<"ReleaseFunds">>  t == <<"RevokeLicense">>
  <2>1. s \in Seq(Compensations) /\ t \in Seq(Compensations) /\ Both \in Seq(Compensations)
    BY DEF Both, Compensations
  <2>2. Len(s) = 1 /\ Len(t) = 1 /\ s[1] = "ReleaseFunds" /\ t[1] = "RevokeLicense"
    OBVIOUS
  <2>3. s \o t = Both
    <3> HIDE DEF s, t
    <3>1. s \o t \in Seq(Compensations) /\ Len(s \o t) = 2
          /\ \A i \in 1 .. 2 : (s \o t)[i] = IF i <= 1 THEN s[i] ELSE t[i - 1]
      BY <2>1, <2>2, ConcatProperties, Z3
    <3>2. Len(Both) = 2 /\ Both[1] = "ReleaseFunds" /\ Both[2] = "RevokeLicense"
      BY DEF Both
    <3>3. \A i \in 1 .. 2 : (s \o t)[i] = Both[i]
      BY <2>2, <3>1, <3>2
    <3> QED  BY <2>1, <3>1, <3>2, <3>3, SeqEqual
  <2> QED  BY <2>3 DEF Pushed
<1>3. ASSUME NEW a \in {"GrantLicense", "MarkGranted", "CommitFunds", "ConfirmOrder"}
      PROVE  Both \o Pushed(a) = Both
  <2>1. Pushed(a) = <<>> /\ Both \in Seq(Compensations)
    BY DEF Pushed, Both, Compensations
  <2> QED  BY <2>1, ConcatEmptySeq
<1>4. <<>> \o Pushed("FailOrder") = <<>>
  BY DEF Pushed
<1> QED  BY <1>1, <1>2, <1>3, <1>4

\* The lists are the ones TypeOK speaks of.
LEMMA Prefixes ==
    \A s \in {<<>>, <<"ReleaseFunds">>, Both} : s \in {SubSeq(Both, 1, n) : n \in 0 .. 2}
<1>1. <<>> = SubSeq(Both, 1, 0)
  BY DEF Both
<1>2. <<"ReleaseFunds">> = SubSeq(Both, 1, 1)
  BY Stacks DEF Pop, Both
<1>3. Both = SubSeq(Both, 1, 2)
  BY DEF Both
<1>4. \A n \in 0 .. 2 : SubSeq(Both, 1, n) \in {SubSeq(Both, 1, m) : m \in 0 .. 2}
  OBVIOUS
<1>5. {0, 1, 2} \subseteq 0 .. 2
  OBVIOUS
<1> QED  BY <1>1, <1>2, <1>3, <1>4, <1>5
-----------------------------------------------------------------------------
(* The services.                                                           *)

\* An execution of an activity, or none, spoils nothing another activity did.
Keeps(o, a) ==
    /\ hold[o].status = "committed" => hold'[o].status = "committed"
    /\ hold[o].status = "released" => hold'[o].status = "released"
    /\ hold'[o].status = "committed" => hold[o].status = "committed" \/ a = "CommitFunds"
    /\ hold'[o].status = "released" => hold[o].status = "released" \/ a = "ReleaseFunds"
    /\ license[o] = "granted" => license'[o] = "granted" \/ a = "RevokeLicense"
    /\ license'[o] = "revoked" => license[o] = "revoked" \/ a = "RevokeLicense"
    /\ paidEvents'[o] # paidEvents[o] => a = "ConfirmOrder" /\ paidEvents'[o] = paidEvents[o] + 1

\* What the answer of an activity says is so.
Did(o, a) ==
    /\ a = "CommitFunds" => hold'[o].status = "committed"
    /\ a = "ReleaseFunds" => hold'[o].status = "released"
    /\ a = "GrantLicense" => license'[o] \in {"granted", "revoked"}
    /\ paidEvents'[o] = IF a = "ConfirmOrder" THEN paidEvents[o] + 1 ELSE paidEvents[o]

ServiceTypes ==
    /\ balance \in [Accounts -> Int]
    /\ hold \in [Orders -> Holds]
    /\ license \in [Orders -> {"absent", "granted", "revoked"}]
    /\ status \in [Orders -> {"pending", "funds_reserved", "license_granted",
                              "compensating", "completed", "failed"}]
    /\ paidEvents \in [Orders -> Nat]

\* The services keep nothing of one order under another.
Apart(o) == \A p \in Orders \ {o} :
    hold'[p] = hold[p] /\ license'[p] = license[p] /\ paidEvents'[p] = paidEvents[p]

\* ReserveFunds makes a hold where there is none, and does nothing else.
LEMMA Reserving ==
    ASSUME Types, NEW o \in Orders, ReserveFunds(o)
    PROVE  ServiceTypes' /\ Apart(o) /\ Keeps(o, "ReserveFunds") /\ Did(o, "ReserveFunds")
<1>1. UNCHANGED <<license, status, paidEvents>>
  BY DEF ReserveFunds
<1>2. CASE UNCHANGED <<balance, hold>>
  BY <1>1, <1>2 DEF Types, ServiceTypes, Apart, Keeps, Did
<1>3. CASE BuyerOf[o] \in Accounts /\ Wallet!Hold(o, BuyerOf[o], PriceOf[o], o)
  <2> DEFINE h == [status |-> "active", account |-> BuyerOf[o], amount |-> PriceOf[o], key |-> o]
  <2>1. hold[o] = [status |-> "absent"] /\ hold' = [hold EXCEPT ![o] = h] /\ balance' = balance
    BY <1>3 DEF Wallet!Hold, Wallet!NoHold
  <2>2. h \in Holds /\ h.status = "active"
    BY <1>3, SagaAssumption DEF Holds
  <2>3. hold[o].status = "absent"
    BY <2>1
  <2> HIDE DEF h
  <2>4. hold'[o] = h /\ \A p \in Orders \ {o} : hold'[p] = hold[p]
    BY <2>1 DEF Types
  <2>5. hold' \in [Orders -> Holds]
    BY <2>1, <2>2 DEF Types
  <2>6. ServiceTypes'
    BY <1>1, <2>1, <2>5 DEF Types, ServiceTypes
  <2>7. Apart(o)
    BY <1>1, <2>4 DEF Apart
  <2>8. Keeps(o, "ReserveFunds") /\ Did(o, "ReserveFunds")
    BY <1>1, <2>2, <2>3, <2>4 DEF Keeps, Did
  <2> QED  BY <2>6, <2>7, <2>8
<1> QED  BY <1>2, <1>3 DEF ReserveFunds

\* CommitFunds moves the money of a hold that is active, and of no other.
LEMMA Committing ==
    ASSUME Types, NEW o \in Orders, CommitFunds(o)
    PROVE  ServiceTypes' /\ Apart(o) /\ Keeps(o, "CommitFunds") /\ Did(o, "CommitFunds")
<1>1. UNCHANGED <<license, status, paidEvents>>
  BY DEF CommitFunds
<1>2. CASE hold[o].status = "committed" /\ UNCHANGED <<balance, hold>>
  BY <1>1, <1>2 DEF Types, ServiceTypes, Apart, Keeps, Did
<1>3. CASE AuthorOf[o] \in Accounts /\ Wallet!Pay(o, AuthorOf[o])
  <2> DEFINE h == [hold[o] EXCEPT !.status = "committed"]
  <2>1. /\ hold[o].status = "active"
        /\ hold' = [hold EXCEPT ![o] = h]
        /\ balance' = [a \in Accounts |->
              balance[a] + (IF a = AuthorOf[o] THEN hold[o].amount ELSE 0)
                         - (IF a = hold[o].account THEN hold[o].amount ELSE 0)]
    BY <1>3 DEF Wallet!Pay
  <2>2. hold[o] \in [status : {"active", "committed", "released"}, account : Accounts,
                     amount : Nat, key : Orders]
    <3>1. hold[o] \in Holds
      BY DEF Types
    <3> QED  BY <2>1, <3>1 DEF Holds
  <2>3. h \in Holds /\ h.status = "committed"
    BY <2>2 DEF Holds
  <2>4. hold[o].amount \in Nat
    BY <2>2
  <2>5. balance' \in [Accounts -> Int]
    BY <2>1, <2>4 DEF Types
  <2> HIDE DEF h
  <2>6. hold'[o] = h /\ \A p \in Orders \ {o} : hold'[p] = hold[p]
    BY <2>1 DEF Types
  <2>7. hold' \in [Orders -> Holds]
    BY <2>1, <2>3 DEF Types
  <2>8. ServiceTypes'
    BY <1>1, <2>5, <2>7 DEF Types, ServiceTypes
  <2>9. Apart(o)
    BY <1>1, <2>6 DEF Apart
  <2>10. Keeps(o, "CommitFunds") /\ Did(o, "CommitFunds")
    BY <1>1, <2>1, <2>3, <2>6 DEF Keeps, Did
  <2> QED  BY <2>8, <2>9, <2>10
<1> QED  BY <1>2, <1>3 DEF CommitFunds

\* ReleaseFunds ends a hold that is active, and no other.
LEMMA Releasing ==
    ASSUME Types, NEW o \in Orders, ReleaseFunds(o)
    PROVE  ServiceTypes' /\ Apart(o) /\ Keeps(o, "ReleaseFunds") /\ Did(o, "ReleaseFunds")
<1>1. UNCHANGED <<license, status, paidEvents>>
  BY DEF ReleaseFunds
<1>2. CASE hold[o].status = "released" /\ UNCHANGED <<balance, hold>>
  BY <1>1, <1>2 DEF Types, ServiceTypes, Apart, Keeps, Did
<1>3. CASE Wallet!GiveBack(o)
  <2> DEFINE h == [hold[o] EXCEPT !.status = "released"]
  <2>1. hold[o].status = "active" /\ hold' = [hold EXCEPT ![o] = h] /\ balance' = balance
    BY <1>3 DEF Wallet!GiveBack
  <2>2. hold[o] \in [status : {"active", "committed", "released"}, account : Accounts,
                     amount : Nat, key : Orders]
    <3>1. hold[o] \in Holds
      BY DEF Types
    <3> QED  BY <2>1, <3>1 DEF Holds
  <2>3. h \in Holds /\ h.status = "released"
    BY <2>2 DEF Holds
  <2> HIDE DEF h
  <2>4. hold'[o] = h /\ \A p \in Orders \ {o} : hold'[p] = hold[p]
    BY <2>1 DEF Types
  <2>5. hold' \in [Orders -> Holds]
    BY <2>1, <2>3 DEF Types
  <2>6. ServiceTypes'
    BY <1>1, <2>1, <2>5 DEF Types, ServiceTypes
  <2>7. Apart(o)
    BY <1>1, <2>4 DEF Apart
  <2>8. Keeps(o, "ReleaseFunds") /\ Did(o, "ReleaseFunds")
    BY <1>1, <2>1, <2>3, <2>4 DEF Keeps, Did
  <2> QED  BY <2>6, <2>7, <2>8
<1> QED  BY <1>2, <1>3 DEF ReleaseFunds

\* Every activity, whoever asks for it.
LEMMA Performing ==
    ASSUME Types, NEW o \in Orders, NEW a \in Activities, Perform(o, a)
    PROVE  ServiceTypes' /\ Apart(o) /\ Keeps(o, a) /\ Did(o, a)
<1>1. CASE a = "ReserveFunds" /\ ReserveFunds(o)
  BY <1>1, Reserving
<1>2. CASE a = "CommitFunds" /\ CommitFunds(o)
  BY <1>2, Committing
<1>3. CASE a = "ReleaseFunds" /\ ReleaseFunds(o)
  BY <1>3, Releasing
<1>4. CASE a = "GrantLicense" /\ GrantLicense(o)
  BY <1>4 DEF GrantLicense, Types, ServiceTypes, Apart, Keeps, Did
<1>5. CASE a = "RevokeLicense" /\ RevokeLicense(o)
  BY <1>5 DEF RevokeLicense, Types, ServiceTypes, Apart, Keeps, Did
<1>6. CASE a = "ConfirmOrder" /\ ConfirmOrder(o)
  BY <1>6 DEF ConfirmOrder, Types, ServiceTypes, Apart, Keeps, Did
<1>7. ASSUME NEW to \in {"funds_reserved", "license_granted", "compensating", "failed"},
             UpdateStatus(o, to),
             a \in {"MarkReserved", "MarkGranted", "MarkCompensating", "FailOrder"}
      PROVE  ServiceTypes' /\ Apart(o) /\ Keeps(o, a) /\ Did(o, a)
  BY <1>7 DEF UpdateStatus, Types, ServiceTypes, Apart, Keeps, Did
<1> QED
  BY <1>1, <1>2, <1>3, <1>4, <1>5, <1>6, <1>7 DEF Perform

\* No execution at all.
LEMMA Idling ==
    ASSUME Types, NEW o \in Orders, NEW a \in Activities, NothingDone
    PROVE  ServiceTypes' /\ Apart(o) /\ Keeps(o, a) /\ paidEvents' = paidEvents
BY DEF NothingDone, Types, ServiceTypes, Apart, Keeps
-----------------------------------------------------------------------------
(* The workflow.                                                           *)

\* Nothing of the workflows of other orders moves, nor are their requests lost or made.
Alone(o) ==
    /\ step' = [step EXCEPT ![o] = step'[o]]
    /\ undo' = [undo EXCEPT ![o] = undo'[o]]
    /\ attempts' = [attempts EXCEPT ![o] = attempts'[o]]
    /\ late' \subseteq late \cup ({o} \X Activities)
    /\ late \subseteq late' \cup ({o} \X Activities)

\* What the workflow of an order cannot spoil for another.
LEMMA OthersKeep ==
    ASSUME IInv, NEW o \in Orders, Apart(o), Alone(o), NEW p \in Orders \ {o}
    PROVE  OrderInv(p)'
<1>1. OrderInv(p) /\ Types
  BY DEF IInv
<1>2. \A a : <<p, a>> \in late' <=> <<p, a>> \in late
  BY DEF Alone
<1>3. /\ step'[p] = step[p] /\ undo'[p] = undo[p]
      /\ hold'[p] = hold[p] /\ license'[p] = license[p] /\ paidEvents'[p] = paidEvents[p]
  BY <1>1 DEF Alone, Apart, Types
<1> QED
  BY <1>1, <1>2, <1>3 DEF OrderInv

\* So a step is good if it is for the order it is about.
LEMMA StepsOfOne ==
    ASSUME IInv, NEW o \in Orders, ServiceTypes', Apart(o), Alone(o), OrderInv(o)',
           step'[o] \in Activities \cup Ended, attempts'[o] \in 0 .. MaxAttempts - 1
    PROVE  IInv'
<1>1. Types
  BY DEF IInv
<1>2. undo'[o] \in {<<>>, <<"ReleaseFunds">>, Both}
  BY DEF OrderInv, UndoAt
<1>3. /\ step' \in [Orders -> Activities \cup Ended]
      /\ undo' \in [Orders -> {<<>>, <<"ReleaseFunds">>, Both}]
      /\ attempts' \in [Orders -> 0 .. MaxAttempts - 1]
  BY <1>1, <1>2 DEF Alone, Types
<1>4. late' \subseteq Orders \X Activities
  BY <1>1 DEF Alone, Types
<1>5. Types'
  BY <1>3, <1>4 DEF ServiceTypes, Types
<1>6. \A p \in Orders : OrderInv(p)'
  BY OthersKeep
<1> QED  BY <1>5, <1>6 DEF IInv

\* An attempt of the activity the workflow waits for, or a late request, was executed
\* or was not, and the workflow waits on: no answer came.
LEMMA Waiting ==
    ASSUME IInv, NEW o \in Orders, NEW a \in Activities,
           a = step[o] \/ <<o, a>> \in late,
           ServiceTypes', Keeps(o, a), step'[o] = step[o], undo'[o] = undo[o],
           late' \subseteq late \cup {<<o, step[o]>>},
           paidEvents'[o] # paidEvents[o] => paidEvents[o] < MaxLostConfirms
    PROVE  OrderInv(o)'
<1>1. OrderInv(o) /\ Types
  BY DEF IInv
<1>2. \A b : <<o, b>> \in late' => <<o, b>> \in late \/ b = step[o]
  OBVIOUS
<1>3. undo'[o] = UndoAt(step'[o])
  BY <1>1 DEF OrderInv
<1>4. /\ step'[o] \in BeforeCommit => <<o, "CommitFunds">> \notin late'
      /\ step'[o] \in OnTheWay => <<o, "RevokeLicense">> \notin late' /\ <<o, "ReleaseFunds">> \notin late'
      /\ step'[o] \notin Confirming => <<o, "ConfirmOrder">> \notin late'
  BY <1>1, <1>2 DEF OrderInv, BeforeCommit, OnTheWay, Granted, Confirming
<1>5. /\ step'[o] \notin Confirming => paidEvents'[o] = 0
      /\ step'[o] # "completed" => paidEvents'[o] <= MaxLostConfirms
      /\ paidEvents'[o] <= MaxLostConfirms + 1
  <2>1. a = "ConfirmOrder" => step[o] \in Confirming
    BY <1>1 DEF OrderInv, Confirming
  <2>2. paidEvents[o] \in Nat /\ MaxLostConfirms \in Nat
    BY <1>1, SagaAssumption DEF Types
  <2> QED  BY <1>1, <2>1, <2>2 DEF OrderInv, Keeps
<1>6. /\ a = "CommitFunds" => step[o] \notin BeforeCommit
      /\ a \in {"ReleaseFunds", "RevokeLicense"} => step[o] \notin OnTheWay
      /\ a = "CommitFunds" /\ step[o] \in {"FailOrder", "failed"} => hold[o].status = "released"
  BY <1>1 DEF OrderInv, BeforeCommit, OnTheWay, Granted
<1>7. step'[o] \in BeforeCommit => hold'[o].status \in {"absent", "active"}
  <2>1. hold'[o].status \in {"absent", "active", "committed", "released"}
    BY DEF ServiceTypes, Holds
  <2> QED  BY <1>1, <1>6, <2>1 DEF OrderInv, Keeps, BeforeCommit, OnTheWay
<1>8. step'[o] \in {"FailOrder", "failed"} =>
          /\ hold'[o].status # "committed"
          /\ hold'[o].status = "released" \/ <<o, "CommitFunds">> \notin late'
  BY <1>1, <1>2, <1>6 DEF OrderInv, Keeps
<1>9. step'[o] \in Confirming => hold'[o].status = "committed"
  BY <1>1 DEF OrderInv, Keeps
<1>10. /\ step'[o] \in OnTheWay => license'[o] # "revoked"
       /\ step'[o] \in Granted => license'[o] = "granted"
  BY <1>1, <1>6 DEF OrderInv, Keeps, OnTheWay
<1> QED
  BY <1>3, <1>4, <1>5, <1>7, <1>8, <1>9, <1>10 DEF OrderInv

\* The order is failed from a forward activity, its last attempt executed or not.
LEMMA Failing ==
    ASSUME IInv, NEW o \in Orders, step[o] \in Forward,
           ServiceTypes', Keeps(o, step[o]), FailOrder(o),
           late' \subseteq late \cup {<<o, step[o]>>}
    PROVE  OrderInv(o)' /\ step'[o] \in Activities
<1>1. OrderInv(o) /\ Types
  BY DEF IInv
<1>2. \A b : <<o, b>> \in late' => <<o, b>> \in late \/ b = step[o]
  OBVIOUS
<1>3. undo'[o] = undo[o]
  BY DEF FailOrder
<1>4. paidEvents'[o] = 0
  BY <1>1 DEF OrderInv, Keeps, Forward, Confirming
<1>5. 0 <= MaxLostConfirms /\ 0 <= MaxLostConfirms + 1
  BY SagaAssumption
<1>6. <<o, "ConfirmOrder">> \notin late'
  BY <1>1, <1>2 DEF OrderInv, Forward, Confirming
<1>7. CASE step[o] = "ReserveFunds"
  <2>1. undo[o] = <<>>
    BY <1>1, <1>7 DEF OrderInv, UndoAt
  <2>2. step'[o] = "FailOrder"
    BY <1>1, <2>1 DEF FailOrder, Goto, Types
  <2>3. undo'[o] = UndoAt(step'[o])
    BY <1>3, <2>1, <2>2 DEF UndoAt
  <2>4. hold'[o].status # "committed" /\ <<o, "CommitFunds">> \notin late'
    BY <1>1, <1>2, <1>7 DEF OrderInv, Keeps, BeforeCommit
  <2> QED
    BY <1>4, <1>5, <1>6, <2>2, <2>3, <2>4
    DEF OrderInv, BeforeCommit, OnTheWay, Granted, Confirming, Activities, Critical
<1>8. CASE step[o] \in {"GrantLicense", "CommitFunds"}
  <2>1. undo[o] = Both /\ Both # <<>>
    BY <1>1, <1>8 DEF OrderInv, UndoAt, Both
  <2>2. step'[o] = "MarkCompensating"
    BY <1>1, <2>1 DEF FailOrder, Goto, Types
  <2>3. undo'[o] = UndoAt(step'[o])
    BY <1>3, <2>1, <2>2 DEF UndoAt
  <2> QED
    BY <1>4, <1>5, <1>6, <2>2, <2>3
    DEF OrderInv, BeforeCommit, OnTheWay, Granted, Confirming, Activities, Critical
<1> QED
  BY <1>7, <1>8 DEF Forward

\* A compensation that is refused.
LEMMA Breaking ==
    ASSUME IInv, NEW o \in Orders, step[o] \in Compensations, Refuses(o, step[o]),
           NothingDone, Goto(o, "broken"), UNCHANGED <<undo, late>>
    PROVE  OrderInv(o)'
<1>1. OrderInv(o) /\ Types
  BY DEF IInv
<1>2. step[o] = "ReleaseFunds"
  BY DEF Refuses, Compensations
<1>3. step'[o] = "broken"
  BY <1>1 DEF Goto, Types
<1>4. undo'[o] = UndoAt(step'[o])
  BY <1>1, <1>2, <1>3 DEF OrderInv, UndoAt
<1>5. /\ paidEvents'[o] = 0 /\ <<o, "ConfirmOrder">> \notin late'
      /\ 0 <= MaxLostConfirms /\ 0 <= MaxLostConfirms + 1
  BY <1>1, <1>2, SagaAssumption DEF OrderInv, NothingDone, Confirming
<1> QED
  BY <1>3, <1>4, <1>5 DEF OrderInv, BeforeCommit, OnTheWay, Granted, Confirming

\* Where Proceed takes the workflow, and the compensations it has there.
LEMMA Moves ==
    ASSUME Types, NEW o \in Orders, Proceed(o, step[o])
    PROVE  /\ step[o] \in Compensations =>
                  step'[o] = Top(Pop(undo[o])) /\ undo'[o] = Pop(undo[o])
           /\ step[o] = "MarkCompensating" =>
                  step'[o] = Top(undo[o]) /\ undo'[o] = undo[o]
           /\ step[o] \notin Compensations \cup {"MarkCompensating"} =>
                  step'[o] = NextForward(step[o]) /\ undo'[o] = undo[o] \o Pushed(step[o])
<1>1. CASE step[o] \in Compensations
  <2>1. step[o] # "MarkCompensating"
    BY <1>1 DEF Compensations
  <2> QED  BY <1>1, <2>1 DEF Proceed, Goto, Types
<1>2. CASE step[o] = "MarkCompensating"
  <2>1. step[o] \notin Compensations
    BY <1>2 DEF Compensations
  <2> QED  BY <1>2, <2>1 DEF Proceed, Goto, Types
<1>3. CASE step[o] \notin Compensations \cup {"MarkCompensating"}
  BY <1>3 DEF Proceed, Goto, Types
<1> QED  BY <1>1, <1>2, <1>3

\* The workflow goes on from an activity that was answered.
LEMMA Proceeding ==
    ASSUME IInv, NEW o \in Orders, step[o] \in Activities,
           ServiceTypes', Keeps(o, step[o]), Did(o, step[o]), Proceed(o, step[o]),
           UNCHANGED late
    PROVE  OrderInv(o)' /\ step'[o] \in Activities \cup Ended
<1>1. OrderInv(o) /\ Types
  BY DEF IInv
<1>2. paidEvents[o] \in Nat /\ MaxLostConfirms \in Nat
  BY <1>1, SagaAssumption DEF Types
<1>3. hold'[o].status \in {"absent", "active", "committed", "released"}
      /\ license'[o] \in {"absent", "granted", "revoked"}
  BY DEF ServiceTypes, Holds
<1>4. CASE step[o] = "ReserveFunds"
  <2>1. step'[o] = "MarkReserved" /\ undo'[o] = UndoAt("MarkReserved")
    BY <1>1, <1>4, Moves, Pushes DEF Compensations, NextForward, OrderInv, UndoAt
  <2> QED
    BY <1>1, <1>2, <1>3, <1>4, <2>1
    DEF OrderInv, Keeps, Did, BeforeCommit, OnTheWay, Granted, Confirming,
        Activities, Forward, Critical, Compensations, Ended
<1>5. CASE step[o] = "MarkReserved"
  <2>1. step'[o] = "GrantLicense" /\ undo'[o] = UndoAt("GrantLicense")
    BY <1>1, <1>5, Moves, Pushes DEF Compensations, NextForward, OrderInv, UndoAt
  <2> QED
    BY <1>1, <1>2, <1>3, <1>5, <2>1
    DEF OrderInv, Keeps, Did, BeforeCommit, OnTheWay, Granted, Confirming,
        Activities, Forward, Critical, Compensations, Ended
<1>6. CASE step[o] = "GrantLicense"
  <2>1. step'[o] = "MarkGranted" /\ undo'[o] = UndoAt("MarkGranted")
    BY <1>1, <1>6, Moves, Pushes DEF Compensations, NextForward, OrderInv, UndoAt
  <2> QED
    BY <1>1, <1>2, <1>3, <1>6, <2>1
    DEF OrderInv, Keeps, Did, BeforeCommit, OnTheWay, Granted, Confirming,
        Activities, Forward, Critical, Compensations, Ended
<1>7. CASE step[o] = "MarkGranted"
  <2>1. step'[o] = "CommitFunds" /\ undo'[o] = UndoAt("CommitFunds")
    BY <1>1, <1>7, Moves, Pushes DEF Compensations, NextForward, OrderInv, UndoAt
  <2> QED
    BY <1>1, <1>2, <1>3, <1>7, <2>1
    DEF OrderInv, Keeps, Did, BeforeCommit, OnTheWay, Granted, Confirming,
        Activities, Forward, Critical, Compensations, Ended
<1>8. CASE step[o] = "CommitFunds"
  <2>1. step'[o] = "ConfirmOrder" /\ undo'[o] = UndoAt("ConfirmOrder")
    BY <1>1, <1>8, Moves, Pushes DEF Compensations, NextForward, OrderInv, UndoAt
  <2> QED
    BY <1>1, <1>2, <1>3, <1>8, <2>1
    DEF OrderInv, Keeps, Did, BeforeCommit, OnTheWay, Granted, Confirming,
        Activities, Forward, Critical, Compensations, Ended
<1>9. CASE step[o] = "ConfirmOrder"
  <2>1. step'[o] = "completed" /\ undo'[o] = UndoAt("completed")
    BY <1>1, <1>9, Moves, Pushes DEF Compensations, NextForward, OrderInv, UndoAt
  <2> QED
    BY <1>1, <1>2, <1>3, <1>9, <2>1
    DEF OrderInv, Keeps, Did, BeforeCommit, OnTheWay, Granted, Confirming,
        Activities, Forward, Critical, Compensations, Ended
<1>10. CASE step[o] = "FailOrder"
  <2>1. step'[o] = "failed" /\ undo'[o] = UndoAt("failed")
    BY <1>1, <1>10, Moves, Pushes DEF Compensations, NextForward, OrderInv, UndoAt
  <2> QED
    BY <1>1, <1>2, <1>3, <1>10, <2>1
    DEF OrderInv, Keeps, Did, BeforeCommit, OnTheWay, Granted, Confirming,
        Activities, Forward, Critical, Compensations, Ended
<1>11. CASE step[o] = "MarkCompensating"
  <2>1. step'[o] = "RevokeLicense" /\ undo'[o] = UndoAt("RevokeLicense")
    BY <1>1, <1>11, Moves, Stacks DEF Compensations, OrderInv, UndoAt
  <2> QED
    BY <1>1, <1>2, <1>3, <1>11, <2>1
    DEF OrderInv, Keeps, Did, BeforeCommit, OnTheWay, Granted, Confirming,
        Activities, Forward, Critical, Compensations, Ended
<1>12. CASE step[o] = "RevokeLicense"
  <2>1. step'[o] = "ReleaseFunds" /\ undo'[o] = UndoAt("ReleaseFunds")
    BY <1>1, <1>12, Moves, Stacks DEF Compensations, OrderInv, UndoAt
  <2> QED
    BY <1>1, <1>2, <1>3, <1>12, <2>1
    DEF OrderInv, Keeps, Did, BeforeCommit, OnTheWay, Granted, Confirming,
        Activities, Forward, Critical, Compensations, Ended
<1>13. CASE step[o] = "ReleaseFunds"
  <2>1. step'[o] = "FailOrder" /\ undo'[o] = UndoAt("FailOrder")
    BY <1>1, <1>13, Moves, Stacks DEF Compensations, OrderInv, UndoAt
  <2> QED
    BY <1>1, <1>2, <1>3, <1>13, <2>1
    DEF OrderInv, Keeps, Did, BeforeCommit, OnTheWay, Granted, Confirming,
        Activities, Forward, Critical, Compensations, Ended
<1> QED
  BY <1>4, <1>5, <1>6, <1>7, <1>8, <1>9, <1>10, <1>11, <1>12, <1>13
  DEF Activities, Forward, Critical, Compensations
-----------------------------------------------------------------------------
(* The actions.                                                            *)

\* Goto is about one order, and the attempts of the next activity are none yet.
LEMMA Going ==
    ASSUME Types, NEW o \in Orders, NEW next, Goto(o, next)
    PROVE  /\ step' = [step EXCEPT ![o] = step'[o]]
           /\ attempts' = [attempts EXCEPT ![o] = attempts'[o]]
           /\ attempts'[o] \in 0 .. MaxAttempts - 1
<1>1. 0 \in 0 .. MaxAttempts - 1
  BY SagaAssumption
<1>2. step'[o] = next /\ attempts'[o] = 0
  BY DEF Goto, Types
<1> QED  BY <1>1, <1>2 DEF Goto

\* The compensations of one order are pushed, popped or left alone.
LEMMA Undoing ==
    ASSUME Types, NEW o \in Orders, Proceed(o, step[o])
    PROVE  undo' = [undo EXCEPT ![o] = undo'[o]]
BY DEF Proceed, Types

\* An answer.
LEMMA AnsweredKeeps ==
    ASSUME IInv, NEW o \in Orders, Answered(o)
    PROVE  IInv'
<1>1. Types
  BY DEF IInv
<1>2. step[o] \in Activities /\ Perform(o, step[o]) /\ Proceed(o, step[o]) /\ UNCHANGED late
  BY <1>1 DEF Answered, Types
<1>3. ServiceTypes' /\ Apart(o) /\ Keeps(o, step[o]) /\ Did(o, step[o])
  BY <1>1, <1>2, Performing
<1>4. OrderInv(o)' /\ step'[o] \in Activities \cup Ended
  BY <1>2, <1>3, Proceeding
<1>5. PICK next : Goto(o, next)
  BY <1>2 DEF Proceed
<1>6. Alone(o)
  BY <1>1, <1>2, <1>5, Going, Undoing DEF Alone
<1> QED
  BY <1>1, <1>3, <1>4, <1>5, <1>6, Going, StepsOfOne

\* An activity that is given up.
LEMMA FailingKeeps ==
    ASSUME IInv, NEW o \in Orders, step[o] \in Forward, FailOrder(o),
           ServiceTypes', Apart(o), Keeps(o, step[o]),
           late' \subseteq late \cup {<<o, step[o]>>}, late \subseteq late'
    PROVE  IInv'
<1>1. Types /\ step[o] \in Activities
  BY DEF IInv, Activities
<1>2. OrderInv(o)' /\ step'[o] \in Activities
  BY Failing
<1>3. PICK next : Goto(o, next)
  BY DEF FailOrder
<1>4. Alone(o)
  BY <1>1, <1>3, Going DEF Alone, FailOrder, Types
<1> QED
  BY <1>1, <1>2, <1>3, <1>4, Going, StepsOfOne

\* A permanent error of a forward activity or of a compensation.
LEMMA RefusedKeeps ==
    ASSUME IInv, NEW o \in Orders, Refused(o)
    PROVE  IInv'
<1>1. Types
  BY DEF IInv
<1>2. step[o] \in Activities /\ Refuses(o, step[o]) /\ NothingDone /\ UNCHANGED late
  BY <1>1 DEF Refused, Types
<1>3. ServiceTypes' /\ Apart(o) /\ Keeps(o, step[o])
  BY <1>1, <1>2, Idling
<1>4. CASE step[o] \in Forward /\ FailOrder(o)
  BY <1>2, <1>3, <1>4, FailingKeeps
<1>5. CASE step[o] \in Compensations /\ Goto(o, "broken") /\ UNCHANGED undo
  <2>1. OrderInv(o)'
    BY <1>2, <1>5, Breaking
  <2>2. step'[o] \in Ended
    BY <1>1, <1>5 DEF Goto, Types, Ended
  <2>3. Alone(o)
    BY <1>1, <1>2, <1>5, Going DEF Alone, Types
  <2> QED
    BY <1>1, <1>3, <1>5, <2>1, <2>2, <2>3, Going, StepsOfOne
<1> QED
  BY <1>4, <1>5 DEF Refused

\* No answer came: the attempt was executed or was not.
LEMMA SilenceKeeps ==
    ASSUME IInv, NEW o \in Orders, step[o] \notin Ended,
           ServiceTypes', Apart(o), Keeps(o, step[o]),
           paidEvents'[o] # paidEvents[o] => paidEvents[o] < MaxLostConfirms,
           Retry(o) \/ (step[o] \in Critical /\ UNCHANGED <<step, undo, attempts>>),
           late' \subseteq late \cup {<<o, step[o]>>}, late \subseteq late'
    PROVE  IInv'
<1>1. Types /\ step[o] \in Activities
  BY DEF IInv, Types
<1>2. CASE step[o] \in Forward /\ FailOrder(o)
  BY <1>2, FailingKeeps
<1>3. CASE /\ UNCHANGED <<step, undo>>
           /\ attempts' = [attempts EXCEPT ![o] = attempts'[o]]
           /\ attempts'[o] \in 0 .. MaxAttempts - 1
  <2>1. OrderInv(o)'
    BY <1>1, <1>3, Waiting
  <2>2. Alone(o)
    BY <1>1, <1>3 DEF Alone, Types
  <2>3. step'[o] \in Activities
    BY <1>1, <1>3
  <2> QED  BY <1>3, <2>1, <2>2, <2>3, StepsOfOne
<1>4. attempts[o] \in 0 .. MaxAttempts - 1 /\ MaxAttempts \in Nat
  BY <1>1, SagaAssumption DEF Types
<1>5. CASE attempts[o] + 1 < MaxAttempts /\ attempts' = [attempts EXCEPT ![o] = @ + 1]
           /\ UNCHANGED <<step, undo>>
  <2>1. attempts'[o] = attempts[o] + 1
    BY <1>1, <1>5 DEF Types
  <2>2. attempts'[o] \in 0 .. MaxAttempts - 1
    BY <1>4, <1>5, <2>1
  <2>3. attempts' = [attempts EXCEPT ![o] = attempts'[o]]
    BY <1>5, <2>1
  <2> QED  BY <1>3, <1>5, <2>2, <2>3
<1>6. CASE UNCHANGED <<step, undo, attempts>>
  <2>1. attempts' = [attempts EXCEPT ![o] = attempts'[o]]
    BY <1>1, <1>6 DEF Types
  <2> QED  BY <1>3, <1>4, <1>6, <2>1
<1> QED
  BY <1>2, <1>5, <1>6 DEF Retry

\* The service did it, the workflow does not know.
LEMMA AnswerLostKeeps ==
    ASSUME IInv, NEW o \in Orders, AnswerLost(o)
    PROVE  IInv'
<1>1. Types /\ step[o] \in Activities
  BY DEF IInv, Types, AnswerLost
<1>2. ServiceTypes' /\ Apart(o) /\ Keeps(o, step[o])
  BY <1>1, Performing DEF AnswerLost
<1>3. paidEvents'[o] # paidEvents[o] => paidEvents[o] < MaxLostConfirms
  BY <1>2 DEF Keeps, AnswerLost
<1>4. step[o] \notin Ended
  BY DEF AnswerLost
<1>5. Retry(o) \/ (step[o] \in Critical /\ UNCHANGED <<step, undo, attempts>>)
  BY DEF AnswerLost
<1>6. late' \subseteq late \cup {<<o, step[o]>>} /\ late \subseteq late'
  BY DEF AnswerLost
<1> QED
  BY <1>2, <1>3, <1>4, <1>5, <1>6, SilenceKeeps

\* The service did not do it, yet.
LEMMA RequestLostKeeps ==
    ASSUME IInv, NEW o \in Orders, RequestLost(o)
    PROVE  IInv'
<1>1. Types /\ step[o] \in Activities
  BY DEF IInv, Types, RequestLost
<1>2. ServiceTypes' /\ Apart(o) /\ Keeps(o, step[o]) /\ paidEvents' = paidEvents
  BY <1>1, Idling DEF RequestLost
<1>3. step[o] \notin Ended
  BY DEF RequestLost
<1>4. Retry(o) \/ (step[o] \in Critical /\ UNCHANGED <<step, undo, attempts>>)
  BY DEF RequestLost
<1>5. late' \subseteq late \cup {<<o, step[o]>>} /\ late \subseteq late'
  BY DEF RequestLost
<1> QED
  BY <1>2, <1>3, <1>4, <1>5, SilenceKeeps

\* The deadline of a forward activity.
LEMMA NoWorkerKeeps ==
    ASSUME IInv, NEW o \in Orders, NoWorker(o)
    PROVE  IInv'
<1>1. Types /\ step[o] \in Activities
  BY DEF IInv, NoWorker, Activities
<1>2. ServiceTypes' /\ Apart(o) /\ Keeps(o, step[o])
  BY <1>1, Idling DEF NoWorker
<1> QED
  BY <1>2, FailingKeeps DEF NoWorker

\* A request that outlived its attempt.
LEMMA LateArrivalKeeps ==
    ASSUME IInv, NEW o \in Orders, NEW a \in Activities, LateArrival(o, a)
    PROVE  IInv'
<1>1. Types
  BY DEF IInv
<1>2. ServiceTypes' /\ Apart(o) /\ Keeps(o, a)
  BY <1>1, Performing, Idling DEF LateArrival
<1>3. paidEvents'[o] # paidEvents[o] => paidEvents[o] < MaxLostConfirms
  BY <1>2 DEF Keeps, LateArrival
<1>4. UNCHANGED <<step, undo, attempts>> /\ late' = late \ {<<o, a>>} /\ <<o, a>> \in late
  BY DEF LateArrival
<1>5. OrderInv(o)'
  BY <1>2, <1>3, <1>4, Waiting
<1>6. Alone(o)
  BY <1>1, <1>4 DEF Alone, Types
<1>7. step'[o] \in Activities \cup Ended /\ attempts'[o] \in 0 .. MaxAttempts - 1
  BY <1>1, <1>4 DEF Types
<1> QED
  BY <1>2, <1>5, <1>6, <1>7, StepsOfOne
-----------------------------------------------------------------------------
(* The theorems.                                                           *)

\* Orders are accepted, nothing is held, and no workflow has begun.
LEMMA InitKeeps == Init => IInv
<1> SUFFICES ASSUME Init PROVE IInv
  OBVIOUS
<1>1. /\ balance = Opening
      /\ hold = [o \in Orders |-> [status |-> "absent"]]
  BY DEF Init, Wallet!AbsInit, Wallet!NoHold
<1>2. balance \in [Accounts -> Int] /\ hold \in [Orders -> Holds]
  BY <1>1, SagaAssumption DEF Holds
<1>3. attempts \in [Orders -> 0 .. MaxAttempts - 1] /\ MaxLostConfirms \in Nat
  BY SagaAssumption DEF Init
<1>4. Types
  BY <1>2, <1>3 DEF Init, Types, Activities, Forward
<1>5. ASSUME NEW o \in Orders PROVE OrderInv(o)
  <2>1. step[o] = "ReserveFunds" /\ undo[o] = <<>> /\ late = {} /\ paidEvents[o] = 0
        /\ license[o] = "absent" /\ hold[o].status = "absent"
    BY <1>1 DEF Init
  <2> QED
    BY <1>3, <2>1 DEF OrderInv, UndoAt, BeforeCommit, OnTheWay, Granted, Confirming
<1> QED  BY <1>4, <1>5 DEF IInv

\* Every step keeps the invariant.
LEMMA NextKeeps == IInv /\ [Next]_vars => IInv'
<1> SUFFICES ASSUME IInv, [Next]_vars PROVE IInv'
  OBVIOUS
<1>1. CASE UNCHANGED vars
  <2>1. Types'
    BY <1>1 DEF vars, IInv, Types
  <2>2. \A o \in Orders : OrderInv(o)'
    BY <1>1 DEF vars, IInv, OrderInv
  <2> QED  BY <2>1, <2>2 DEF IInv
<1>2. CASE Next
  <2> PICK o \in Orders :
          \/ Answered(o) \/ Refused(o) \/ AnswerLost(o) \/ RequestLost(o) \/ NoWorker(o)
          \/ \E activity \in Activities : LateArrival(o, activity)
    BY <1>2 DEF Next
  <2> QED
    BY AnsweredKeeps, RefusedKeeps, AnswerLostKeeps, RequestLostKeeps, NoWorkerKeeps,
       LateArrivalKeeps
<1> QED  BY <1>1, <1>2

\* The compensations, the requests under way and the holds always fit the
\* activity the workflow waits for.
THEOREM SagaInvariant == Spec => []IInv
BY InitKeeps, NextKeeps, PTL DEF Spec

\* The state of workflow and services keeps its types, and order.order.paid is
\* told at most once more than its answers were lost.
THEOREM SagaTypes == Spec => []TypeOK
<1>1. IInv => TypeOK
  <2> SUFFICES ASSUME IInv PROVE TypeOK
    OBVIOUS
  <2>1. Types
    BY DEF IInv
  <2>2. \A o \in Orders : hold[o].status \in {"absent", "active", "committed", "released"}
    BY <2>1 DEF Types, Holds
  <2>3. paidEvents \in [Orders -> 0 .. MaxLostConfirms + 1]
    <3>1. \A o \in Orders : paidEvents[o] \in Nat /\ paidEvents[o] <= MaxLostConfirms + 1
      BY <2>1 DEF IInv, OrderInv, Types
    <3>2. \A o \in Orders : paidEvents[o] \in 0 .. MaxLostConfirms + 1
      BY <3>1, SagaAssumption
    <3> QED  BY <2>1, <3>2 DEF Types
  <2>4. \A o \in Orders : undo[o] \in {SubSeq(<<"ReleaseFunds", "RevokeLicense">>, 1, n) : n \in 0 .. 2}
    BY <2>1, Prefixes DEF Types, Both
  <2> QED  BY <2>1, <2>2, <2>3, <2>4 DEF TypeOK, Types
<1> QED  BY <1>1, SagaInvariant, PTL

\* An order that failed is never charged, however late the requests of the saga
\* that was given up come.
THEOREM FailedNeverCharged == Spec => []FailedIsNotCharged
<1>1. IInv => FailedIsNotCharged
  BY DEF IInv, OrderInv, FailedIsNotCharged
<1> QED  BY <1>1, SagaInvariant, PTL

\* Whoever hears that an order is paid finds the money moved and the licence granted.
THEOREM PaidEventNeverLies == Spec => []PaidEventIsTrue
<1>1. IInv => PaidEventIsTrue
  <2> SUFFICES ASSUME IInv, NEW o \in Orders, paidEvents[o] > 0
               PROVE  hold[o].status = "committed" /\ license[o] = "granted"
    BY DEF PaidEventIsTrue
  <2>1. step[o] \in Confirming
    <3>1. paidEvents[o] # 0
      BY DEF IInv, Types
    <3> QED  BY <3>1 DEF IInv, OrderInv
  <2> QED
    BY <2>1 DEF IInv, OrderInv, Confirming, Granted
<1> QED  BY <1>1, SagaInvariant, PTL
-----------------------------------------------------------------------------
(* When no request outlives its attempt.                                   *)

\* The activities at which an order has no licence in force.
Unlicensed == {"ReserveFunds", "MarkReserved", "ReleaseFunds", "FailOrder", "failed", "broken"}

\* The statuses an order may show at each activity: before the write and after.
StatusAt(s) ==
    CASE s = "ReserveFunds" -> {"pending"}
      [] s = "MarkReserved" -> {"pending", "funds_reserved"}
      [] s = "GrantLicense" -> {"funds_reserved"}
      [] s = "MarkGranted" -> {"funds_reserved", "license_granted"}
      [] s = "CommitFunds" -> {"license_granted"}
      [] s = "ConfirmOrder" -> {"license_granted", "completed"}
      [] s = "completed" -> {"completed"}
      [] s = "MarkCompensating" -> {"funds_reserved", "license_granted", "compensating"}
      [] s \in {"RevokeLicense", "ReleaseFunds", "broken"} -> {"compensating"}
      [] s = "FailOrder" -> {"pending", "compensating", "failed"}
      [] OTHER -> {"failed"}

InTime(o) ==
    /\ step[o] \in Unlicensed => license[o] # "granted"
    /\ status[o] \in StatusAt(step[o])

InTimeInv == punctual => late = {} /\ \A o \in Orders : InTime(o)

\* What executing an activity makes of the status of its order, and of the licence.
Written(a, s) ==
    CASE a = "MarkReserved" -> "funds_reserved"
      [] a = "MarkGranted" -> "license_granted"
      [] a = "MarkCompensating" -> "compensating"
      [] a = "ConfirmOrder" -> "completed"
      [] a = "FailOrder" -> "failed"
      [] OTHER -> s

Licensed(a, l) ==
    CASE a = "GrantLicense" /\ l = "absent" -> "granted"
      [] a = "RevokeLicense" /\ l = "granted" -> "revoked"
      [] OTHER -> l

\* The activity that follows one that succeeded, and one that was given up.
After(s) ==
    CASE s \in Compensations -> IF s = "RevokeLicense" THEN "ReleaseFunds" ELSE "FailOrder"
      [] s = "MarkCompensating" -> "RevokeLicense"
      [] OTHER -> NextForward(s)

GivenUp(s) == IF s = "ReserveFunds" THEN "FailOrder" ELSE "MarkCompensating"

\* An execution writes one status and one licence.
LEMMA Writing ==
    ASSUME Types, NEW o \in Orders, NEW a \in Activities, Perform(o, a)
    PROVE  /\ status' = [status EXCEPT ![o] = Written(a, @)]
           /\ license' = [license EXCEPT ![o] = Licensed(a, @)]
<1>1. CASE a \in {"MarkReserved", "MarkGranted", "MarkCompensating", "ConfirmOrder", "FailOrder"}
  <2>1. license' = license /\ status' = [status EXCEPT ![o] = Written(a, status[o])]
    BY <1>1 DEF Perform, UpdateStatus, ConfirmOrder, Written
  <2>2. Licensed(a, license[o]) = license[o]
    BY <1>1 DEF Licensed
  <2> QED  BY <2>1, <2>2 DEF Types
<1>2. CASE a \in {"GrantLicense", "RevokeLicense"}
  <2>1. status' = status /\ license' = [license EXCEPT ![o] = Licensed(a, license[o])]
    BY <1>2 DEF Perform, GrantLicense, RevokeLicense, Licensed
  <2>2. Written(a, status[o]) = status[o]
    BY <1>2 DEF Written
  <2> QED  BY <2>1, <2>2 DEF Types
<1>3. CASE a \in {"ReserveFunds", "CommitFunds", "ReleaseFunds"}
  <2>1. status' = status /\ license' = license
    BY <1>3 DEF Perform, ReserveFunds, CommitFunds, ReleaseFunds
  <2>2. Written(a, status[o]) = status[o] /\ Licensed(a, license[o]) = license[o]
    BY <1>3 DEF Written, Licensed
  <2> QED  BY <2>1, <2>2 DEF Types
<1> QED  BY <1>1, <1>2, <1>3 DEF Activities, Forward, Critical, Compensations

\* An answer takes the workflow on.
LEMMA GoesOn ==
    ASSUME IInv, NEW o \in Orders, step[o] \in Activities, Proceed(o, step[o])
    PROVE  step' = [step EXCEPT ![o] = After(step[o])]
<1>1. Types /\ undo[o] = UndoAt(step[o])
  BY DEF IInv, OrderInv
<1>2. PICK next : Goto(o, next)
  BY DEF Proceed
<1>3. step'[o] = After(step[o])
  <2>1. CASE step[o] = "RevokeLicense"
    BY <1>1, <2>1, Moves, Stacks DEF After, UndoAt, Compensations
  <2>2. CASE step[o] = "ReleaseFunds"
    BY <1>1, <2>2, Moves, Stacks DEF After, UndoAt, Compensations
  <2>3. CASE step[o] = "MarkCompensating"
    BY <1>1, <2>3, Moves, Stacks DEF After, UndoAt, Compensations
  <2>4. CASE step[o] \notin Compensations \cup {"MarkCompensating"}
    BY <1>1, <2>4, Moves DEF After
  <2> QED  BY <2>1, <2>2, <2>3, <2>4 DEF Compensations
<1> QED  BY <1>1, <1>2, <1>3, Going

\* Giving up a forward activity does too.
LEMMA GivesUp ==
    ASSUME IInv, NEW o \in Orders, step[o] \in Forward, FailOrder(o)
    PROVE  step' = [step EXCEPT ![o] = GivenUp(step[o])]
<1>1. Types /\ undo[o] = UndoAt(step[o])
  BY DEF IInv, OrderInv
<1>2. UndoAt(step[o]) = <<>> <=> step[o] = "ReserveFunds"
  BY DEF UndoAt, Forward, Both
<1> QED  BY <1>1, <1>2 DEF FailOrder, Goto, GivenUp

\* What one step does for its order while nothing is late: an execution or none, and
\* an answer, a wait or a failure.
Moved(o) ==
    \/ /\ status' = [status EXCEPT ![o] = Written(step[o], @)]
       /\ license' = [license EXCEPT ![o] = Licensed(step[o], @)]
       /\ step' = [step EXCEPT ![o] = After(@)]
    \/ /\ \/ /\ status' = [status EXCEPT ![o] = Written(step[o], @)]
             /\ license' = [license EXCEPT ![o] = Licensed(step[o], @)]
          \/ UNCHANGED <<status, license>>
       /\ \/ UNCHANGED step
          \/ step[o] \in Forward /\ step' = [step EXCEPT ![o] = GivenUp(@)]
    \/ /\ UNCHANGED <<status, license>>
       /\ step[o] = "ReleaseFunds" /\ step' = [step EXCEPT ![o] = "broken"]

\* Every action is such a step when no request is late.
LEMMA Punctual ==
    ASSUME IInv, Next, late = {}
    PROVE  \E o \in Orders : step[o] \in Activities /\ Moved(o)
<1>1. Types
  BY DEF IInv
<1>2. PICK o \in Orders :
          \/ Answered(o) \/ Refused(o) \/ AnswerLost(o) \/ RequestLost(o) \/ NoWorker(o)
          \/ \E activity \in Activities : LateArrival(o, activity)
  BY DEF Next
<1>3. ASSUME NEW a \in Activities PROVE ~LateArrival(o, a)
  BY DEF LateArrival
<1>4. step[o] \in Activities
  BY <1>1, <1>2, <1>3
  DEF Answered, Refused, AnswerLost, RequestLost, NoWorker, Types, Activities
<1>5. CASE Answered(o)
  <2>1. Perform(o, step[o]) /\ Proceed(o, step[o])
    BY <1>5 DEF Answered
  <2> QED  BY <1>1, <1>4, <2>1, Writing, GoesOn DEF Moved
<1>6. CASE Refused(o)
  <2>1. UNCHANGED <<status, license>> /\ Refuses(o, step[o])
    BY <1>6 DEF Refused, NothingDone
  <2>2. CASE step[o] \in Forward /\ FailOrder(o)
    BY <1>4, <2>1, <2>2, GivesUp DEF Moved
  <2>3. CASE step[o] \in Compensations /\ Goto(o, "broken")
    <3>1. step[o] = "ReleaseFunds"
      BY <2>1, <2>3 DEF Refuses, Compensations
    <3>2. step' = [step EXCEPT ![o] = "broken"]
      BY <2>3 DEF Goto
    <3> QED  BY <1>4, <2>1, <3>1, <3>2 DEF Moved
  <2> QED  BY <1>6, <2>2, <2>3 DEF Refused
<1>7. ASSUME Retry(o) \/ (step[o] \in Critical /\ UNCHANGED <<step, undo, attempts>>)
      PROVE  UNCHANGED step \/ (step[o] \in Forward /\ step' = [step EXCEPT ![o] = GivenUp(@)])
  BY <1>7, GivesUp DEF Retry
<1>8. CASE AnswerLost(o)
  <2>1. /\ Perform(o, step[o])
        /\ Retry(o) \/ (step[o] \in Critical /\ UNCHANGED <<step, undo, attempts>>)
    BY <1>8 DEF AnswerLost
  <2> QED  BY <1>1, <1>4, <1>7, <2>1, Writing DEF Moved
<1>9. CASE RequestLost(o)
  <2>1. /\ UNCHANGED <<status, license>>
        /\ Retry(o) \/ (step[o] \in Critical /\ UNCHANGED <<step, undo, attempts>>)
    BY <1>9 DEF RequestLost, NothingDone
  <2> QED  BY <1>4, <1>7, <2>1 DEF Moved
<1>10. CASE NoWorker(o)
  <2>1. UNCHANGED <<status, license>> /\ step[o] \in Forward /\ FailOrder(o)
    BY <1>10 DEF NoWorker, NothingDone
  <2> QED  BY <1>4, <2>1, GivesUp DEF Moved
<1> QED  BY <1>2, <1>3, <1>5, <1>6, <1>8, <1>9, <1>10

\* The licence and the status keep up with the activity, and the status only advances.
LEMMA MovesInTime ==
    ASSUME Types, NEW o \in Orders, step[o] \in Activities, InTime(o), Moved(o)
    PROVE  /\ InTime(o)'
           /\ status'[o] # status[o] => Rank[status[o]] < Rank[status'[o]]
<1> DEFINE s == status[o]  l == license[o]
<1>1. /\ s \in {"pending", "funds_reserved", "license_granted", "compensating", "completed", "failed"}
      /\ l \in {"absent", "granted", "revoked"}
      /\ s \in StatusAt(step[o])
      /\ step[o] \in Unlicensed => l # "granted"
  BY DEF Types, InTime
<1>2. Written(step[o], s) # s => Rank[s] < Rank[Written(step[o], s)]
  BY <1>1 DEF Written, StatusAt, Rank, Activities, Forward, Critical, Compensations
<1>3. status'[o] \in {s, Written(step[o], s)} /\ license'[o] \in {l, Licensed(step[o], l)}
  BY DEF Types, Moved
<1> SUFFICES InTime(o)'
  BY <1>2, <1>3
<1>4. CASE /\ status'[o] = Written(step[o], s) /\ license'[o] = Licensed(step[o], l)
           /\ step'[o] = After(step[o])
  <2>1. Written(step[o], s) \in StatusAt(After(step[o]))
    BY <1>1 DEF Written, StatusAt, After, NextForward, Activities, Forward, Critical, Compensations
  <2>2. After(step[o]) \in Unlicensed => Licensed(step[o], l) # "granted"
    BY <1>1 DEF Licensed, Unlicensed, After, NextForward, Activities, Forward, Critical, Compensations
  <2>3. status'[o] \in StatusAt(step'[o])
    BY <1>4, <2>1
  <2>4. step'[o] \in Unlicensed => license'[o] # "granted"
    BY <1>4, <2>2
  <2> QED  BY <2>3, <2>4 DEF InTime
<1>5. CASE step'[o] = step[o]
  <2>1. Written(step[o], s) \in StatusAt(step[o])
    BY <1>1 DEF Written, StatusAt, Activities, Forward, Critical, Compensations
  <2>2. step[o] \in Unlicensed => Licensed(step[o], l) # "granted"
    BY <1>1 DEF Licensed, Unlicensed, Activities, Forward, Critical, Compensations
  <2>3. status'[o] \in StatusAt(step'[o])
    BY <1>1, <1>3, <1>5, <2>1
  <2>4. step'[o] \in Unlicensed => license'[o] # "granted"
    BY <1>1, <1>3, <1>5, <2>2
  <2> QED  BY <2>3, <2>4 DEF InTime
<1>6. CASE step[o] \in Forward /\ step'[o] = GivenUp(step[o])
  <2>1. Written(step[o], s) = s /\ s \in StatusAt(GivenUp(step[o]))
    BY <1>1, <1>6 DEF Written, StatusAt, GivenUp, Forward
  <2>2. GivenUp(step[o]) \in Unlicensed => step[o] = "ReserveFunds" /\ Licensed(step[o], l) = l /\ l # "granted"
    BY <1>1, <1>6 DEF Licensed, Unlicensed, GivenUp, Forward
  <2> QED  BY <1>3, <1>6, <2>1, <2>2 DEF InTime
<1>7. CASE step[o] = "ReleaseFunds" /\ step'[o] = "broken" /\ status'[o] = s /\ license'[o] = l
  BY <1>1, <1>7 DEF InTime, StatusAt, Unlicensed
<1> QED  BY <1>4, <1>5, <1>6, <1>7 DEF Moved, Types

\* The orders the step is not about are left alone.
LEMMA OthersInTime ==
    ASSUME Types, NEW o \in Orders, Moved(o), NEW p \in Orders \ {o}
    PROVE  status'[p] = status[p] /\ license'[p] = license[p] /\ step'[p] = step[p]
BY DEF Moved, Types

\* Before anything ran, nothing is late.
LEMMA InTimeFromTheStart == InTimeInit => InTimeInv
<1> SUFFICES ASSUME InTimeInit PROVE late = {} /\ \A o \in Orders : InTime(o)
  BY DEF InTimeInv
<1> QED  BY DEF InTimeInit, Init, InTime, StatusAt, Unlicensed

\* A punctual step keeps the promise and advances the statuses.
LEMMA InTimeStep ==
    ASSUME IInv, InTimeInv, [InTimeNext]_<<vars, punctual>>
    PROVE  InTimeInv' /\ [punctual => Advances]_vars
<1>1. CASE UNCHANGED <<vars, punctual>>
  BY <1>1 DEF vars, InTimeInv, InTime
<1>2. CASE InTimeNext /\ ~punctual
  BY <1>2 DEF InTimeNext, InTimeInv
<1>3. CASE InTimeNext /\ punctual
  <2>1. Types /\ late = {} /\ late' = {} /\ \A p \in Orders : InTime(p)
    BY <1>3 DEF InTimeNext, InTimeInv, IInv
  <2>2. PICK o \in Orders : step[o] \in Activities /\ Moved(o)
    BY <1>3, <2>1, Punctual DEF InTimeNext
  <2>3. /\ InTime(o)'
        /\ status'[o] # status[o] => Rank[status[o]] < Rank[status'[o]]
    BY <2>1, <2>2, MovesInTime
  <2>4. ASSUME NEW p \in Orders PROVE InTime(p)'
    BY <2>1, <2>2, <2>3, OthersInTime DEF InTime
  <2>5. Advances
    BY <2>1, <2>2, <2>3, OthersInTime DEF Advances
  <2> QED  BY <2>1, <2>4, <2>5 DEF InTimeInv
<1> QED  BY <1>1, <1>2, <1>3

\* Punctual or not, it is the saga.
LEMMA InTimeIsTheSaga == InTimeSpec => Spec
<1>1. InTimeInit => Init
  BY DEF InTimeInit
<1>2. [InTimeNext]_<<vars, punctual>> => [Next]_vars
  BY DEF InTimeNext, vars
<1> QED  BY <1>1, <1>2, PTL DEF InTimeSpec, Spec

\* While no request outlives its attempt, the licence and the status of every order
\* fit the activity its workflow waits for.
THEOREM InTimeInvariant == InTimeSpec => []InTimeInv
<1>1. IInv /\ InTimeInv /\ [InTimeNext]_<<vars, punctual>> => InTimeInv'
  BY InTimeStep
<1> QED  BY <1>1, InTimeFromTheStart, InTimeIsTheSaga, SagaInvariant, PTL DEF InTimeSpec

\* Then nobody keeps a licence for an order that was not paid.
THEOREM NoUnpaidLicense == InTimeSpec => []LicenseIsPaidInTime
<1>1. IInv /\ InTimeInv => LicenseIsPaidInTime
  <2> SUFFICES ASSUME IInv, InTimeInv, punctual, NEW o \in Orders,
                      step[o] \in Ended, license[o] = "granted"
               PROVE  hold[o].status = "committed"
    BY DEF LicenseIsPaidInTime, LicenseIsPaid
  <2>1. step[o] = "completed"
    BY DEF InTimeInv, InTime, Ended, Unlicensed
  <2> QED  BY <2>1 DEF IInv, OrderInv, Confirming
<1> QED  BY <1>1, InTimeInvariant, InTimeIsTheSaga, SagaInvariant, PTL

\* And the status an order shows is how its saga ended.
THEOREM TheEndIsTold == InTimeSpec => []EndIsReportedInTime
<1>1. IInv /\ InTimeInv => EndIsReportedInTime
  <2> SUFFICES ASSUME IInv, InTimeInv, punctual, NEW o \in Orders
               PROVE  /\ step[o] = "completed" => status[o] = "completed"
                      /\ status[o] = "completed" => step[o] \in {"ConfirmOrder", "completed"}
                      /\ step[o] = "failed" => status[o] = "failed"
                      /\ status[o] = "failed" => step[o] \in {"FailOrder", "failed"}
                      /\ step[o] = "broken" => status[o] = "compensating"
    BY DEF EndIsReportedInTime, EndIsReported
  <2>1. status[o] \in StatusAt(step[o]) /\ step[o] \in Activities \cup Ended
    BY DEF InTimeInv, InTime, IInv, Types
  <2> QED
    BY <2>1 DEF StatusAt, Activities, Forward, Critical, Compensations, Ended
<1> QED  BY <1>1, InTimeInvariant, InTimeIsTheSaga, SagaInvariant, PTL

\* And that status never went back, whatever was attempted again.
THEOREM StatusNeverGoesBack == InTimeSpec => StatusAdvancesInTime
<1>1. IInv /\ InTimeInv /\ [InTimeNext]_<<vars, punctual>> => [punctual => Advances]_vars
  BY InTimeStep
<1> QED
  BY <1>1, InTimeInvariant, InTimeIsTheSaga, SagaInvariant, PTL
  DEF InTimeSpec, StatusAdvancesInTime
=============================================================================
