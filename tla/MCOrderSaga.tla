---------------------------- MODULE MCOrderSaga ----------------------------
(* Two orders of one buyer with money for one of them; the author of the last *)
(* has no account. In some behaviours no request outlives its attempt.        *)
EXTENDS SagaInTime, TLC

TwoAccounts == {1, 2}
MoneyForOne == [a \in TwoAccounts |-> IF a = 1 THEN 3 ELSE 0]
SameBuyer == [o \in Orders |-> 1]
Price == [o \in Orders |-> 2]
AuthorWithAccount == [o \in Orders |-> 2]
\* Orders are 1 .. n.
LastAuthorUnknown == [o \in Orders |-> IF \A p \in Orders : p <= o THEN 9 ELSE 2]
=============================================================================
