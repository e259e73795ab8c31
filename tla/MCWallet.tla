------------------------------ MODULE MCWallet ------------------------------
(* Small instances of Wallet: what may be asked, by whom, of which account. *)
EXTENDS WalletProperties, TLC

CONSTANTS k1, k2

Symmetry == Permutations(Calls)

Reserve(a, n, k, currency) ==
    [kind |-> "reserve", key |-> k, account |-> a, amount |-> n,
     currency |-> currency, reservation |-> NoCall]
Commit(r, a, k) ==
    [kind |-> "commit", key |-> k, account |-> a, amount |-> 0,
     currency |-> "", reservation |-> r]
Release(r, k) ==
    [kind |-> "release", key |-> k, account |-> 0, amount |-> 0,
     currency |-> "", reservation |-> r]
GetBalance(a) == [NoRequest EXCEPT !.account = a]

TwoAccounts == {1, 2}
AllRoubles == [a \in TwoAccounts |-> "RUB"]
MoneyOfTwo == [a \in TwoAccounts |-> IF a = 1 THEN 3 ELSE 1]

\* One buyer, two orders it cannot both pay, every call perhaps a retry; a currency
\* the buyer does not have.
OneBuyer ==
    {Reserve(1, 2, k, "RUB") : k \in {k1, k2}}
    \cup {Reserve(1, 1, k2, "USD")}
    \cup {Commit(r, 2, k1) : r \in Calls}
    \cup {Release(r, k1) : r \in Calls}

\* A key that names two accounts; each account pays the other, or itself.
CrossPayments ==
    {Reserve(1, 1, k1, "RUB"), Reserve(2, 1, k1, "RUB"), Reserve(2, 1, k2, "RUB")}
    \cup {Commit(r, 1, k1) : r \in Calls}
    \cup {Commit(r, 2, k2) : r \in Calls}

\* Either story, with no call of the other in it.
EitherStory == OneBuyer \cup CrossPayments
InOneStory ==
    \E story \in {OneBuyer, CrossPayments} :
        \A c \in Calls : request[c] \in story \cup {NoRequest}
StorySpec == Init /\ [][Next /\ InOneStory']_vars

\* A retried order: reserve, and a commit racing a release; and what is refused:
\* account 3 is in dollars, 9 does not exist.
ThreeAccounts == {1, 2, 3}
TwoCurrencies == [a \in ThreeAccounts |-> IF a = 3 THEN "USD" ELSE "RUB"]
MoneyOfThree == [a \in ThreeAccounts |-> 1]
OneOrder ==
    {Reserve(1, 1, k1, "RUB"), Reserve(1, 0, k1, "RUB"), GetBalance(1), GetBalance(9)}
    \cup {Commit(r, a, k1) : r \in Calls, a \in {2, 3, 9}}
    \cup {Release(r, k1) : r \in Calls}
=============================================================================
