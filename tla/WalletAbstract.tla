--------------------------- MODULE WalletAbstract ---------------------------
(***************************************************************************)
(* What the wallet promises, with every operation in one step: money that  *)
(* is available can be held under a key once, and held money is either     *)
(* paid to an account or given back, once.                                 *)
(***************************************************************************)
EXTENDS Integers, FiniteSets, Sums

CONSTANTS Calls, Accounts, Keys, Opening

VARIABLES balance, \* money on each account, held money included
          hold     \* the holds, by name

absVars == <<balance, hold>>

NoHold == [status |-> "absent"]

OpenOn(a) == {r \in Calls : hold[r].status = "active" /\ hold[r].account = a}

Available(a) ==
    balance[a] - SumOf([r \in OpenOn(a) |-> hold[r].amount], OpenOn(a))

Hold(r, a, n, k) ==
    /\ hold[r] = NoHold
    /\ \A s \in Calls : hold[s] # NoHold => hold[s].key # k
    /\ Available(a) >= n
    /\ hold' = [hold EXCEPT ![r] =
          [status |-> "active", account |-> a, amount |-> n, key |-> k]]
    /\ UNCHANGED balance

Pay(r, payee) ==
    /\ hold[r].status = "active"
    /\ hold' = [hold EXCEPT ![r].status = "committed"]
    /\ balance' = [a \in Accounts |->
          balance[a] + (IF a = payee THEN hold[r].amount ELSE 0)
                     - (IF a = hold[r].account THEN hold[r].amount ELSE 0)]

GiveBack(r) ==
    /\ hold[r].status = "active"
    /\ hold' = [hold EXCEPT ![r].status = "released"]
    /\ UNCHANGED balance

AbsInit == balance = Opening /\ hold = [r \in Calls |-> NoHold]

\* n ranges over what the account could hold at all. Every operation changes
\* its hold: TLC need not add anything up for a step that changes none.
AbsNext == \E r \in Calls :
    /\ hold'[r] # hold[r]
    /\ \E a \in Accounts :
          \/ Pay(r, a)
          \/ GiveBack(r)
          \/ \E n \in 1 .. Available(a), k \in Keys : Hold(r, a, n, k)

AbsSpec == AbsInit /\ [][AbsNext]_absVars
=============================================================================
