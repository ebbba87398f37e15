-------------------------------- MODULE Payout --------------------------------
(***************************************************************************)
(* What Bonde promises about a bank withdrawal, and nothing about how the  *)
(* worker and the webhook inbox achieve it.                                *)
(*                                                                         *)
(* For each withdrawal there are two views of the same money: `money`, how *)
(* the customer ledger accounts for it, and `bank`, what really happened   *)
(* at Safe Haven.  The promise is that the ledger never runs ahead of the  *)
(* bank: the reservation is given back only when the transfer can no       *)
(* longer happen, it is booked as paid only when the transfer did happen,  *)
(* and the principal is credited again only when the bank took it back.    *)
(* Withdrawals.tla is shown to implement this specification.               *)
(***************************************************************************)
CONSTANT Ops        \* the withdrawals

VARIABLES
    money,          \* money[o]: where the ledger holds the amount of o
    bank            \* bank[o]: what the bank did with the transfer of o

payoutVars == <<money, bank>>

Phases == {"none", "reserved", "released", "paid", "returned"}
Facts  == {"open", "dead", "moved", "reversed"}

PayoutTypeOK == /\ money \in [Ops -> Phases]
                /\ bank \in [Ops -> Facts]

PayoutInit == /\ money = [o \in Ops |-> "none"]
              /\ bank = [o \in Ops |-> "open"]

\* The customer's amount and fee move from the wallet to a hold.
Reserve(o) == /\ money[o] = "none"
              /\ money' = [money EXCEPT ![o] = "reserved"]
              /\ UNCHANGED bank

\* The bank settles, refuses or reverses on its own; only reserved money is
\* ever transferred.
Move(o) == /\ bank[o] = "open" /\ money[o] = "reserved"
           /\ bank' = [bank EXCEPT ![o] = "moved"]
           /\ UNCHANGED money

Die(o) == /\ bank[o] = "open"
          /\ bank' = [bank EXCEPT ![o] = "dead"]
          /\ UNCHANGED money

Reverse(o) == /\ bank[o] = "moved"
              /\ bank' = [bank EXCEPT ![o] = "reversed"]
              /\ UNCHANGED money

\* The reservation goes back to the wallet; from then on the transfer is dead.
Release(o) == /\ money[o] = "reserved" /\ bank[o] \in {"open", "dead"}
              /\ money' = [money EXCEPT ![o] = "released"]
              /\ bank' = [bank EXCEPT ![o] = "dead"]

\* The hold is consumed by the payout journal.
Pay(o) == /\ money[o] = "reserved" /\ bank[o] \in {"moved", "reversed"}
          /\ money' = [money EXCEPT ![o] = "paid"]
          /\ UNCHANGED bank

\* The principal of a reversed transfer is credited to the wallet.
Return(o) == /\ money[o] = "paid" /\ bank[o] = "reversed"
             /\ money' = [money EXCEPT ![o] = "returned"]
             /\ UNCHANGED bank

PayoutNext == \E o \in Ops :
    \/ Reserve(o) \/ Move(o) \/ Die(o) \/ Reverse(o)
    \/ Release(o) \/ Pay(o) \/ Return(o)

PayoutSpec == PayoutInit /\ [][PayoutNext]_payoutVars
===============================================================================
