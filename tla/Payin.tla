--------------------------------- MODULE Payin ---------------------------------
(***************************************************************************)
(* What Bonde promises about deposits, and nothing about webhooks, inbox   *)
(* rows, leases and runs.                                                  *)
(*                                                                         *)
(* A transfer that the bank completed is credited once, and its money then *)
(* goes to the treasury in at most one transfer.  What is told of that is  *)
(* true when it is told, and after a refusal nothing is sent any more.     *)
(* Deposits is shown to implement this.                                    *)
(***************************************************************************)
EXTENDS Integers

CONSTANTS
    Transfers,
    Credited    \* what the customer gets of a transfer

VARIABLES
    inward,     \* inward[d]: the transfer to the customer at the bank
    wallet,
    credited,   \* the transfers in the wallet
    moved,      \* moved[d]: the transfer of d's money to the treasury
    told        \* told[d]: "none", "open" once it is credited, or how the move ended

payinVars == <<inward, wallet, credited, moved, told>>

PayinInit ==
    /\ inward = [d \in Transfers |-> "none"] /\ wallet = 0 /\ credited = {}
    /\ moved = [d \in Transfers |-> "none"] /\ told = [d \in Transfers |-> "none"]

\* How the bank's transfers go on.
Course == {<<"Pending", "Completed">>, <<"Pending", "Failed">>, <<"Completed", "Reversed">>}

Arrives(d) ==
    /\ \E s \in {"Pending", "Completed", "Failed", "Reversed"} :
         /\ <<inward[d], s>> \in Course \cup {<<"none", "Pending">>}
         /\ inward' = [inward EXCEPT ![d] = s]
    /\ UNCHANGED <<wallet, credited, moved, told>>

CreditOnce(d) ==
    /\ d \notin credited /\ inward[d] \in {"Completed", "Reversed"}
    /\ credited' = credited \cup {d} /\ wallet' = wallet + Credited
    /\ told' = [told EXCEPT ![d] = "open"]
    /\ UNCHANGED <<inward, moved>>

Move(d) ==
    /\ told[d] = "open" /\ moved[d] = "none" /\ moved' = [moved EXCEPT ![d] = "Pending"]
    /\ UNCHANGED <<inward, wallet, credited, told>>

GoesOn(d) ==
    /\ \E s \in {"Completed", "Failed", "Reversed"} :
         <<moved[d], s>> \in Course /\ moved' = [moved EXCEPT ![d] = s]
    /\ UNCHANGED <<inward, wallet, credited, told>>

\* A late answer may be told, as long as it was true.
TruthOf(state) ==
    CASE state = "none" -> {"FAILED"} [] state = "Failed" -> {"open", "FAILED"}
      [] state = "Completed" -> {"open", "SUCCEEDED"}
      [] state = "Reversed" -> {"open", "SUCCEEDED", "REVERSED"} [] OTHER -> {"open"}

Tell(d) ==
    /\ told[d] # "none"
    /\ \E s \in TruthOf(moved[d]) : told' = [told EXCEPT ![d] = s]
    /\ UNCHANGED <<inward, wallet, credited, moved>>

PayinNext == \E d \in Transfers : Arrives(d) \/ CreditOnce(d) \/ Move(d) \/ GoesOn(d) \/ Tell(d)

PayinSpec == PayinInit /\ [][PayinNext]_payinVars
================================================================================
