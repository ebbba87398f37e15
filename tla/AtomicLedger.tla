------------------------------ MODULE AtomicLedger ------------------------------
(***************************************************************************)
(* What a ledger promises to the code that posts to it: journals come one  *)
(* after the other.  Each is posted whole and once, on the balances that   *)
(* the journals before it left, sums to zero and overdraws no customer;    *)
(* nothing of a journal is seen before it is posted, and nothing is taken  *)
(* back.  Ledger, where transactions meet statement by statement, is shown *)
(* to implement this.                                                      *)
(***************************************************************************)
EXTENDS Integers, FiniteSets, Sums

CONSTANTS
    Accounts,
    Owned,       \* the accounts of customers
    Journals     \* what is posted: [reference, change], change[k] for some accounts k

VARIABLES
    balance,
    entries      \* [reference, key, amount]

atomicVars == <<balance, entries>>

AtomicInit == balance = [k \in Accounts |-> 0] /\ entries = {}

PostJournal(j) ==
    LET keys == DOMAIN j.change IN
    /\ \A e \in entries : e.reference # j.reference
    /\ balance' = [k \in Accounts |-> IF k \in keys THEN balance[k] + j.change[k] ELSE balance[k]]
    /\ Net(j.change, keys) = 0
    /\ \A k \in Owned \cap keys : balance'[k] >= 0
    /\ entries' = entries \cup
         {[reference |-> j.reference, key |-> k, amount |-> j.change[k]] : k \in keys}

AtomicNext == \E j \in Journals : PostJournal(j)

AtomicSpec == AtomicInit /\ [][AtomicNext]_atomicVars
===============================================================================
