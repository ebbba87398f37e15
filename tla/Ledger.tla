---------------------------------- MODULE Ledger ----------------------------------
(***************************************************************************)
(* LedgerService.post under PostgreSQL: transactions of several customers  *)
(* insert a journal and then, account by account, change a balance and add *)
(* an entry.  The row of an account stays locked until its transaction     *)
(* ends and the others wait; a transaction can be rolled back at any step. *)
(* The amounts of a journal are of one currency, as with every caller.     *)
(***************************************************************************)
EXTENDS Integers, FiniteSets, Sequences, Sums

CONSTANTS
    Posters,       \* transactions, each of which posts one journal
    AccountKeys,   \* the keys in the order of localeCompare, a sequence
    OwnedKeys,     \* the keys that belong to a customer
    ReferenceOf,   \* ReferenceOf[p]: the reference p posts under
    CustomerOf,    \* CustomerOf[p]: the customer whose profile p locks first
    LinesOf        \* LinesOf[p]: the postings p calls with, a sequence

PostedKeys == {AccountKeys[i] : i \in DOMAIN AccountKeys}
References == {ReferenceOf[p] : p \in Posters}

ASSUME LedgerAssumption ==
    /\ \A i, j \in DOMAIN AccountKeys : AccountKeys[i] = AccountKeys[j] => i = j
    /\ OwnedKeys \subseteq PostedKeys
    /\ \A p \in Posters : LinesOf[p] \in Seq([key : PostedKeys, amount : Int])

VARIABLES
    balance,   \* balance[k]: the committed balance
    entries,   \* the committed entries
    poster,    \* poster[p]: where the transaction is
    written    \* written[p]: the rows p has changed and holds, with their new balance

ledgerVars == <<balance, entries, poster, written>>

LedgerTypeOK ==
    /\ balance \in [PostedKeys -> Int]
    /\ \A e \in entries : e \in [reference : References, key : PostedKeys, amount : Int]
    /\ poster \in [Posters -> {"idle", "journal", "lines", "ended"}]
    /\ \A p \in Posters : DOMAIN written[p] \subseteq PostedKeys

LedgerInit ==
    /\ balance = [k \in PostedKeys |-> 0] /\ entries = {}
    /\ poster = [p \in Posters |-> "idle"] /\ written = [p \in Posters |-> <<>>]

(***************************************************************************)
(* What post works out before it writes.                                   *)
(***************************************************************************)
Amounts(p) == [i \in DOMAIN LinesOf[p] |-> LinesOf[p][i].amount]
KeysOf(p)  == {LinesOf[p][i].key : i \in DOMAIN LinesOf[p]}

\* One line per account.
Merged(p) ==
    [k \in KeysOf(p) |-> Net(Amounts(p), {i \in DOMAIN LinesOf[p] : LinesOf[p][i].key = k})]

Balanced(amounts) == Cardinality(DOMAIN amounts) >= 2 /\ Net(amounts, DOMAIN amounts) = 0

(***************************************************************************)
(* The steps of a transaction.                                             *)
(***************************************************************************)
\* Mutant: the new balance is worked out from what was read, without the row.
RowRead(k) == TRUE
\* The row's lock, which its last writer gives back when it ends.
RowFree(k) == \A q \in Posters : k \notin DOMAIN written[q]

LockOwner(p) ==
    /\ poster[p] = "idle"
    /\ \A q \in Posters : CustomerOf[q] = CustomerOf[p] => poster[q] \in {"idle", "ended"}
    /\ poster' = [poster EXCEPT ![p] = "journal"]
    /\ UNCHANGED <<balance, entries, written>>

\* References are unique: one of a transaction that has not ended is waited for.
InsertJournal(p) ==
    /\ poster[p] = "journal" /\ Balanced(Amounts(p))
    /\ \A e \in entries : e.reference # ReferenceOf[p]
    /\ \A q \in Posters : poster[q] = "lines" => ReferenceOf[q] # ReferenceOf[p]
    /\ poster' = [poster EXCEPT ![p] = "lines"]
    /\ UNCHANGED <<balance, entries, written>>

\* The lines are written in the order of their keys.
Left(p) == {i \in DOMAIN AccountKeys : AccountKeys[i] \in KeysOf(p) \ DOMAIN written[p]}

\* Mutant: the balance is looked at without what is taken from it.
CoversBefore(k, amount) == k \in OwnedKeys => balance[k] >= 0
\* The update asks for the balance it takes from, once it has the row.
Covers(k, amount) == k \in OwnedKeys => balance[k] + amount >= 0

WriteLine(p) ==
    /\ poster[p] = "lines"
    /\ \E i \in Left(p) :
         LET key == AccountKeys[i] IN
         /\ \A j \in Left(p) : i <= j
         /\ RowFree(key) /\ Covers(key, Merged(p)[key])
         /\ written' = [written EXCEPT ![p] =
              [k \in DOMAIN @ \cup {key} |-> IF k = key THEN balance[k] + Merged(p)[k] ELSE @[k]]]
    /\ UNCHANGED <<balance, entries, poster>>

EntriesOf(p) ==
    {[reference |-> ReferenceOf[p], key |-> k, amount |-> Merged(p)[k]] : k \in KeysOf(p)}

\* The deferred trigger looks at the journal once more.
Commit(p) ==
    /\ poster[p] = "lines" /\ Left(p) = {} /\ Balanced(Merged(p))
    /\ balance' = [k \in PostedKeys |-> IF k \in DOMAIN written[p] THEN written[p][k] ELSE balance[k]]
    /\ entries' = entries \cup EntriesOf(p)
    /\ written' = [written EXCEPT ![p] = <<>>]
    /\ poster' = [poster EXCEPT ![p] = "ended"]

\* A debit that is not covered, a taken reference, a timeout, a lost connection; the caller
\* may come again.
Rollback(p) ==
    /\ poster[p] \in {"journal", "lines"}
    /\ poster' = [poster EXCEPT ![p] = "idle"]
    /\ written' = [written EXCEPT ![p] = <<>>]
    /\ UNCHANGED <<balance, entries>>

LedgerNext == \E p \in Posters : \/ LockOwner(p) \/ InsertJournal(p) \/ WriteLine(p)
                                 \/ Commit(p) \/ Rollback(p)

LedgerSpec == LedgerInit /\ [][LedgerNext]_ledgerVars

(***************************************************************************)
(* Properties.                                                             *)
(***************************************************************************)
Booked(S) == Net([e \in S |-> e.amount], S)

\* "Journals and cached account balances commit together" (ledger.service.ts:17): though
\* transactions of different customers meet on the system's accounts and are rolled back
\* and repeated, every cached balance is the sum of its committed entries, every journal
\* sums to zero, and no customer's account is overdrawn.
BalancesAreEntries ==
    /\ \A k \in PostedKeys : balance[k] = Booked({e \in entries : e.key = k})
    /\ \A r \in References : Booked({e \in entries : e.reference = r}) = 0
    /\ \A k \in OwnedKeys : balance[k] >= 0

\* What is committed, and nothing else, is the ledger its callers see.
Posted == {[reference |-> ReferenceOf[p], change |-> Merged(p)] : p \in Posters}
Atomic == INSTANCE AtomicLedger WITH
            Accounts <- PostedKeys, Owned <- OwnedKeys, Journals <- Posted

\* post is atomic to its callers: a transaction that commits has the effect of one whole posting
\* on the balances committed before it, whatever the others do between its statements, and one
\* that is rolled back has none (the row locks, the unique reference, the guarded update).
ImplementsAtomicLedger == Atomic!AtomicSpec
===============================================================================
