------------------------------ MODULE Withdrawals ------------------------------
(***************************************************************************)
(* A bank withdrawal from the customer's command to its final outcome:     *)
(* FinanceService.execute reserves the money, FinanceWorker claims the     *)
(* operation and sends one transfer to Safe Haven, and the outcome comes   *)
(* back on three independent paths: the response of the POST, the          *)
(* reconciliation that queries the transfer, and the webhook inbox.        *)
(*                                                                         *)
(* A member of Procs is one run of that code: the scheduled job, an admin  *)
(* reconcile request, or the request that executed the command and calls   *)
(* worker.process inline.  Each await between two database writes is a     *)
(* step boundary; what a process read before an await is kept in proc[p].  *)
(* A database transaction is one step.  Leases are untimed: a lease may    *)
(* expire whenever the operation is PROCESSING.                            *)
(***************************************************************************)
EXTENDS Integers, Sums

CONSTANTS
    Ops,            \* withdrawal operations
    Procs,          \* concurrent runs of the worker and inbox code
    Kinds,          \* which account.debit webhooks the bank sends
    Amount,         \* Amount[o]: principal of o
    Quote,          \* the configured withdrawal fee the customer accepted
    ActualFees,     \* fees the bank may report for a completed transfer
    Deposit,        \* what the wallet holds at the start
    MaxFaults      \* bound on lost steps (crash, failed query, failed write)

ASSUME AmountAssumption == Amount \in [Ops -> Nat \ {0}] /\ IsFiniteSet(Ops)
ASSUME FeeAssumption == Quote \in Nat /\ ActualFees \subseteq Nat /\ ActualFees # {}
ASSUME BoundAssumption == Deposit \in Nat /\ MaxFaults \in Nat
ASSUME KindAssumption == Kinds \subseteq {"Processing", "Completed", "Failed", "Reversed"}

VARIABLES
    status,         \* FinanceOperation.status
    known,          \* FinanceOperation.providerReference is set
    journals,       \* journals[o]: kinds of journal booked for o
    wallet,         \* finance_accounts wallet:<user>:NGN
    hold,           \* hold[o]: finance_accounts hold:<o>:NGN
    clearing,       \* system:bank-clearing:NGN
    variance,       \* system:fee-variance:NGN
    transfer,       \* Safe Haven: state of the transfer with paymentReference o
    reversed,       \* Safe Haven: isReversed
    fee,            \* Safe Haven: fees + vat + stampDuty of the transfer
    posts,          \* how many times POST /transfers was sent for o (history)
    inbox,          \* inbox[o][k]: status of the FinanceInbox row, or "none"
    proc,           \* proc[p]: program counter and remembered reads of p
    faults          \* lost steps so far

ledgerVars == <<journals, wallet, hold, clearing, variance>>
bankVars   == <<transfer, reversed, fee, posts>>
vars == <<status, known, ledgerVars, bankVars, inbox, proc, faults>>

Statuses == {"none", "QUEUED", "PROCESSING", "UNKNOWN", "PENDING",
             "SUCCEEDED", "FAILED", "REVERSED"}
Terminal == {"SUCCEEDED", "FAILED", "REVERSED"}
JournalKinds == {"reserve", "payout", "release", "reversal"}
InboxStatuses == {"none", "RECEIVED", "RETRY", "REVIEW", "PROCESSED"}
Reports == {"Processing", "Completed", "Failed"}
Transfers == {"none", "sent", "refused"} \cup Reports

NoData == [status |-> "Processing", reversed |-> FALSE]
Snapshot(o) == [status |-> transfer[o], reversed |-> reversed[o]]

\* Where a run stands: claimed -> posting -> posted -> settle is withdraw,
\* lookup -> query -> settle is reconcile, event -> verified -> ack is bankEvent,
\* and retry is its catch.
PCs == {"idle", "claimed", "posting", "posted", "lookup", "query", "settle",
        "event", "verified", "ack", "retry"}

TypeOK ==
    /\ status \in [Ops -> Statuses]
    /\ known \in [Ops -> BOOLEAN]
    /\ journals \in [Ops -> SUBSET JournalKinds]
    /\ wallet \in Nat /\ clearing \in Int /\ variance \in Int
    /\ hold \in [Ops -> Nat]
    /\ transfer \in [Ops -> Transfers]
    /\ reversed \in [Ops -> BOOLEAN]
    /\ fee \in [Ops -> ActualFees]
    /\ posts \in [Ops -> Nat]
    /\ inbox \in [Ops -> [Kinds -> InboxStatuses]]
    /\ proc \in [Procs -> [pc : PCs, op : Ops, kind : Kinds,
                           data : [status : Reports, reversed : BOOLEAN]]]
    /\ faults \in 0..MaxFaults

Init ==
    /\ status = [o \in Ops |-> "none"]
    /\ known = [o \in Ops |-> FALSE]
    /\ journals = [o \in Ops |-> {}]
    /\ wallet = Deposit /\ clearing = 0 /\ variance = 0
    /\ hold = [o \in Ops |-> 0]
    /\ transfer = [o \in Ops |-> "none"]
    /\ reversed = [o \in Ops |-> FALSE]
    /\ fee \in [Ops -> ActualFees]
    /\ posts = [o \in Ops |-> 0]
    /\ inbox = [o \in Ops |-> [k \in Kinds |-> "none"]]
    /\ \E o \in Ops, k \in Kinds :
          proc = [p \in Procs |-> [pc |-> "idle", op |-> o, kind |-> k, data |-> NoData]]
    /\ faults = 0

(***************************************************************************)
(* The ledger.  LedgerService.post is one balanced journal with a unique   *)
(* reference; a customer account (wallet, hold) must cover its debit, a    *)
(* system account need not.  When it cannot post, the whole enclosing      *)
(* transaction rolls back.                                                 *)
(***************************************************************************)
CanPost(o, j, toWallet, toHold) ==
    /\ j \notin journals[o]
    /\ wallet + toWallet >= 0
    /\ hold[o] + toHold >= 0

Post(o, j, toWallet, toHold, toClearing, toVariance) ==
    /\ CanPost(o, j, toWallet, toHold)
    /\ journals' = [journals EXCEPT ![o] = @ \cup {j}]
    /\ wallet' = wallet + toWallet
    /\ hold' = [hold EXCEPT ![o] = @ + toHold]
    /\ clearing' = clearing + toClearing
    /\ variance' = variance + toVariance

Reserved(o) == Amount[o] + Quote

\* The customer gets back what the bank charged below the quote; what it
\* charged above is booked against Bonde.
Refunded(o) == IF fee[o] < Quote THEN Quote - fee[o] ELSE 0
\* Mutant: the fee above the quote is booked against nobody.
ExcessForgotten(o) == 0

Excess(o)   == IF fee[o] > Quote THEN Quote - fee[o] ELSE 0

PostRelease(o) == Post(o, "release", Reserved(o), -Reserved(o), 0, 0)
PostPayout(o)  == Post(o, "payout", Refunded(o), -Reserved(o),
                       Amount[o] + fee[o], Excess(o))

(***************************************************************************)
(* FinanceWorker.fail: under the owner lock, a terminal operation is left  *)
(* alone, any other one gives the reservation back.                        *)
(***************************************************************************)
FailTx(o) ==
    \/ /\ status[o] \in Terminal
       /\ UNCHANGED <<status, ledgerVars>>
    \/ /\ status[o] \notin Terminal
       /\ PostRelease(o)
       /\ status' = [status EXCEPT ![o] = "FAILED"]
    \/ /\ status[o] \notin Terminal
       /\ ~CanPost(o, "release", Reserved(o), -Reserved(o))
       /\ UNCHANGED <<status, ledgerVars>>

CompleteTx(o) ==
    \/ /\ status[o] \in Terminal
       /\ UNCHANGED <<status, ledgerVars>>
    \/ /\ status[o] \notin Terminal
       /\ PostPayout(o)
       /\ status' = [status EXCEPT ![o] = "SUCCEEDED"]
    \/ /\ status[o] \notin Terminal
       /\ ~CanPost(o, "payout", Refunded(o), -Reserved(o))
       /\ UNCHANGED <<status, ledgerVars>>

\* settleWithdrawal applies the transfer as it was read, d.
SettleTx(o, d) ==
    \/ d.status = "Failed" /\ FailTx(o)
    \/ d.status = "Completed" /\ CompleteTx(o)
    \/ d.status = "Processing" /\ UNCHANGED <<status, ledgerVars>>

\* The same call ends in an exception: the operation ended differently, or
\* the journal could not be posted.
SettleThrows(o, d) ==
    \/ /\ d.status = "Completed"
       /\ \/ status[o] \in {"FAILED", "REVERSED"}
          \/ /\ status[o] \notin Terminal
             /\ ~CanPost(o, "payout", Refunded(o), -Reserved(o))
    \/ /\ d.status = "Failed"
       /\ status[o] \notin Terminal
       /\ ~CanPost(o, "release", Reserved(o), -Reserved(o))

\* Run p goes on at pc, with what it knows of its operation.
Goto(p, pc, o, k, d) ==
    proc' = [proc EXCEPT ![p] = [pc |-> pc, op |-> o, kind |-> k, data |-> d]]
Become(p, pc)      == Goto(p, pc, proc[p].op, proc[p].kind, proc[p].data)
Begin(p, pc, o)    == Goto(p, pc, o, proc[p].kind, proc[p].data)
Remember(p, pc, d) == Goto(p, pc, proc[p].op, proc[p].kind, d)
At(p, pc) == proc[p].pc = pc

(***************************************************************************)
(* The customer's command.                                                 *)
(***************************************************************************)
Execute(o) ==
    /\ status[o] = "none"
    /\ Post(o, "reserve", -Reserved(o), Reserved(o), 0, 0)
    /\ status' = [status EXCEPT ![o] = "QUEUED"]
    /\ UNCHANGED <<known, bankVars, inbox, proc, faults>>

(***************************************************************************)
(* FinanceWorker.process and withdraw.                                     *)
(***************************************************************************)
\* Mutant: an uncertain operation is simply tried again.
ClaimAgain(p, o) ==
    /\ At(p, "idle") /\ status[o] \in {"QUEUED", "UNKNOWN"}
    /\ status' = [status EXCEPT ![o] = "PROCESSING"]
    /\ Begin(p, "claimed", o)
    /\ UNCHANGED <<known, ledgerVars, bankVars, inbox, faults>>

\* The conditional update that gives one process the operation.
Claim(p, o) ==
    /\ At(p, "idle") /\ status[o] = "QUEUED"
    /\ status' = [status EXCEPT ![o] = "PROCESSING"]
    /\ Begin(p, "claimed", o)
    /\ UNCHANGED <<known, ledgerVars, bankVars, inbox, faults>>

\* The name enquiry fails or names another account: nothing was sent.
RejectRecipient(p) ==
    /\ At(p, "claimed")
    /\ FailTx(proc[p].op)
    /\ Become(p, "idle")
    /\ UNCHANGED <<known, bankVars, inbox, faults>>

SendTransfer(p) ==
    LET o == proc[p].op IN
    /\ At(p, "claimed")
    /\ posts' = [posts EXCEPT ![o] = @ + 1]
    /\ transfer' = [transfer EXCEPT ![o] = "sent"]
    /\ Become(p, "posting")
    /\ UNCHANGED <<status, known, ledgerVars, reversed, fee, inbox, faults>>

Respond(p) ==
    LET o == proc[p].op IN
    /\ At(p, "posting") /\ transfer[o] \in Reports
    /\ Remember(p, "posted", Snapshot(o))
    /\ UNCHANGED <<status, known, ledgerVars, bankVars, inbox, faults>>

\* A definitive 4xx answer: process calls fail.
Refused(p) ==
    LET o == proc[p].op IN
    /\ At(p, "posting") /\ transfer[o] = "refused"
    /\ FailTx(o)
    /\ Become(p, "idle")
    /\ UNCHANGED <<known, bankVars, inbox, faults>>

\* Timeout or any other error while the operation is being processed.
Uncertain(p) ==
    LET o == proc[p].op IN
    /\ proc[p].pc \in {"claimed", "posting", "posted"}
    /\ faults < MaxFaults /\ faults' = faults + 1
    /\ status' = [status EXCEPT ![o] = IF @ = "PROCESSING" THEN "UNKNOWN" ELSE @]
    /\ Become(p, "idle")
    /\ UNCHANGED <<known, ledgerVars, bankVars, inbox>>

\* The reference is stored and the status set to PENDING, whatever it is now.
RecordReference(p) ==
    LET o == proc[p].op IN
    /\ At(p, "posted")
    /\ known' = [known EXCEPT ![o] = TRUE]
    /\ status' = [status EXCEPT ![o] = "PENDING"]
    /\ Become(p, "settle")
    /\ UNCHANGED <<ledgerVars, bankVars, inbox, faults>>

Settle(p) ==
    /\ At(p, "settle")
    /\ SettleTx(proc[p].op, proc[p].data)
    /\ Become(p, "idle")
    /\ UNCHANGED <<known, bankVars, inbox, faults>>

(***************************************************************************)
(* FinanceWorker.run and reconcile.                                        *)
(***************************************************************************)
\* Mutant: only an operation with a reference is given up.
ExpireKnownLease(o) ==
    /\ status[o] = "PROCESSING" /\ known[o]
    /\ status' = [status EXCEPT ![o] = "UNKNOWN"]
    /\ UNCHANGED <<known, ledgerVars, bankVars, inbox, proc, faults>>

ExpireLease(o) ==
    /\ status[o] = "PROCESSING"
    /\ status' = [status EXCEPT ![o] = "UNKNOWN"]
    /\ UNCHANGED <<known, ledgerVars, bankVars, inbox, proc, faults>>

\* Mutant: an operation the bank accepted is not looked at any more.
PickUnknown(p, o) ==
    /\ At(p, "idle") /\ status[o] = "UNKNOWN"
    /\ Begin(p, IF known[o] THEN "query" ELSE "lookup", o)
    /\ UNCHANGED <<status, known, ledgerVars, bankVars, inbox, faults>>

\* o is on the list of uncertain operations; its status is not read again.
PickUncertain(p, o) ==
    /\ At(p, "idle") /\ status[o] \in {"UNKNOWN", "PENDING"}
    /\ Begin(p, IF known[o] THEN "query" ELSE "lookup", o)
    /\ UNCHANGED <<status, known, ledgerVars, bankVars, inbox, faults>>

\* Without a reference the transfer is looked up by its paymentReference.
Discover(p) ==
    LET o == proc[p].op
        found == transfer[o] \in Reports
    IN
    /\ At(p, "lookup")
    /\ known' = [known EXCEPT ![o] = @ \/ found]
    /\ Become(p, IF found THEN "query" ELSE "idle")
    /\ UNCHANGED <<status, ledgerVars, bankVars, inbox, faults>>

QueryTransfer(p) ==
    LET o == proc[p].op IN
    /\ At(p, "query") /\ transfer[o] \in Reports
    /\ Remember(p, "settle", Snapshot(o))
    /\ UNCHANGED <<status, known, ledgerVars, bankVars, inbox, faults>>

(***************************************************************************)
(* FinanceEvents: receive stores a hint, run verifies it with the bank.    *)
(***************************************************************************)
\* What the bank may notify about o: a webhook of kind k.
Announced(o, k) ==
    \/ k = "Reversed" /\ reversed[o]
    \/ k = "Processing" /\ transfer[o] \in Reports
    \/ k \in {"Completed", "Failed"} /\ transfer[o] = k

Receive(o, k) ==
    /\ Announced(o, k) /\ inbox[o][k] = "none"
    /\ inbox' = [inbox EXCEPT ![o][k] = "RECEIVED"]
    /\ UNCHANGED <<status, known, ledgerVars, bankVars, proc, faults>>

\* The row is on the list of this pass; its status is not read again.
PickEvent(p, o, k) ==
    /\ At(p, "idle") /\ inbox[o][k] \in {"RECEIVED", "RETRY"}
    /\ Goto(p, "event", o, k, proc[p].data)
    /\ UNCHANGED <<status, known, ledgerVars, bankVars, inbox, faults>>

VerifyEvent(p) ==
    /\ At(p, "event")
    /\ Remember(p, "verified", Snapshot(proc[p].op))
    /\ UNCHANGED <<status, known, ledgerVars, bankVars, inbox, faults>>

\* The transfer query fails: RETRY when the outcome is unknown, REVIEW when
\* the bank rejected the query.
QueryFails(p) ==
    /\ At(p, "event")
    /\ faults < MaxFaults /\ faults' = faults + 1
    /\ \E s \in {"RETRY", "REVIEW"} :
          inbox' = [inbox EXCEPT ![proc[p].op][proc[p].kind] = s]
    /\ Become(p, "idle")
    /\ UNCHANGED <<status, known, ledgerVars, bankVars>>

\* Mutant: the reversal does not wait for the payout.
ApplyReversalEarly(p) ==
    LET o == proc[p].op IN
    /\ At(p, "verified") /\ proc[p].data.reversed
    /\ status[o] # "REVERSED"
    /\ Post(o, "reversal", Amount[o], 0, -Amount[o], 0)
    /\ status' = [status EXCEPT ![o] = "REVERSED"]
    /\ inbox' = [inbox EXCEPT ![o][proc[p].kind] = "PROCESSED"]
    /\ Become(p, "idle")
    /\ UNCHANGED <<known, bankVars, faults>>

\* A transfer the bank has reversed: the principal goes back once, with the row
\* acknowledged in the same transaction, and only to an operation that is
\* SUCCEEDED.  Anything else throws.
ApplyReversal(p) ==
    LET o == proc[p].op
        Done == inbox' = [inbox EXCEPT ![o][proc[p].kind] = "PROCESSED"] /\ Become(p, "idle")
    IN
    /\ At(p, "verified") /\ proc[p].data.reversed
    /\ \/ /\ status[o] = "SUCCEEDED"
          /\ Post(o, "reversal", Amount[o], 0, -Amount[o], 0)
          /\ status' = [status EXCEPT ![o] = "REVERSED"]
          /\ Done
       \/ /\ status[o] = "REVERSED"
          /\ UNCHANGED <<status, ledgerVars>>
          /\ Done
       \/ /\ \/ status[o] \notin {"SUCCEEDED", "REVERSED"}
             \/ status[o] = "SUCCEEDED" /\ ~CanPost(o, "reversal", Amount[o], 0)
          /\ UNCHANGED <<status, ledgerVars, inbox>>
          /\ Become(p, "retry")
    /\ UNCHANGED <<known, bankVars, faults>>

\* Any other transfer: settle it, then acknowledge the row, or retry when the
\* settlement threw or the outcome is not final.
ApplyOutcome(p) ==
    LET o == proc[p].op
        d == proc[p].data
        again == SettleThrows(o, d) \/ d.status = "Processing"
    IN
    /\ At(p, "verified") /\ ~d.reversed
    /\ SettleTx(o, d)
    /\ Become(p, IF again THEN "retry" ELSE "ack")
    /\ UNCHANGED <<known, bankVars, inbox, faults>>

\* The row is marked in an update of its own, whatever it says by then.
Acknowledge(p) ==
    /\ proc[p].pc \in {"ack", "retry"}
    /\ inbox' = [inbox EXCEPT ![proc[p].op][proc[p].kind] =
                    IF At(p, "ack") THEN "PROCESSED" ELSE "RETRY"]
    /\ Become(p, "idle")
    /\ UNCHANGED <<status, known, ledgerVars, bankVars, faults>>

\* An administrator queues a row again, whatever its status.
AdminRetry(o, k) ==
    /\ inbox[o][k] \notin {"none", "RECEIVED"}
    /\ inbox' = [inbox EXCEPT ![o][k] = "RECEIVED"]
    /\ UNCHANGED <<status, known, ledgerVars, bankVars, proc, faults>>

\* The process stops between two steps; nothing it remembered survives.
Crash(p) ==
    /\ ~At(p, "idle")
    /\ faults < MaxFaults /\ faults' = faults + 1
    /\ Become(p, "idle")
    /\ UNCHANGED <<status, known, ledgerVars, bankVars, inbox>>

(***************************************************************************)
(* Safe Haven, as far as the code relies on it: it takes a request at most *)
(* once, whether or not the caller still waits, then settles it for good.  *)
(***************************************************************************)
BankTakes(o) ==
    /\ transfer[o] = "sent"
    /\ \E t \in {"Processing", "refused"} : transfer' = [transfer EXCEPT ![o] = t]
    /\ UNCHANGED <<status, known, ledgerVars, reversed, fee, posts, inbox, proc, faults>>

BankSettles(o) ==
    /\ transfer[o] = "Processing"
    /\ \E t \in {"Completed", "Failed"} : transfer' = [transfer EXCEPT ![o] = t]
    /\ UNCHANGED <<status, known, ledgerVars, reversed, fee, posts, inbox, proc, faults>>

BankReverses(o) ==
    /\ transfer[o] = "Completed" /\ ~reversed[o]
    /\ reversed' = [reversed EXCEPT ![o] = TRUE]
    /\ UNCHANGED <<status, known, ledgerVars, transfer, fee, posts, inbox, proc, faults>>

WorkerStep(p) ==
    \/ RejectRecipient(p) \/ SendTransfer(p) \/ Respond(p) \/ Refused(p)
    \/ RecordReference(p) \/ Settle(p) \/ Discover(p) \/ QueryTransfer(p)
    \/ VerifyEvent(p) \/ ApplyReversal(p) \/ ApplyOutcome(p) \/ Acknowledge(p)

Next ==
    \/ \E o \in Ops : \/ Execute(o) \/ ExpireLease(o)
                      \/ BankTakes(o) \/ BankSettles(o) \/ BankReverses(o)
    \/ \E p \in Procs : WorkerStep(p) \/ Uncertain(p) \/ QueryFails(p) \/ Crash(p)
    \/ \E p \in Procs, o \in Ops : Claim(p, o) \/ PickUncertain(p, o)
    \/ \E o \in Ops, k \in Kinds : Receive(o, k) \/ AdminRetry(o, k)
    \/ \E p \in Procs, o \in Ops, k \in Kinds : PickEvent(p, o, k)

Spec == Init /\ [][Next]_vars

(***************************************************************************)
(* Safety.                                                                 *)
(***************************************************************************)
\* A transfer is sent to the bank at most once for an operation, however many
\* runs, timeouts, expired leases and retries there are (finance-worker:
\* "Never repeat a money-moving POST").
OneTransferPerOperation == \A o \in Ops : posts[o] <= 1

\* Money is never both returned to the customer and sent out: a released
\* operation has no transfer that happened or still can happen, even when a
\* timed-out request reaches the bank late.
ReleasedIsNeverPaid ==
    \A o \in Ops : "release" \in journals[o] => transfer[o] \in {"none", "refused", "Failed"}

\* The ledger books nothing the bank did not do, whatever stale response it is
\* booked from: a payout was completed, a returned principal was reversed.
BookedIsReal ==
    \A o \in Ops :
        /\ "payout" \in journals[o] => transfer[o] = "Completed"
        /\ "reversal" \in journals[o] => reversed[o]

\* A terminal status is backed by the journal that made it true.
TerminalIsBooked ==
    \A o \in Ops :
        /\ status[o] = "SUCCEEDED" => "payout" \in journals[o] /\ "reversal" \notin journals[o]
        /\ status[o] = "REVERSED" => "reversal" \in journals[o]
        /\ status[o] = "FAILED" => "release" \in journals[o]

\* What the journals of o took from the wallet and have not given back.
Owed(o) ==
    LET j == journals[o] IN
    IF "reserve" \notin j \/ "release" \in j THEN 0
    ELSE IF "payout" \notin j THEN Reserved(o)
    ELSE IF "reversal" \notin j THEN Reserved(o) - Refunded(o)
    ELSE Quote - Refunded(o)

\* No unit of the deposit is lost or made: the wallet, the holds and the
\* system accounts of the ledger add up, and the wallet is short of exactly
\* what the journals of each withdrawal account for.
MoneyIsConserved ==
    /\ wallet + Sum(hold, Ops) + clearing + variance = Deposit
    /\ wallet = Deposit - Sum([o \in Ops |-> Owed(o)], Ops)

\* What one operation holds follows from its journals alone: no order of the
\* three paths consumes a reservation twice.
HoldFollowsJournals ==
    \A o \in Ops :
        hold[o] = IF /\ "reserve" \in journals[o]
                     /\ journals[o] \cap {"release", "payout"} = {}
                  THEN Reserved(o) ELSE 0

(***************************************************************************)
(* Why they hold: the inductive invariant of WithdrawalsProofs.            *)
(***************************************************************************)
\* What is true of one operation.
OpInv(o) ==
    /\ journals[o] \in {{}, {"reserve"}, {"reserve", "release"}, {"reserve", "payout"},
                       {"reserve", "payout", "reversal"}}
    /\ journals[o] = {} <=> status[o] = "none"
    /\ status[o] = "QUEUED" => journals[o] = {"reserve"}
    /\ status[o] \in {"none", "QUEUED"} => transfer[o] = "none"
    /\ posts[o] = IF transfer[o] = "none" THEN 0 ELSE 1
    /\ reversed[o] => transfer[o] = "Completed"
    /\ known[o] => transfer[o] \in Reports
    /\ \A k \in Kinds : inbox[o][k] # "none" => transfer[o] \in Reports

\* What a run may rely on while it acts on the operation it remembered: before
\* the POST nothing was sent or booked, and what it read of a final transfer
\* stays true.
ProcInv(p) ==
    LET o == proc[p].op
        d == proc[p].data
    IN
    /\ proc[p].pc = "claimed" => /\ status[o] \in {"PROCESSING", "UNKNOWN"}
                                 /\ journals[o] = {"reserve"}
                                 /\ transfer[o] = "none"
    /\ proc[p].pc = "posting" => transfer[o] # "none"
    /\ proc[p].pc \in {"posted", "query", "settle", "event", "verified", "ack", "retry"} =>
          transfer[o] \in Reports
    /\ proc[p].pc \in {"posted", "settle", "verified"} =>
          /\ d.status # "Processing" => transfer[o] = d.status
          /\ d.reversed => reversed[o]

\* Two runs are never between the claim and the POST of one operation.
OneClaimant ==
    \A p, q \in Procs :
        /\ proc[p].pc = "claimed" /\ proc[q].pc = "claimed"
        /\ proc[p].op = proc[q].op
        => p = q

IInv == /\ TypeOK
        /\ \A o \in Ops : OpInv(o)
        /\ \A p \in Procs : ProcInv(p)
        /\ OneClaimant
        /\ ReleasedIsNeverPaid /\ BookedIsReal /\ TerminalIsBooked
        /\ HoldFollowsJournals
===============================================================================
