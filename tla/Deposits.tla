------------------------------- MODULE Deposits -------------------------------
(***************************************************************************)
(* Verified bank deposits and the SWEEP operations that move the money to  *)
(* the treasury: FinanceEvents.bankEvent, FinanceWorker.sweep, settleSweep *)
(* and what reconcile and discover do for a SWEEP, in overlapping runs of  *)
(* the jobs.  A webhook is a hint: every row makes its own transfer query. *)
(***************************************************************************)
EXTENDS Integers, FiniteSets

CONSTANTS
    Transfers,   \* inward transfers of Safe Haven to one user's subaccount
    Jobs,        \* concurrent runs of the finance jobs
    Gross,       \* amount of a transfer
    BankFees,    \* its fees, VAT and stamp duty
    FeeBearer,   \* SAFE_HAVEN_INCOMING_FEE_BEARER
    Webhooks,    \* the states a webhook is sent for
    MaxLost      \* answers lost, POSTs lost, servers stopped

ASSUME DepositAssumption ==
    /\ Gross \in Nat /\ BankFees \in Nat /\ FeeBearer \in {"recipient", "sender"}
    /\ Gross > BankFees /\ MaxLost \in Nat
    /\ Webhooks \subseteq {"Pending", "Completed", "Failed", "Reversed"} /\ Webhooks # {}
    /\ IsFiniteSet(Transfers) /\ Transfers # {}

VARIABLES
    inward,   \* inward[d]: the transfer at Safe Haven
    inbox,    \* inbox[row]: FinanceInbox.status, "none" without a row
    credits,  \* credits[d]: postings of the journal deposit:<d>
    wallet,   \* the user's available NGN
    sweep,    \* sweep[d]: status and providerReference of the SWEEP operation
    treasury, \* treasury[d]: the sweep's transfers at Safe Haven: how many, and the state
    job,      \* job[j]: what a run is doing
    lost

depositVars == <<inward, inbox, credits, wallet, sweep, treasury, job, lost>>

Settled == {"SUCCEEDED", "FAILED", "REVERSED"}
TransferStates == {"none", "Pending", "Completed", "Failed", "Reversed"}
\* An inbox reference holds the status and the reversal flag the webhook came with.
InboxRows == Transfers \X {"credit", "debit"} \X Webhooks
IdleJob == [pc |-> "idle", row |-> CHOOSE row \in InboxRows : TRUE, data |-> "none"]
Subject(j) == job[j].row[1]
\* A run that works on an operation and not on a row.
SweepOf(d) == CHOOSE row \in InboxRows : row[1] = d /\ row[2] = "debit"

SweepStatuses == {"none", "QUEUED", "PROCESSING", "UNKNOWN", "PENDING"} \cup Settled
SweepRow == [status : SweepStatuses, named : BOOLEAN]
TreasuryRow == [sent : Nat, state : TransferStates]
JobPcs == {"idle", "verify", "credit", "resolve", "post", "record", "settle", "discover", "query",
           "apply", "acknowledge"}
JobState == [pc : JobPcs, row : InboxRows, data : TransferStates]

DepositTypeOK ==
    /\ inward \in [Transfers -> TransferStates]
    /\ inbox \in [InboxRows -> {"none", "RECEIVED", "RETRY", "REVIEW", "PROCESSED"}]
    /\ credits \in [Transfers -> Nat] /\ wallet \in Nat
    /\ sweep \in [Transfers -> SweepRow] /\ treasury \in [Transfers -> TreasuryRow]
    /\ job \in [Jobs -> JobState]
    /\ lost \in 0..MaxLost

DepositInit ==
    /\ inward = [d \in Transfers |-> "none"] /\ inbox = [row \in InboxRows |-> "none"]
    /\ credits = [d \in Transfers |-> 0] /\ wallet = 0
    /\ sweep = [d \in Transfers |-> [status |-> "none", named |-> FALSE]]
    /\ treasury = [d \in Transfers |-> [sent |-> 0, state |-> "none"]]
    /\ job = [j \in Jobs |-> IdleJob] /\ lost = 0

At(j, pc) == job[j].pc = pc
Go(j, pc) == job' = [job EXCEPT ![j].pc = pc]
Learn(j, pc, data) == job' = [job EXCEPT ![j].pc = pc, ![j].data = data]
Leave(j) == job' = [job EXCEPT ![j] = IdleJob]
SetSweep(d, status) == sweep' = [sweep EXCEPT ![d].status = status]
Loses == lost < MaxLost /\ lost' = lost + 1
BankUnchanged == UNCHANGED <<inward, treasury>>
LedgerUnchanged == UNCHANGED <<credits, wallet>>

\* What the customer gets of a deposit.
Credited == IF FeeBearer = "recipient" THEN Gross - BankFees ELSE Gross

(***************************************************************************)
(* Safe Haven: transfers progress, and a webhook is sent for every state,  *)
(* again or late.                                                          *)
(***************************************************************************)
InwardProgress(d) ==
    /\ \E s \in TransferStates :
         /\ <<inward[d], s>> \in {<<"none", "Pending">>, <<"Pending", "Completed">>,
                                  <<"Pending", "Failed">>, <<"Completed", "Reversed">>}
         /\ inward' = [inward EXCEPT ![d] = s]
    /\ LedgerUnchanged /\ UNCHANGED <<inbox, sweep, treasury, job, lost>>

TreasuryProgress(d) ==
    /\ \E s \in TransferStates :
         /\ <<treasury[d].state, s>> \in {<<"Pending", "Completed">>, <<"Pending", "Failed">>,
                                          <<"Completed", "Reversed">>}
         /\ treasury' = [treasury EXCEPT ![d].state = s]
    /\ LedgerUnchanged /\ UNCHANGED <<inward, inbox, sweep, job, lost>>

\* A webhook reports the state of its transfer now or an earlier one.
Reported(state) ==
    CASE state = "none" -> {} [] state = "Reversed" -> {"Pending", "Completed", "Reversed"}
      [] OTHER -> {"Pending", state}

\* receive keeps the first row of a reference.
Receive(row) ==
    /\ row[3] \in Reported(IF row[2] = "credit" THEN inward[row[1]] ELSE treasury[row[1]].state)
    /\ inbox[row] = "none" /\ inbox' = [inbox EXCEPT ![row] = "RECEIVED"]
    /\ LedgerUnchanged /\ BankUnchanged /\ UNCHANGED <<sweep, job, lost>>

\* An administrator's retry queues a row again whatever its status is.
RetryRow(row) ==
    /\ inbox[row] \in {"REVIEW", "PROCESSED"} /\ inbox' = [inbox EXCEPT ![row] = "RECEIVED"]
    /\ LedgerUnchanged /\ BankUnchanged /\ UNCHANGED <<sweep, job, lost>>

(***************************************************************************)
(* FinanceEvents.run: rows and their transfer query.                       *)
(***************************************************************************)
PickRow(j, row) ==
    /\ At(j, "idle") /\ inbox[row] \in {"RECEIVED", "RETRY"}
    /\ job' = [job EXCEPT ![j].pc = "verify", ![j].row = row]
    /\ LedgerUnchanged /\ BankUnchanged /\ UNCHANGED <<inbox, sweep, lost>>

\* run's catch writes the row's status, whatever another run made of it meanwhile.
RowFails(j, status) == Leave(j) /\ inbox' = [inbox EXCEPT ![job[j].row] = status]

VerifyDeposit(j) ==
    /\ At(j, "verify") /\ job[j].row[2] = "credit"
    /\ IF inward[Subject(j)] = "Completed" THEN Go(j, "credit") /\ UNCHANGED inbox
       ELSE RowFails(j, "REVIEW")
    /\ LedgerUnchanged /\ BankUnchanged /\ UNCHANGED <<sweep, lost>>

QueryLost(j) ==
    /\ At(j, "verify") /\ RowFails(j, "RETRY")
    /\ Loses /\ LedgerUnchanged /\ BankUnchanged /\ UNCHANGED sweep

\* Mutant: the deposit's journal is not looked up first.
CreditAgain(j) ==
    LET d == Subject(j) IN
    /\ At(j, "credit") /\ Leave(j)
    /\ credits' = [credits EXCEPT ![d] = @ + 1] /\ wallet' = wallet + Credited
    /\ sweep' = [sweep EXCEPT ![d].status = "QUEUED"]
    /\ inbox' = [inbox EXCEPT ![job[j].row] = "PROCESSED"]
    /\ BankUnchanged /\ UNCHANGED lost

\* The transaction under the owner's row lock: ledger, projection, SWEEP and row.
Credit(j) ==
    LET d == Subject(j) IN
    /\ At(j, "credit") /\ Leave(j)
    /\ IF credits[d] = 0
       THEN /\ credits' = [credits EXCEPT ![d] = 1] /\ wallet' = wallet + Credited
            /\ SetSweep(d, "QUEUED")
       ELSE LedgerUnchanged /\ UNCHANGED sweep
    /\ inbox' = [inbox EXCEPT ![job[j].row] = "PROCESSED"]
    /\ BankUnchanged /\ UNCHANGED lost

\* account.debit of a sweep: the operation is found by the payment reference.
VerifySweep(j) ==
    /\ At(j, "verify") /\ job[j].row[2] = "debit"
    /\ Learn(j, "apply", treasury[Subject(j)].state)
    /\ LedgerUnchanged /\ BankUnchanged /\ UNCHANGED <<inbox, sweep, lost>>

(***************************************************************************)
(* FinanceWorker: process, sweep, settleSweep, reconcile, discover.        *)
(***************************************************************************)
\* Mutant: the claim takes an operation whatever its status is.
ClaimAnyway(j, d) ==
    /\ At(j, "idle") /\ sweep[d].status \in {"QUEUED", "UNKNOWN"}
    /\ SetSweep(d, "PROCESSING")
    /\ job' = [job EXCEPT ![j].pc = "resolve", ![j].row = SweepOf(d)]
    /\ LedgerUnchanged /\ BankUnchanged /\ UNCHANGED <<inbox, lost>>

Claim(j, d) ==
    /\ At(j, "idle") /\ sweep[d].status = "QUEUED" /\ SetSweep(d, "PROCESSING")
    /\ job' = [job EXCEPT ![j].pc = "resolve", ![j].row = SweepOf(d)]
    /\ LedgerUnchanged /\ BankUnchanged /\ UNCHANGED <<inbox, lost>>

Resolve(j) ==
    /\ At(j, "resolve") /\ Go(j, "post")
    /\ LedgerUnchanged /\ BankUnchanged /\ UNCHANGED <<inbox, sweep, lost>>

\* A definitive refusal of the name enquiry or of the transfer.
Refused(j) ==
    /\ job[j].pc \in {"resolve", "post"} /\ Leave(j)
    /\ IF sweep[Subject(j)].status \in Settled THEN UNCHANGED sweep
       ELSE SetSweep(Subject(j), "FAILED")
    /\ LedgerUnchanged /\ BankUnchanged /\ UNCHANGED <<inbox, lost>>

Accept(d) == treasury' = [treasury EXCEPT ![d] = [sent |-> @.sent + 1, state |-> "Pending"]]

Transfer(j) ==
    /\ At(j, "post") /\ Accept(Subject(j)) /\ Learn(j, "record", "Pending")
    /\ LedgerUnchanged /\ UNCHANGED <<inward, inbox, sweep, lost>>

\* No answer came: the transfer was accepted or never arrived.
SweepUncertain(j) ==
    LET d == Subject(j) IN
    /\ \/ job[j].pc \in {"resolve", "post"} /\ UNCHANGED treasury
       \/ At(j, "post") /\ Accept(d)
    /\ IF sweep[d].status = "PROCESSING" THEN SetSweep(d, "UNKNOWN") ELSE UNCHANGED sweep
    /\ Leave(j) /\ Loses /\ LedgerUnchanged /\ UNCHANGED <<inward, inbox>>

RecordReference(j) ==
    /\ At(j, "record") /\ Go(j, "settle")
    /\ sweep' = [sweep EXCEPT ![Subject(j)] = [status |-> "PENDING", named |-> TRUE]]
    /\ LedgerUnchanged /\ BankUnchanged /\ UNCHANGED <<inbox, lost>>

SweepStatus(data) ==
    CASE data = "Reversed" -> "REVERSED" [] data = "Completed" -> "SUCCEEDED"
      [] data = "Failed" -> "FAILED" [] OTHER -> "PENDING"

\* settleSweep has no lock and no look at the present status.
SettleSweep(j) ==
    /\ SetSweep(Subject(j), SweepStatus(job[j].data))
    /\ IF At(j, "apply") THEN Go(j, "acknowledge") ELSE Leave(j)
Settle(j) ==
    /\ job[j].pc \in {"settle", "apply"} /\ SettleSweep(j)
    /\ LedgerUnchanged /\ BankUnchanged /\ UNCHANGED <<inbox, lost>>

Acknowledge(j) ==
    /\ At(j, "acknowledge") /\ RowFails(j, "PROCESSED")
    /\ LedgerUnchanged /\ BankUnchanged /\ UNCHANGED <<sweep, lost>>

\* The lease of a run that stopped lapses.
LeaseLapses(d) ==
    /\ sweep[d].status = "PROCESSING"
    /\ \A j \in Jobs : Subject(j) = d => job[j].pc \notin {"resolve", "post", "record"}
    /\ SetSweep(d, "UNKNOWN")
    /\ LedgerUnchanged /\ BankUnchanged /\ UNCHANGED <<inbox, job, lost>>

PickSweep(j, d) ==
    /\ At(j, "idle") /\ sweep[d].status \in {"UNKNOWN", "PENDING"}
    /\ job' = [job EXCEPT ![j].row = SweepOf(d),
                          ![j].pc = IF sweep[d].named THEN "query" ELSE "discover"]
    /\ LedgerUnchanged /\ BankUnchanged /\ UNCHANGED <<inbox, sweep, lost>>

Discover(j) ==
    LET d == Subject(j) IN
    /\ At(j, "discover")
    /\ IF treasury[d].sent = 1
       THEN Go(j, "query") /\ sweep' = [sweep EXCEPT ![d].named = TRUE]
       ELSE Leave(j) /\ UNCHANGED sweep
    /\ LedgerUnchanged /\ BankUnchanged /\ UNCHANGED <<inbox, lost>>

QueryTransfer(j) ==
    /\ At(j, "query") /\ Learn(j, "settle", treasury[Subject(j)].state)
    /\ LedgerUnchanged /\ BankUnchanged /\ UNCHANGED <<inbox, sweep, lost>>

\* The server stops, or reconcile's catch drops a failed query.
JobStops(j) ==
    /\ ~At(j, "idle") /\ Leave(j) /\ Loses
    /\ LedgerUnchanged /\ BankUnchanged /\ UNCHANGED <<inbox, sweep>>

DepositNext ==
    \/ \E d \in Transfers : InwardProgress(d) \/ TreasuryProgress(d) \/ LeaseLapses(d)
    \/ \E row \in InboxRows : Receive(row) \/ RetryRow(row)
    \/ \E j \in Jobs :
         \/ \E row \in InboxRows : PickRow(j, row)
         \/ \E d \in Transfers : Claim(j, d) \/ PickSweep(j, d)
         \/ VerifyDeposit(j) \/ QueryLost(j) \/ Credit(j) \/ VerifySweep(j)
         \/ Resolve(j) \/ Refused(j) \/ Transfer(j) \/ SweepUncertain(j) \/ RecordReference(j)
         \/ Settle(j) \/ Acknowledge(j) \/ Discover(j) \/ QueryTransfer(j) \/ JobStops(j)

DepositSpec == DepositInit /\ [][DepositNext]_depositVars

(***************************************************************************)
(* Properties.                                                             *)
(***************************************************************************)
\* "A deposit is credited once after a server-side transfer query confirms" it, and "the
\* sweep does not credit the user again" (docs/sudo-safehaven.md:16-22): however many rows,
\* runs and retries handle a transfer, the wallet holds the credited part of each completed
\* one exactly once, and each credit has its one SWEEP.
DepositCreditedOnce ==
    /\ wallet = Credited * Cardinality({d \in Transfers : credits[d] > 0})
    /\ \A d \in Transfers :
         /\ credits[d] > 0 => inward[d] \in {"Completed", "Reversed"}
         /\ (credits[d] > 0) <=> (sweep[d].status # "none")

\* "Workers query existing provider records instead of repeating a transfer"
\* (docs/sudo-safehaven.md:36-37): a deposit is swept by at most one transfer, and a settled
\* status is one the transfer really had.
SweepTellsTheTruth ==
    \A d \in Transfers :
        /\ treasury[d].sent <= credits[d] /\ treasury[d].sent <= 1
        /\ sweep[d].status = "SUCCEEDED" => treasury[d].state \in {"Completed", "Reversed"}
        /\ sweep[d].status = "REVERSED"  => treasury[d].state = "Reversed"
        /\ sweep[d].status = "FAILED"    => treasury[d].state \in {"none", "Failed"}

(***************************************************************************)
(* The promise of Payin.  A deposit is told to be open while its SWEEP has *)
(* not ended; a second transfer to the treasury would be no state of it.   *)
(***************************************************************************)
Moved(d) == IF treasury[d].sent > 1 THEN "twice" ELSE treasury[d].state
Told(d) == IF sweep[d].status \in Settled \cup {"none"} THEN sweep[d].status ELSE "open"

I == INSTANCE Payin WITH
       credited <- {d \in Transfers : credits[d] > 0},
       moved <- [d \in Transfers |-> Moved(d)], told <- [d \in Transfers |-> Told(d)]

\* Rows that come late, twice and in two runs, lost answers and stops keep the promise of Payin at
\* every step: a completed deposit is credited once, swept by one transfer, what is told of the
\* sweep was true, and a refused one is never sent.
ImplementsPayin == I!PayinSpec
===============================================================================
