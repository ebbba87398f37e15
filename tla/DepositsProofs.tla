---------------------------- MODULE DepositsProofs ----------------------------
(***************************************************************************)
(* A deposit is credited once and swept by one transfer, for any number of *)
(* transfers, webhook rows, runs of the jobs and lost answers; and the     *)
(* deposits implement Payin.                                               *)
(***************************************************************************)
EXTENDS Deposits, FiniteSetTheorems, TLAPS

Credits == {d \in Transfers : credits[d] > 0}
WalletInv == wallet = Credited * Cardinality(Credits)

\* What a transfer's rows may say.  A sweep that is QUEUED, FAILED before its POST or not
\* there sent nothing, and a debit row exists only for a transfer that was made.
TransferInv(d) ==
    /\ credits[d] \in {0, 1}
    /\ credits[d] = 1 => inward[d] \in {"Completed", "Reversed"}
    /\ credits[d] = 1 <=> sweep[d].status # "none"
    /\ treasury[d].sent <= credits[d]
    /\ treasury[d].sent = 0 <=> treasury[d].state = "none"
    /\ sweep[d].status = "QUEUED" => treasury[d].sent = 0
    /\ sweep[d].named => treasury[d].sent = 1
    /\ \A row \in InboxRows :
         row[1] = d /\ row[2] = "debit" /\ inbox[row] # "none" => treasury[d].sent = 1
    /\ sweep[d].status = "SUCCEEDED" => treasury[d].state \in {"Completed", "Reversed"}
    /\ sweep[d].status = "REVERSED"  => treasury[d].state = "Reversed"
    /\ sweep[d].status = "FAILED"    => treasury[d].state \in {"none", "Failed"}

\* What a run read is still true of a transfer that goes on.
Known(state, data) ==
    /\ data = "Completed" => state \in {"Completed", "Reversed"}
    /\ data \in {"Failed", "Reversed"} => state = data

\* What a run may rely on between its steps: before its POST the operation is PROCESSING,
\* and nothing has been sent.
JobInv(j) ==
    LET d == Subject(j) IN
    /\ At(j, "credit") => job[j].row[2] = "credit" /\ inward[d] \in {"Completed", "Reversed"}
    /\ At(j, "verify") /\ job[j].row[2] = "debit" => treasury[d].sent = 1
    /\ job[j].pc \in {"resolve", "post"} => sweep[d].status = "PROCESSING" /\ treasury[d].sent = 0
    /\ job[j].pc \in {"record", "settle", "query", "apply", "acknowledge"} => treasury[d].sent = 1
    /\ At(j, "record") => job[j].data = "Pending"
    /\ job[j].pc \in {"settle", "apply"} => Known(treasury[d].state, job[j].data)

\* One run executes an operation.
Executes(j) == job[j].pc \in {"resolve", "post"}
ExecutesAlone(j, k) == Executes(j) /\ Executes(k) /\ Subject(j) = Subject(k) => j = k

DepositInv ==
    /\ DepositTypeOK /\ WalletInv
    /\ \A d \in Transfers : TransferInv(d)
    /\ \A j \in Jobs : JobInv(j)
    /\ \A j, k \in Jobs : ExecutesAlone(j, k)

LEMMA CreditedIsNat == Credited \in Nat
  BY DepositAssumption DEF Credited

LEMMA OneMoreCredit ==
    ASSUME NEW c \in Nat, NEW n \in Nat
    PROVE  c * n + c = c * (n + 1)
  OBVIOUS

\* The rows that CHOOSE names are rows, and a run that works on an operation names it.
LEMMA RowsExist ==
    /\ IdleJob \in JobState /\ IdleJob.pc = "idle"
    /\ \A d \in Transfers : SweepOf(d) \in InboxRows /\ SweepOf(d)[1] = d /\ SweepOf(d)[2] = "debit"
<1>1. PICK t \in Transfers, w \in Webhooks : TRUE
  BY DepositAssumption
<1>2. <<t, "credit", w>> \in InboxRows
  BY <1>1 DEF InboxRows
<1>3. (CHOOSE row \in InboxRows : TRUE) \in InboxRows
  BY <1>2
<1>4. IdleJob \in JobState /\ IdleJob.pc = "idle"
  BY <1>3 DEF IdleJob, JobState, JobPcs, TransferStates
<1>5. ASSUME NEW d \in Transfers
      PROVE  SweepOf(d) \in InboxRows /\ SweepOf(d)[1] = d /\ SweepOf(d)[2] = "debit"
  <2>1. /\ <<d, "debit", w>> \in InboxRows
        /\ <<d, "debit", w>>[1] = d /\ <<d, "debit", w>>[2] = "debit"
    BY <1>1 DEF InboxRows
  <2> QED BY <2>1 DEF SweepOf
<1> QED BY <1>4, <1>5

LEMMA RowOfTransfer == \A row \in InboxRows : row[1] \in Transfers /\ row[2] \in {"credit", "debit"}
  BY DEF InboxRows

(***************************************************************************)
(* What the helpers of the actions do to a run, a sweep and its transfer.  *)
(***************************************************************************)
JobIs(j, pc, row, data) ==
    /\ job' \in [Jobs -> JobState]
    /\ job'[j].pc = pc /\ job'[j].row = row /\ job'[j].data = data
    /\ \A k \in Jobs : k # j => job'[k] = job[k]

SweepIs(d, status, named) ==
    /\ sweep' \in [Transfers -> SweepRow]
    /\ sweep'[d].status = status /\ sweep'[d].named = named
    /\ \A t \in Transfers : t # d => sweep'[t] = sweep[t]

TreasuryIs(d, sent, state) ==
    /\ treasury' \in [Transfers -> TreasuryRow]
    /\ treasury'[d].sent = sent /\ treasury'[d].state = state
    /\ \A t \in Transfers : t # d => treasury'[t] = treasury[t]

LEMMA RunsMove ==
    ASSUME DepositTypeOK, NEW j \in Jobs, NEW pc \in JobPcs, NEW data \in TransferStates,
           NEW row \in InboxRows
    PROVE  /\ Subject(j) \in Transfers /\ job[j] \in JobState
           /\ Go(j, pc) => JobIs(j, pc, job[j].row, job[j].data)
           /\ Learn(j, pc, data) => JobIs(j, pc, job[j].row, data)
           /\ Leave(j) => JobIs(j, "idle", IdleJob.row, "none")
           /\ job' = [job EXCEPT ![j].pc = pc, ![j].row = row] => JobIs(j, pc, row, job[j].data)
           /\ job' = [job EXCEPT ![j].row = row, ![j].pc = pc] => JobIs(j, pc, row, job[j].data)
<1>1. job[j] \in JobState /\ job \in [Jobs -> JobState]
  BY DEF DepositTypeOK
<1>2. Subject(j) \in Transfers
  BY <1>1, RowOfTransfer DEF JobState, Subject
<1>3. Go(j, pc) => JobIs(j, pc, job[j].row, job[j].data)
  BY <1>1 DEF Go, JobIs, JobState
<1>4. Learn(j, pc, data) => JobIs(j, pc, job[j].row, data)
  <2>1. Learn(j, pc, data) =>
          job' = [job EXCEPT ![j] = [pc |-> pc, row |-> job[j].row, data |-> data]]
    BY <1>1 DEF Learn, JobState
  <2> QED BY <1>1, <2>1 DEF JobIs, JobState
<1>5. IdleJob.data = "none"
  BY DEF IdleJob
<1>6. Leave(j) => JobIs(j, "idle", IdleJob.row, "none")
  BY <1>1, <1>5, RowsExist DEF Leave, JobIs
<1>7. \/ job' = [job EXCEPT ![j].pc = pc, ![j].row = row]
      \/ job' = [job EXCEPT ![j].row = row, ![j].pc = pc]
      => JobIs(j, pc, row, job[j].data)
  <2>1. \/ job' = [job EXCEPT ![j].pc = pc, ![j].row = row]
        \/ job' = [job EXCEPT ![j].row = row, ![j].pc = pc]
        => job' = [job EXCEPT ![j] = [pc |-> pc, row |-> row, data |-> job[j].data]]
    BY <1>1 DEF JobState
  <2> QED BY <1>1, <2>1 DEF JobIs, JobState
<1> QED BY <1>1, <1>2, <1>3, <1>4, <1>6, <1>7

LEMMA SweepsMove ==
    ASSUME DepositTypeOK, NEW d \in Transfers, NEW status \in SweepStatuses
    PROVE  /\ sweep[d] \in SweepRow /\ treasury[d] \in TreasuryRow
           /\ SetSweep(d, status) => SweepIs(d, status, sweep[d].named)
           /\ sweep' = [sweep EXCEPT ![d].named = TRUE] => SweepIs(d, sweep[d].status, TRUE)
           /\ sweep' = [sweep EXCEPT ![d] = [status |-> status, named |-> TRUE]] =>
                SweepIs(d, status, TRUE)
           /\ Accept(d) => TreasuryIs(d, treasury[d].sent + 1, "Pending")
<1>1. /\ sweep[d] \in SweepRow /\ sweep \in [Transfers -> SweepRow]
      /\ treasury[d] \in TreasuryRow /\ treasury \in [Transfers -> TreasuryRow]
  BY DEF DepositTypeOK
<1>2. SetSweep(d, status) => SweepIs(d, status, sweep[d].named)
  BY <1>1 DEF SetSweep, SweepIs, SweepRow
<1>3. sweep' = [sweep EXCEPT ![d].named = TRUE] => SweepIs(d, sweep[d].status, TRUE)
  BY <1>1 DEF SweepIs, SweepRow
<1>4. sweep' = [sweep EXCEPT ![d] = [status |-> status, named |-> TRUE]] => SweepIs(d, status, TRUE)
  BY <1>1 DEF SweepIs, SweepRow
<1>5. Accept(d) => TreasuryIs(d, treasury[d].sent + 1, "Pending")
  BY <1>1 DEF Accept, TreasuryIs, TreasuryRow, TransferStates
<1> QED BY <1>1, <1>2, <1>3, <1>4, <1>5

\* What a step of another run leaves to k: nobody takes part in what k executes, and what is
\* known of the transfers stays known.
LeavesAlone(k) ==
    LET d == Subject(k) IN
    /\ inward[d] \in {"Completed", "Reversed"} => inward'[d] \in {"Completed", "Reversed"}
    /\ Executes(k) => sweep'[d].status = sweep[d].status /\ treasury'[d].sent = treasury[d].sent
    /\ treasury[d].sent = 1 => treasury'[d].sent = 1
    /\ \A data : Known(treasury[d].state, data) => Known(treasury'[d].state, data)

LEMMA OtherRunStays ==
    ASSUME NEW k \in Jobs, JobInv(k), job'[k] = job[k], LeavesAlone(k)
    PROVE  JobInv(k)'
  BY DEF JobInv, LeavesAlone, Executes, At, Subject

\* Only a run that claims an operation comes to execute it.
LEMMA AloneStays ==
    ASSUME \A j, k \in Jobs : ExecutesAlone(j, k),
           \A k \in Jobs : Executes(k)' => Executes(k) /\ Subject(k)' = Subject(k)
    PROVE  (\A j, k \in Jobs : ExecutesAlone(j, k))'
  BY DEF ExecutesAlone

LEMMA InitInv == DepositInit => DepositInv
<1> SUFFICES ASSUME DepositInit PROVE DepositInv
  OBVIOUS
<1> USE DEF DepositInit
<1>1. DepositTypeOK
  BY RowsExist, DepositAssumption DEF DepositTypeOK, SweepRow, SweepStatuses, TreasuryRow,
     TransferStates
<1>2. WalletInv
  <2>1. Credits = {}
    BY DEF Credits
  <2> QED BY <2>1, FS_EmptySet, CreditedIsNat DEF WalletInv
<1>3. ASSUME NEW d \in Transfers PROVE TransferInv(d)
  BY RowOfTransfer DEF TransferInv
<1>4. ASSUME NEW j \in Jobs PROVE JobInv(j)
  BY RowsExist DEF JobInv, At
<1>5. \A j, k \in Jobs : ExecutesAlone(j, k)
  BY RowsExist DEF ExecutesAlone, Executes
<1> QED BY <1>1, <1>2, <1>3, <1>4, <1>5 DEF DepositInv

LEMMA InwardProgressKeeps ==
    ASSUME DepositInv, NEW d \in Transfers, InwardProgress(d)
    PROVE  DepositInv'
<1> USE DEF DepositInv, InwardProgress, LedgerUnchanged, BankUnchanged
<1>1. DepositTypeOK'
  BY DEF DepositTypeOK
<1>2. WalletInv'
  BY DEF WalletInv, Credits, Credited
<1>3. ASSUME NEW t \in Transfers PROVE TransferInv(t)'
  BY DEF TransferInv, DepositTypeOK, TreasuryRow
<1>4. ASSUME NEW k \in Jobs PROVE JobInv(k)'
  BY RowOfTransfer DEF JobInv, Known, At, Subject, DepositTypeOK, TreasuryRow, JobState
<1>5. (\A k, l \in Jobs : ExecutesAlone(k, l))'
  BY DEF ExecutesAlone, Executes, Subject
<1> QED BY <1>1, <1>2, <1>3, <1>4, <1>5

LEMMA TreasuryProgressKeeps ==
    ASSUME DepositInv, NEW d \in Transfers, TreasuryProgress(d)
    PROVE  DepositInv'
<1> USE DEF DepositInv, TreasuryProgress, LedgerUnchanged, BankUnchanged
<1>1. DepositTypeOK'
  <2>1. treasury' \in [Transfers -> TreasuryRow]
    BY DEF DepositTypeOK, TreasuryRow
  <2> QED BY <2>1 DEF DepositTypeOK
<1>2. WalletInv'
  BY DEF WalletInv, Credits, Credited
<1>3. ASSUME NEW t \in Transfers PROVE TransferInv(t)'
  BY DEF TransferInv, DepositTypeOK, TreasuryRow
<1>4. ASSUME NEW k \in Jobs PROVE JobInv(k)'
  BY RowOfTransfer DEF JobInv, Known, At, Subject, DepositTypeOK, TreasuryRow, JobState
<1>5. (\A k, l \in Jobs : ExecutesAlone(k, l))'
  BY DEF ExecutesAlone, Executes, Subject
<1> QED BY <1>1, <1>2, <1>3, <1>4, <1>5

LEMMA ReceiveKeeps ==
    ASSUME DepositInv, NEW row \in InboxRows, Receive(row)
    PROVE  DepositInv'
<1> USE DEF DepositInv, Receive, LedgerUnchanged, BankUnchanged
<1>1. DepositTypeOK'
  BY DEF DepositTypeOK
<1>2. WalletInv'
  BY DEF WalletInv, Credits, Credited
<1>3. ASSUME NEW t \in Transfers PROVE TransferInv(t)'
  <2>1. row[2] = "debit" => treasury[row[1]].sent # 0
    BY RowOfTransfer DEF Reported, TransferInv
  <2>2. treasury[t].sent \in Nat
    BY DEF DepositTypeOK, TreasuryRow
  <2>3. TransferInv(t) /\ inbox \in [InboxRows -> {"none", "RECEIVED", "RETRY", "REVIEW", "PROCESSED"}]
    BY DEF DepositTypeOK
  <2> QED BY <2>1, <2>2, <2>3 DEF TransferInv
<1>4. ASSUME NEW k \in Jobs PROVE JobInv(k)'
  BY RowOfTransfer DEF JobInv, Known, At, Subject, DepositTypeOK, TreasuryRow, JobState
<1>5. (\A k, l \in Jobs : ExecutesAlone(k, l))'
  BY DEF ExecutesAlone, Executes, Subject
<1> QED BY <1>1, <1>2, <1>3, <1>4, <1>5

LEMMA RetryRowKeeps ==
    ASSUME DepositInv, NEW row \in InboxRows, RetryRow(row)
    PROVE  DepositInv'
<1> USE DEF DepositInv, RetryRow, LedgerUnchanged, BankUnchanged
<1>1. DepositTypeOK'
  BY DEF DepositTypeOK
<1>2. WalletInv'
  BY DEF WalletInv, Credits, Credited
<1>3. ASSUME NEW t \in Transfers PROVE TransferInv(t)'
  BY DEF TransferInv, DepositTypeOK, TreasuryRow
<1>4. ASSUME NEW k \in Jobs PROVE JobInv(k)'
  BY RowOfTransfer DEF JobInv, Known, At, Subject, DepositTypeOK, TreasuryRow, JobState
<1>5. (\A k, l \in Jobs : ExecutesAlone(k, l))'
  BY DEF ExecutesAlone, Executes, Subject
<1> QED BY <1>1, <1>2, <1>3, <1>4, <1>5

LEMMA LeaseLapsesKeeps ==
    ASSUME DepositInv, NEW d \in Transfers, LeaseLapses(d)
    PROVE  DepositInv'
<1>1. DepositTypeOK /\ WalletInv
  BY DEF DepositInv
<1>2. job \in [Jobs -> JobState]
  BY <1>1 DEF DepositTypeOK
<1>3. /\ sweep[d].status = "PROCESSING"
      /\ SweepIs(d, "UNKNOWN", sweep[d].named)
      /\ \A k \in Jobs : Executes(k) => Subject(k) # d
      /\ LedgerUnchanged /\ BankUnchanged
      /\ UNCHANGED <<inbox, job, lost>>
  BY <1>1, <1>2, SweepsMove DEF LeaseLapses, SetSweep, SweepStatuses, Executes
<1>4. DepositTypeOK'
  BY <1>1, <1>2, <1>3, DepositAssumption, CreditedIsNat DEF DepositTypeOK, SweepIs,
     LedgerUnchanged, BankUnchanged
<1>5. WalletInv'
  BY <1>1, <1>3 DEF WalletInv, Credits, Credited, LedgerUnchanged
<1>6. ASSUME NEW t \in Transfers PROVE TransferInv(t)'
  <2>1. TransferInv(t) /\ sweep[t] \in SweepRow /\ treasury[t] \in TreasuryRow
    BY <1>1 DEF DepositInv, DepositTypeOK
  <2> QED BY <1>1, <1>2, <1>3, <2>1 DEF TransferInv, SweepIs, LedgerUnchanged, BankUnchanged,
     SweepRow, TreasuryRow, DepositTypeOK, Executes, Subject
<1>7. ASSUME NEW k \in Jobs PROVE JobInv(k)'
  <2>1. JobInv(k) /\ (\A t \in Transfers : TransferInv(t)) /\ job[k].row \in InboxRows
    BY <1>1 DEF DepositInv, DepositTypeOK, JobState
  <2> QED BY <1>1, <1>2, <1>3, <2>1, RowOfTransfer DEF JobInv, TransferInv, SweepIs,
     LedgerUnchanged, BankUnchanged, DepositTypeOK, TreasuryRow, Executes, At, Known, Subject
<1>8. (\A k, l \in Jobs : ExecutesAlone(k, l))'
  <2>1. \A k \in Jobs : Executes(k)' => Executes(k) /\ Subject(k)' = Subject(k)
    BY <1>3 DEF Executes, Subject
  <2> QED BY <2>1, AloneStays DEF DepositInv
<1> QED BY <1>4, <1>5, <1>6, <1>7, <1>8 DEF DepositInv

LEMMA PickRowKeeps ==
    ASSUME DepositInv, NEW j \in Jobs, NEW row \in InboxRows, PickRow(j, row)
    PROVE  DepositInv'
<1>1. DepositTypeOK /\ WalletInv
  BY DEF DepositInv
<1>2. job \in [Jobs -> JobState]
  BY <1>1 DEF DepositTypeOK
<1>3. /\ inbox[row] # "none"
      /\ JobIs(j, "verify", row, job[j].data)
      /\ LedgerUnchanged /\ BankUnchanged
      /\ UNCHANGED <<inbox, sweep, lost>>
  BY <1>1, <1>2, RunsMove DEF PickRow, JobPcs, TransferStates, DepositTypeOK, JobState
<1>4. DepositTypeOK'
  BY <1>1, <1>2, <1>3, DepositAssumption, CreditedIsNat DEF DepositTypeOK, JobIs, LedgerUnchanged,
     BankUnchanged
<1>5. WalletInv'
  BY <1>1, <1>3 DEF WalletInv, Credits, Credited, LedgerUnchanged
<1>6. ASSUME NEW t \in Transfers PROVE TransferInv(t)'
  <2>1. TransferInv(t) /\ sweep[t] \in SweepRow /\ treasury[t] \in TreasuryRow
    BY <1>1 DEF DepositInv, DepositTypeOK
  <2> QED BY <1>1, <1>2, <1>3, <2>1 DEF TransferInv, JobIs, LedgerUnchanged, BankUnchanged,
     SweepRow, TreasuryRow, DepositTypeOK, Executes, Subject
<1>7. ASSUME NEW k \in Jobs PROVE JobInv(k)'
  <2>1. JobInv(k) /\ (\A t \in Transfers : TransferInv(t)) /\ job[k].row \in InboxRows
    BY <1>1 DEF DepositInv, DepositTypeOK, JobState
  <2>3. CASE k = j
    BY <1>1, <1>2, <1>3, <2>1, <2>3, RowOfTransfer, RowsExist DEF JobInv, TransferInv, JobIs,
       LedgerUnchanged, BankUnchanged, DepositTypeOK, TreasuryRow, Executes, At, Known, Subject
  <2>4. CASE k # j
    BY <1>1, <1>2, <1>3, <2>1, <2>4, RowOfTransfer DEF JobInv, TransferInv, ExecutesAlone, JobIs,
       LedgerUnchanged, BankUnchanged, DepositTypeOK, TreasuryRow, Executes, At, Known, Subject
  <2> QED BY <2>3, <2>4
<1>8. (\A k, l \in Jobs : ExecutesAlone(k, l))'
  <2>1. \A k \in Jobs : Executes(k)' => Executes(k) /\ Subject(k)' = Subject(k)
    BY <1>3 DEF Executes, JobIs, Subject
  <2> QED BY <2>1, AloneStays DEF DepositInv
<1> QED BY <1>4, <1>5, <1>6, <1>7, <1>8 DEF DepositInv

LEMMA ClaimKeeps ==
    ASSUME DepositInv, NEW j \in Jobs, NEW d \in Transfers, Claim(j, d)
    PROVE  DepositInv'
<1>1. DepositTypeOK /\ WalletInv
  BY DEF DepositInv
<1>2. job \in [Jobs -> JobState]
  BY <1>1 DEF DepositTypeOK
<1>3. /\ sweep[d].status = "QUEUED"
      /\ SweepIs(d, "PROCESSING", sweep[d].named)
      /\ JobIs(j, "resolve", SweepOf(d), job[j].data)
      /\ SweepOf(d)[1] = d
      /\ LedgerUnchanged /\ BankUnchanged
      /\ UNCHANGED <<inbox, lost>>
  BY <1>1, <1>2, RunsMove, SweepsMove, RowsExist DEF Claim, JobPcs, TransferStates, SweepStatuses,
     DepositTypeOK, JobState
<1>4. DepositTypeOK'
  BY <1>1, <1>2, <1>3, DepositAssumption, CreditedIsNat DEF DepositTypeOK, JobIs, SweepIs,
     LedgerUnchanged, BankUnchanged
<1>5. WalletInv'
  BY <1>1, <1>3 DEF WalletInv, Credits, Credited, LedgerUnchanged
<1>6. ASSUME NEW t \in Transfers PROVE TransferInv(t)'
  <2>1. TransferInv(t) /\ sweep[t] \in SweepRow /\ treasury[t] \in TreasuryRow
    BY <1>1 DEF DepositInv, DepositTypeOK
  <2> QED BY <1>1, <1>2, <1>3, <2>1 DEF TransferInv, JobIs, SweepIs, LedgerUnchanged,
     BankUnchanged, SweepRow, TreasuryRow, DepositTypeOK, Executes, Subject
<1>7. ASSUME NEW k \in Jobs PROVE JobInv(k)'
  <2>1. JobInv(k) /\ (\A t \in Transfers : TransferInv(t)) /\ job[k].row \in InboxRows
    BY <1>1 DEF DepositInv, DepositTypeOK, JobState
  <2>3. CASE k = j
    BY <1>1, <1>2, <1>3, <2>1, <2>3, RowOfTransfer, RowsExist DEF JobInv, TransferInv, JobIs,
       SweepIs, LedgerUnchanged, BankUnchanged, DepositTypeOK, TreasuryRow, Executes, At, Known,
       Subject
  <2>4. CASE k # j
    <3>1. job'[k] = job[k] /\ job[k].row[1] \in Transfers
      BY <1>3, <2>1, <2>4, RowOfTransfer DEF JobIs
    <3>2. CASE Subject(k) = d
      <4>1. TransferInv(d)
        BY <1>2, <2>1
      <4> QED BY <1>1, <1>2, <1>3, <2>1, <2>4, <3>1, <3>2, <4>1 DEF JobInv, TransferInv,
         ExecutesAlone, JobIs, SweepIs, LedgerUnchanged, BankUnchanged, DepositTypeOK, TreasuryRow,
         Executes, At, Known, Subject
    <3>3. CASE Subject(k) # d
      BY <1>1, <1>2, <1>3, <2>1, <3>1, <3>3 DEF JobInv, JobIs, SweepIs, LedgerUnchanged,
         BankUnchanged, At, Known, Subject
    <3> QED BY <3>2, <3>3
  <2> QED BY <2>3, <2>4
<1>8. (\A k, l \in Jobs : ExecutesAlone(k, l))'
  <2>1. \A k \in Jobs : Executes(k) => Subject(k) # d
    BY <1>3 DEF DepositInv, JobInv, Executes
  <2>2. \A k, l \in Jobs : ExecutesAlone(k, l)
    BY DEF DepositInv
  <2> QED BY <1>3, <2>1, <2>2 DEF ExecutesAlone, Executes, JobIs, Subject
<1> QED BY <1>4, <1>5, <1>6, <1>7, <1>8 DEF DepositInv

LEMMA PickSweepKeeps ==
    ASSUME DepositInv, NEW j \in Jobs, NEW d \in Transfers, PickSweep(j, d)
    PROVE  DepositInv'
<1>1. DepositTypeOK /\ WalletInv
  BY DEF DepositInv
<1>2. job \in [Jobs -> JobState]
  BY <1>1 DEF DepositTypeOK
<1>3. /\ sweep[d].status \notin {"none", "QUEUED", "PROCESSING"}
      /\ SweepOf(d)[1] = d
      /\ \/ sweep[d].named /\ JobIs(j, "query", SweepOf(d), job[j].data)
         \/ JobIs(j, "discover", SweepOf(d), job[j].data)
      /\ LedgerUnchanged /\ BankUnchanged
      /\ UNCHANGED <<inbox, sweep, lost>>
  BY <1>1, <1>2, RunsMove, RowsExist DEF PickSweep, JobPcs, TransferStates, DepositTypeOK, JobState
<1>4. DepositTypeOK'
  BY <1>1, <1>2, <1>3, DepositAssumption, CreditedIsNat DEF DepositTypeOK, JobIs, LedgerUnchanged,
     BankUnchanged
<1>5. WalletInv'
  BY <1>1, <1>3 DEF WalletInv, Credits, Credited, LedgerUnchanged
<1>6. ASSUME NEW t \in Transfers PROVE TransferInv(t)'
  <2>1. TransferInv(t) /\ sweep[t] \in SweepRow /\ treasury[t] \in TreasuryRow
    BY <1>1 DEF DepositInv, DepositTypeOK
  <2> QED BY <1>1, <1>2, <1>3, <2>1 DEF TransferInv, JobIs, LedgerUnchanged, BankUnchanged,
     SweepRow, TreasuryRow, DepositTypeOK, Executes, Subject
<1>7. ASSUME NEW k \in Jobs PROVE JobInv(k)'
  <2>1. JobInv(k) /\ (\A t \in Transfers : TransferInv(t)) /\ job[k].row \in InboxRows
    BY <1>1 DEF DepositInv, DepositTypeOK, JobState
  <2>3. CASE k = j
    BY <1>1, <1>2, <1>3, <2>1, <2>3, RowOfTransfer, RowsExist DEF JobInv, TransferInv, JobIs,
       LedgerUnchanged, BankUnchanged, DepositTypeOK, TreasuryRow, Executes, At, Known, Subject
  <2>4. CASE k # j
    BY <1>1, <1>2, <1>3, <2>1, <2>4, RowOfTransfer DEF JobInv, TransferInv, ExecutesAlone, JobIs,
       LedgerUnchanged, BankUnchanged, DepositTypeOK, TreasuryRow, Executes, At, Known, Subject
  <2> QED BY <2>3, <2>4
<1>8. (\A k, l \in Jobs : ExecutesAlone(k, l))'
  <2>1. \A k \in Jobs : Executes(k)' => Executes(k) /\ Subject(k)' = Subject(k)
    BY <1>3 DEF Executes, JobIs, Subject
  <2> QED BY <2>1, AloneStays DEF DepositInv
<1> QED BY <1>4, <1>5, <1>6, <1>7, <1>8 DEF DepositInv

LEMMA VerifyDepositKeeps ==
    ASSUME DepositInv, NEW j \in Jobs, VerifyDeposit(j)
    PROVE  DepositInv'
<1> DEFINE d == Subject(j)
<1>1. DepositTypeOK /\ WalletInv
  BY DEF DepositInv
<1>2. d \in Transfers /\ job[j].row \in InboxRows
  BY <1>1, RowOfTransfer DEF DepositTypeOK, JobState, Subject
<1>3. /\ job[j].row[2] = "credit"
      /\ \/ inward[d] = "Completed" /\ JobIs(j, "credit", job[j].row, job[j].data) /\ UNCHANGED inbox
         \/ /\ JobIs(j, "idle", IdleJob.row, "none")
            /\ inbox' = [inbox EXCEPT ![job[j].row] = "REVIEW"]
      /\ LedgerUnchanged /\ BankUnchanged
      /\ UNCHANGED <<sweep, lost>>
  BY <1>1, <1>2, RunsMove DEF VerifyDeposit, RowFails, JobPcs, TransferStates, At
<1>4. DepositTypeOK'
  BY <1>1, <1>2, <1>3, DepositAssumption, CreditedIsNat DEF DepositTypeOK, JobIs, LedgerUnchanged,
     BankUnchanged
<1>5. WalletInv'
  BY <1>1, <1>3 DEF WalletInv, Credits, Credited, LedgerUnchanged
<1>6. ASSUME NEW t \in Transfers PROVE TransferInv(t)'
  <2>1. TransferInv(t) /\ sweep[t] \in SweepRow /\ treasury[t] \in TreasuryRow
    BY <1>1 DEF DepositInv, DepositTypeOK
  <2>2. JobInv(j)
    BY DEF DepositInv
  <2> QED BY <1>1, <1>2, <1>3, <2>1, <2>2 DEF TransferInv, JobInv, JobIs, LedgerUnchanged,
     BankUnchanged, SweepRow, TreasuryRow, DepositTypeOK, Executes, At, Known, Subject
<1>7. ASSUME NEW k \in Jobs PROVE JobInv(k)'
  <2>1. JobInv(k) /\ (\A t \in Transfers : TransferInv(t)) /\ job[k].row \in InboxRows
    BY <1>1 DEF DepositInv, DepositTypeOK, JobState
  <2>2. JobInv(j) /\ \A l \in Jobs : ExecutesAlone(j, l)
    BY DEF DepositInv
  <2>3. CASE k = j
    BY SMTT(30), <1>1, <1>2, <1>3, <2>1, <2>2, <2>3, RowOfTransfer, RowsExist DEF
       JobInv, TransferInv, JobIs,
       LedgerUnchanged, BankUnchanged, DepositTypeOK, TreasuryRow, Executes, At, Known, Subject
  <2>4. CASE k # j
    <3>1. job'[k] = job[k] /\ Subject(k) \in Transfers
      BY <1>3, <2>1, <2>4, RowOfTransfer DEF JobIs, Subject
    <3>2. LeavesAlone(k)
      BY <1>3, <3>1 DEF LeavesAlone, LedgerUnchanged, BankUnchanged
    <3> QED BY <2>1, <3>1, <3>2, OtherRunStays
  <2> QED BY <2>3, <2>4
<1>8. (\A k, l \in Jobs : ExecutesAlone(k, l))'
  <2>1. \A k \in Jobs : Executes(k)' => Executes(k) /\ Subject(k)' = Subject(k)
    BY <1>3 DEF Executes, JobIs, Subject
  <2> QED BY <2>1, AloneStays DEF DepositInv
<1> QED BY <1>4, <1>5, <1>6, <1>7, <1>8 DEF DepositInv

LEMMA QueryLostKeeps ==
    ASSUME DepositInv, NEW j \in Jobs, QueryLost(j)
    PROVE  DepositInv'
<1> DEFINE d == Subject(j)
<1>1. DepositTypeOK /\ WalletInv
  BY DEF DepositInv
<1>2. d \in Transfers /\ job[j].row \in InboxRows
  BY <1>1, RowOfTransfer DEF DepositTypeOK, JobState, Subject
<1>3. /\ At(j, "verify")
      /\ JobIs(j, "idle", IdleJob.row, "none")
      /\ inbox' = [inbox EXCEPT ![job[j].row] = "RETRY"]
      /\ Loses
      /\ LedgerUnchanged /\ BankUnchanged
      /\ UNCHANGED sweep
  BY <1>1, <1>2, RunsMove DEF QueryLost, RowFails, JobPcs, TransferStates
<1>4. DepositTypeOK'
  BY <1>1, <1>2, <1>3, DepositAssumption, CreditedIsNat DEF DepositTypeOK, JobIs, LedgerUnchanged,
     BankUnchanged, Loses
<1>5. WalletInv'
  BY <1>1, <1>3 DEF WalletInv, Credits, Credited, LedgerUnchanged
<1>6. ASSUME NEW t \in Transfers PROVE TransferInv(t)'
  <2>1. TransferInv(t) /\ sweep[t] \in SweepRow /\ treasury[t] \in TreasuryRow
    BY <1>1 DEF DepositInv, DepositTypeOK
  <2>2. JobInv(j)
    BY DEF DepositInv
  <2> QED BY <1>1, <1>2, <1>3, <2>1, <2>2 DEF TransferInv, JobInv, JobIs, LedgerUnchanged,
     BankUnchanged, SweepRow, TreasuryRow, DepositTypeOK, Executes, At, Known, Subject
<1>7. ASSUME NEW k \in Jobs PROVE JobInv(k)'
  <2>1. JobInv(k) /\ (\A t \in Transfers : TransferInv(t)) /\ job[k].row \in InboxRows
    BY <1>1 DEF DepositInv, DepositTypeOK, JobState
  <2>2. JobInv(j) /\ \A l \in Jobs : ExecutesAlone(j, l)
    BY DEF DepositInv
  <2>3. CASE k = j
    BY <1>1, <1>2, <1>3, <2>1, <2>2, <2>3, RowOfTransfer, RowsExist DEF JobInv, TransferInv, JobIs,
       LedgerUnchanged, BankUnchanged, DepositTypeOK, TreasuryRow, Executes, At, Known, Subject
  <2>4. CASE k # j
    BY <1>1, <1>2, <1>3, <2>1, <2>2, <2>4, RowOfTransfer DEF JobInv, TransferInv, ExecutesAlone,
       JobIs, LedgerUnchanged, BankUnchanged, DepositTypeOK, TreasuryRow, Executes, At, Known,
       Subject
  <2> QED BY <2>3, <2>4
<1>8. (\A k, l \in Jobs : ExecutesAlone(k, l))'
  <2>1. \A k \in Jobs : Executes(k)' => Executes(k) /\ Subject(k)' = Subject(k)
    BY <1>3 DEF Executes, JobIs, Subject, At
  <2> QED BY <2>1, AloneStays DEF DepositInv
<1> QED BY <1>4, <1>5, <1>6, <1>7, <1>8 DEF DepositInv

LEMMA CreditKeeps ==
    ASSUME DepositInv, NEW j \in Jobs, Credit(j)
    PROVE  DepositInv'
<1> DEFINE d == Subject(j)
<1>1. DepositTypeOK /\ WalletInv
  BY DEF DepositInv
<1>2. d \in Transfers /\ job[j].row \in InboxRows
  BY <1>1, RowOfTransfer DEF DepositTypeOK, JobState, Subject
<1>3. /\ At(j, "credit")
      /\ JobIs(j, "idle", IdleJob.row, "none")
      /\ inbox' = [inbox EXCEPT ![job[j].row] = "PROCESSED"]
      /\ \/ /\ credits[d] = 0 /\ credits' = [credits EXCEPT ![d] = 1]
            /\ wallet' = wallet + Credited /\ SweepIs(d, "QUEUED", sweep[d].named)
         \/ credits[d] # 0 /\ LedgerUnchanged /\ UNCHANGED sweep
      /\ BankUnchanged /\ UNCHANGED lost
  BY <1>1, <1>2, RunsMove, SweepsMove DEF Credit, JobPcs, TransferStates, SweepStatuses
<1>4. DepositTypeOK'
  BY <1>1, <1>2, <1>3, DepositAssumption, CreditedIsNat DEF DepositTypeOK, JobIs, SweepIs,
     LedgerUnchanged, BankUnchanged
<1>5. WalletInv'
  <2>1. CASE credits[d] = 0
    <3>1. credits' = [credits EXCEPT ![d] = 1] /\ wallet' = wallet + Credited
      BY <1>3, <2>1
    <3>2. Credits' = Credits \cup {d} /\ d \notin Credits
      BY <1>1, <1>2, <2>1, <3>1 DEF Credits, DepositTypeOK
    <3>3. IsFiniteSet(Credits)
      BY DepositAssumption, FS_Subset DEF Credits
    <3>4. Cardinality(Credits') = Cardinality(Credits) + 1
      BY <3>2, <3>3, FS_AddElement
    <3>5. /\ wallet = Credited * Cardinality(Credits)
          /\ Credited \in Nat /\ Cardinality(Credits) \in Nat
      BY <1>1, <3>3, CreditedIsNat, FS_CardinalityType DEF WalletInv
    <3>6. wallet' = Credited * (Cardinality(Credits) + 1)
      BY <3>1, <3>5, OneMoreCredit
    <3> QED BY <3>4, <3>6 DEF WalletInv, Credited
  <2>2. CASE credits[d] # 0
    BY <1>1, <1>3, <2>2 DEF LedgerUnchanged, WalletInv, Credits, Credited
  <2> QED BY <2>1, <2>2
<1>6. ASSUME NEW t \in Transfers PROVE TransferInv(t)'
  <2>1. TransferInv(t) /\ sweep[t] \in SweepRow /\ treasury[t] \in TreasuryRow
    BY <1>1 DEF DepositInv, DepositTypeOK
  <2>2. JobInv(j)
    BY DEF DepositInv
  <2> QED BY <1>1, <1>2, <1>3, <2>1, <2>2 DEF TransferInv, JobInv, JobIs, SweepIs, LedgerUnchanged,
     BankUnchanged, SweepRow, TreasuryRow, DepositTypeOK, Executes, At, Known, Subject
<1>7. ASSUME NEW k \in Jobs PROVE JobInv(k)'
  <2>1. JobInv(k) /\ (\A t \in Transfers : TransferInv(t)) /\ job[k].row \in InboxRows
    BY <1>1 DEF DepositInv, DepositTypeOK, JobState
  <2>2. JobInv(j) /\ \A l \in Jobs : ExecutesAlone(j, l)
    BY DEF DepositInv
  <2>3. CASE k = j
    BY <1>1, <1>2, <1>3, <2>1, <2>2, <2>3, RowOfTransfer, RowsExist DEF JobInv, TransferInv, JobIs,
       SweepIs, LedgerUnchanged, BankUnchanged, DepositTypeOK, TreasuryRow, Executes, At, Known,
       Subject
  <2>4. CASE k # j
    <3>1. job'[k] = job[k] /\ Subject(k) \in Transfers
      BY <1>3, <2>1, <2>4, RowOfTransfer DEF JobIs, Subject
    <3>2. Executes(k) /\ Subject(k) = d => credits[d] # 0
      BY <1>2, <2>1 DEF JobInv, TransferInv, Executes
    <3>3. LeavesAlone(k)
      BY <1>3, <3>1, <3>2 DEF LeavesAlone, SweepIs, LedgerUnchanged, BankUnchanged
    <3> QED BY <2>1, <3>1, <3>3, OtherRunStays
  <2> QED BY <2>3, <2>4
<1>8. (\A k, l \in Jobs : ExecutesAlone(k, l))'
  <2>1. \A k \in Jobs : Executes(k)' => Executes(k) /\ Subject(k)' = Subject(k)
    BY <1>3 DEF Executes, JobIs, Subject, At
  <2> QED BY <2>1, AloneStays DEF DepositInv
<1> QED BY <1>4, <1>5, <1>6, <1>7, <1>8 DEF DepositInv

LEMMA VerifySweepKeeps ==
    ASSUME DepositInv, NEW j \in Jobs, VerifySweep(j)
    PROVE  DepositInv'
<1> DEFINE d == Subject(j)
<1>1. DepositTypeOK /\ WalletInv
  BY DEF DepositInv
<1>2. d \in Transfers /\ job[j].row \in InboxRows
  BY <1>1, RowOfTransfer DEF DepositTypeOK, JobState, Subject
<1>3. /\ At(j, "verify") /\ job[j].row[2] = "debit"
      /\ JobIs(j, "apply", job[j].row, treasury[d].state)
      /\ LedgerUnchanged /\ BankUnchanged
      /\ UNCHANGED <<inbox, sweep, lost>>
  BY <1>1, <1>2, RunsMove, SweepsMove DEF VerifySweep, JobPcs, TreasuryRow, SweepStatuses
<1>4. DepositTypeOK'
  BY <1>1, <1>2, <1>3, DepositAssumption, CreditedIsNat DEF DepositTypeOK, JobIs, LedgerUnchanged,
     BankUnchanged
<1>5. WalletInv'
  BY <1>1, <1>3 DEF WalletInv, Credits, Credited, LedgerUnchanged
<1>6. ASSUME NEW t \in Transfers PROVE TransferInv(t)'
  <2>1. TransferInv(t) /\ sweep[t] \in SweepRow /\ treasury[t] \in TreasuryRow
    BY <1>1 DEF DepositInv, DepositTypeOK
  <2>2. JobInv(j)
    BY DEF DepositInv
  <2> QED BY <1>1, <1>2, <1>3, <2>1, <2>2 DEF TransferInv, JobInv, JobIs, LedgerUnchanged,
     BankUnchanged, SweepRow, TreasuryRow, DepositTypeOK, Executes, At, Known, Subject
<1>7. ASSUME NEW k \in Jobs PROVE JobInv(k)'
  <2>1. JobInv(k) /\ (\A t \in Transfers : TransferInv(t)) /\ job[k].row \in InboxRows
    BY <1>1 DEF DepositInv, DepositTypeOK, JobState
  <2>2. JobInv(j) /\ \A l \in Jobs : ExecutesAlone(j, l)
    BY DEF DepositInv
  <2>3. CASE k = j
    BY <1>1, <1>2, <1>3, <2>1, <2>2, <2>3, RowOfTransfer, RowsExist DEF JobInv, TransferInv, JobIs,
       LedgerUnchanged, BankUnchanged, DepositTypeOK, TreasuryRow, Executes, At, Known, Subject
  <2>4. CASE k # j
    BY <1>1, <1>2, <1>3, <2>1, <2>2, <2>4, RowOfTransfer DEF JobInv, TransferInv, ExecutesAlone,
       JobIs, LedgerUnchanged, BankUnchanged, DepositTypeOK, TreasuryRow, Executes, At, Known,
       Subject
  <2> QED BY <2>3, <2>4
<1>8. (\A k, l \in Jobs : ExecutesAlone(k, l))'
  <2>1. \A k \in Jobs : Executes(k)' => Executes(k) /\ Subject(k)' = Subject(k)
    BY <1>3 DEF Executes, JobIs, Subject, At
  <2> QED BY <2>1, AloneStays DEF DepositInv
<1> QED BY <1>4, <1>5, <1>6, <1>7, <1>8 DEF DepositInv

LEMMA ResolveKeeps ==
    ASSUME DepositInv, NEW j \in Jobs, Resolve(j)
    PROVE  DepositInv'
<1> DEFINE d == Subject(j)
<1>1. DepositTypeOK /\ WalletInv
  BY DEF DepositInv
<1>2. d \in Transfers /\ job[j].row \in InboxRows
  BY <1>1, RowOfTransfer DEF DepositTypeOK, JobState, Subject
<1>3. /\ At(j, "resolve")
      /\ JobIs(j, "post", job[j].row, job[j].data)
      /\ LedgerUnchanged /\ BankUnchanged
      /\ UNCHANGED <<inbox, sweep, lost>>
  BY <1>1, <1>2, RunsMove DEF Resolve, JobPcs, TransferStates
<1>4. DepositTypeOK'
  BY <1>1, <1>2, <1>3, DepositAssumption, CreditedIsNat DEF DepositTypeOK, JobIs, LedgerUnchanged,
     BankUnchanged
<1>5. WalletInv'
  BY <1>1, <1>3 DEF WalletInv, Credits, Credited, LedgerUnchanged
<1>6. ASSUME NEW t \in Transfers PROVE TransferInv(t)'
  <2>1. TransferInv(t) /\ sweep[t] \in SweepRow /\ treasury[t] \in TreasuryRow
    BY <1>1 DEF DepositInv, DepositTypeOK
  <2>2. JobInv(j)
    BY DEF DepositInv
  <2> QED BY <1>1, <1>2, <1>3, <2>1, <2>2 DEF TransferInv, JobInv, JobIs, LedgerUnchanged,
     BankUnchanged, SweepRow, TreasuryRow, DepositTypeOK, Executes, At, Known, Subject
<1>7. ASSUME NEW k \in Jobs PROVE JobInv(k)'
  <2>1. JobInv(k) /\ (\A t \in Transfers : TransferInv(t)) /\ job[k].row \in InboxRows
    BY <1>1 DEF DepositInv, DepositTypeOK, JobState
  <2>2. JobInv(j) /\ \A l \in Jobs : ExecutesAlone(j, l)
    BY DEF DepositInv
  <2>3. CASE k = j
    BY SMTT(30), <1>1, <1>2, <1>3, <2>1, <2>2, <2>3, RowOfTransfer, RowsExist DEF
       JobInv, TransferInv, JobIs,
       LedgerUnchanged, BankUnchanged, DepositTypeOK, TreasuryRow, Executes, At, Known, Subject
  <2>4. CASE k # j
    <3>1. job'[k] = job[k] /\ Subject(k) \in Transfers
      BY <1>3, <2>1, <2>4, RowOfTransfer DEF JobIs, Subject
    <3>2. LeavesAlone(k)
      BY <1>3, <3>1 DEF LeavesAlone, LedgerUnchanged, BankUnchanged
    <3> QED BY <2>1, <3>1, <3>2, OtherRunStays
  <2> QED BY <2>3, <2>4
<1>8. (\A k, l \in Jobs : ExecutesAlone(k, l))'
  <2>1. \A k \in Jobs : Executes(k)' => Executes(k) /\ Subject(k)' = Subject(k)
    BY <1>3 DEF Executes, JobIs, Subject, At
  <2> QED BY <2>1, AloneStays DEF DepositInv
<1> QED BY <1>4, <1>5, <1>6, <1>7, <1>8 DEF DepositInv

LEMMA RefusedKeeps ==
    ASSUME DepositInv, NEW j \in Jobs, Refused(j)
    PROVE  DepositInv'
<1> DEFINE d == Subject(j)
<1>1. DepositTypeOK /\ WalletInv
  BY DEF DepositInv
<1>2. d \in Transfers /\ job[j].row \in InboxRows
  BY <1>1, RowOfTransfer DEF DepositTypeOK, JobState, Subject
<1>3. /\ Executes(j)
      /\ JobIs(j, "idle", IdleJob.row, "none")
      /\ \/ SweepIs(d, "FAILED", sweep[d].named)
         \/ UNCHANGED sweep
      /\ LedgerUnchanged /\ BankUnchanged
      /\ UNCHANGED <<inbox, lost>>
  BY <1>1, <1>2, RunsMove, SweepsMove DEF Refused, JobPcs, TransferStates, SweepStatuses, Settled,
     Executes
<1>4. DepositTypeOK'
  BY <1>1, <1>2, <1>3, DepositAssumption, CreditedIsNat DEF DepositTypeOK, JobIs, SweepIs,
     LedgerUnchanged, BankUnchanged
<1>5. WalletInv'
  BY <1>1, <1>3 DEF WalletInv, Credits, Credited, LedgerUnchanged
<1>6. ASSUME NEW t \in Transfers PROVE TransferInv(t)'
  <2>1. TransferInv(t) /\ sweep[t] \in SweepRow /\ treasury[t] \in TreasuryRow
    BY <1>1 DEF DepositInv, DepositTypeOK
  <2>2. JobInv(j)
    BY DEF DepositInv
  <2>3. CASE t # d
    BY <1>3, <2>1, <2>3 DEF TransferInv, SweepIs, LedgerUnchanged, BankUnchanged
  <2>4. CASE t = d
    <3>1. treasury[d].sent = 0 /\ sweep[d].status = "PROCESSING"
      BY <1>3, <2>2 DEF JobInv, Executes, Subject
    <3> QED BY <1>2, <1>3, <2>1, <2>4, <3>1 DEF TransferInv, SweepIs,
       LedgerUnchanged, BankUnchanged, SweepRow, TreasuryRow
  <2> QED BY <2>3, <2>4
<1>7. ASSUME NEW k \in Jobs PROVE JobInv(k)'
  <2>1. JobInv(k) /\ (\A t \in Transfers : TransferInv(t)) /\ job[k].row \in InboxRows
    BY <1>1 DEF DepositInv, DepositTypeOK, JobState
  <2>2. JobInv(j) /\ \A l \in Jobs : ExecutesAlone(j, l)
    BY DEF DepositInv
  <2>3. CASE k = j
    BY <1>1, <1>2, <1>3, <2>1, <2>2, <2>3, RowOfTransfer, RowsExist DEF JobInv, TransferInv, JobIs,
       SweepIs, LedgerUnchanged, BankUnchanged, DepositTypeOK, TreasuryRow, Executes, At, Known,
       Subject
  <2>4. CASE k # j
    <3>1. job'[k] = job[k] /\ Subject(k) \in Transfers
      BY <1>3, <2>1, <2>4, RowOfTransfer DEF JobIs, Subject
    <3>2. Executes(k) => Subject(k) # d
      BY <1>3, <2>2, <2>4 DEF ExecutesAlone, Executes, At
    <3>3. LeavesAlone(k)
      BY <1>3, <3>1, <3>2 DEF LeavesAlone, SweepIs, LedgerUnchanged, BankUnchanged
    <3> QED BY <2>1, <3>1, <3>3, OtherRunStays
  <2> QED BY <2>3, <2>4
<1>8. (\A k, l \in Jobs : ExecutesAlone(k, l))'
  <2>1. \A k \in Jobs : Executes(k)' => Executes(k) /\ Subject(k)' = Subject(k)
    BY <1>3 DEF Executes, JobIs, Subject
  <2> QED BY <2>1, AloneStays DEF DepositInv
<1> QED BY <1>4, <1>5, <1>6, <1>7, <1>8 DEF DepositInv

LEMMA TransferKeeps ==
    ASSUME DepositInv, NEW j \in Jobs, Transfer(j)
    PROVE  DepositInv'
<1> DEFINE d == Subject(j)
<1>1. DepositTypeOK /\ WalletInv
  BY DEF DepositInv
<1>2. d \in Transfers /\ job[j].row \in InboxRows
  BY <1>1, RowOfTransfer DEF DepositTypeOK, JobState, Subject
<1>3. /\ At(j, "post")
      /\ JobIs(j, "record", job[j].row, "Pending")
      /\ TreasuryIs(d, treasury[d].sent + 1, "Pending")
      /\ LedgerUnchanged /\ UNCHANGED <<inward, inbox, sweep, lost>>
  BY <1>1, <1>2, RunsMove, SweepsMove DEF Transfer, JobPcs, TransferStates, SweepStatuses
<1>4. DepositTypeOK'
  BY <1>1, <1>2, <1>3, DepositAssumption, CreditedIsNat DEF DepositTypeOK, JobIs, TreasuryIs,
     LedgerUnchanged
<1>5. WalletInv'
  BY <1>1, <1>3 DEF WalletInv, Credits, Credited, LedgerUnchanged
<1>6. ASSUME NEW t \in Transfers PROVE TransferInv(t)'
  <2>1. TransferInv(t) /\ sweep[t] \in SweepRow /\ treasury[t] \in TreasuryRow
    BY <1>1 DEF DepositInv, DepositTypeOK
  <2>2. JobInv(j)
    BY DEF DepositInv
  <2> QED BY <1>1, <1>2, <1>3, <2>1, <2>2 DEF TransferInv, JobInv, JobIs, TreasuryIs,
     LedgerUnchanged, SweepRow, TreasuryRow, DepositTypeOK, Executes, At, Known, Subject
<1>7. ASSUME NEW k \in Jobs PROVE JobInv(k)'
  <2>1. JobInv(k) /\ (\A t \in Transfers : TransferInv(t)) /\ job[k].row \in InboxRows
    BY <1>1 DEF DepositInv, DepositTypeOK, JobState
  <2>2. JobInv(j) /\ \A l \in Jobs : ExecutesAlone(j, l)
    BY DEF DepositInv
  <2>3. CASE k = j
    BY SMTT(30), <1>1, <1>2, <1>3, <2>1, <2>2, <2>3, RowOfTransfer, RowsExist DEF
       JobInv, TransferInv, JobIs,
       TreasuryIs, LedgerUnchanged, DepositTypeOK, TreasuryRow, Executes, At, Known, Subject
  <2>4. CASE k # j
    <3>1. job'[k] = job[k] /\ Subject(k) \in Transfers
      BY <1>3, <2>1, <2>4, RowOfTransfer DEF JobIs, Subject
    <3>2. Executes(k) => Subject(k) # d
      BY <1>3, <2>2, <2>4 DEF ExecutesAlone, Executes, At
    <3>3. treasury[d].sent = 0 /\ treasury[d].state = "none"
      BY <1>2, <1>3, <2>1, <2>2 DEF JobInv, TransferInv, Executes, At
    <3>4. LeavesAlone(k)
      BY <1>3, <3>1, <3>2, <3>3 DEF LeavesAlone, Known, TreasuryIs, LedgerUnchanged
    <3> QED BY <2>1, <3>1, <3>4, OtherRunStays
  <2> QED BY <2>3, <2>4
<1>8. (\A k, l \in Jobs : ExecutesAlone(k, l))'
  <2>1. \A k \in Jobs : Executes(k)' => Executes(k) /\ Subject(k)' = Subject(k)
    BY <1>3 DEF Executes, JobIs, Subject, At
  <2> QED BY <2>1, AloneStays DEF DepositInv
<1> QED BY <1>4, <1>5, <1>6, <1>7, <1>8 DEF DepositInv

LEMMA SweepUncertainKeeps ==
    ASSUME DepositInv, NEW j \in Jobs, SweepUncertain(j)
    PROVE  DepositInv'
<1> DEFINE d == Subject(j)
<1>1. DepositTypeOK /\ WalletInv
  BY DEF DepositInv
<1>2. d \in Transfers /\ job[j].row \in InboxRows
  BY <1>1, RowOfTransfer DEF DepositTypeOK, JobState, Subject
<1>3. /\ Executes(j)
      /\ JobIs(j, "idle", IdleJob.row, "none")
      /\ \/ UNCHANGED treasury
         \/ TreasuryIs(d, treasury[d].sent + 1, "Pending")
      /\ SweepIs(d, "UNKNOWN", sweep[d].named)
      /\ Loses
      /\ LedgerUnchanged /\ UNCHANGED <<inward, inbox>>
  BY <1>1, <1>2, RunsMove, SweepsMove DEF SweepUncertain, JobPcs, TransferStates, SweepStatuses,
     Executes, At, DepositInv, JobInv, Loses
<1>4. DepositTypeOK'
  BY <1>1, <1>2, <1>3, DepositAssumption, CreditedIsNat DEF DepositTypeOK, JobIs, SweepIs,
     TreasuryIs, LedgerUnchanged, Loses
<1>5. WalletInv'
  BY <1>1, <1>3 DEF WalletInv, Credits, Credited, LedgerUnchanged
<1>6. ASSUME NEW t \in Transfers PROVE TransferInv(t)'
  <2>1. TransferInv(t) /\ sweep[t] \in SweepRow /\ treasury[t] \in TreasuryRow
    BY <1>1 DEF DepositInv, DepositTypeOK
  <2>2. JobInv(j)
    BY DEF DepositInv
  <2>3. CASE t # d
    BY <1>3, <2>1, <2>3 DEF TransferInv, SweepIs, TreasuryIs, LedgerUnchanged
  <2>4. CASE t = d
    <3>1. treasury[d].sent = 0 /\ sweep[d].status = "PROCESSING"
      BY <1>3, <2>2 DEF JobInv, Executes, Subject
    <3> QED BY <1>2, <1>3, <2>1, <2>4, <3>1 DEF TransferInv, SweepIs,
       TreasuryIs, LedgerUnchanged, SweepRow, TreasuryRow
  <2> QED BY <2>3, <2>4
<1>7. ASSUME NEW k \in Jobs PROVE JobInv(k)'
  <2>1. JobInv(k) /\ (\A t \in Transfers : TransferInv(t)) /\ job[k].row \in InboxRows
    BY <1>1 DEF DepositInv, DepositTypeOK, JobState
  <2>2. JobInv(j) /\ \A l \in Jobs : ExecutesAlone(j, l)
    BY DEF DepositInv
  <2>3. CASE k = j
    BY <1>1, <1>2, <1>3, <2>1, <2>2, <2>3, RowOfTransfer, RowsExist DEF JobInv, TransferInv, JobIs,
       SweepIs, TreasuryIs, LedgerUnchanged, DepositTypeOK, TreasuryRow, Executes, At, Known,
       Subject
  <2>4. CASE k # j
    <3>1. job'[k] = job[k] /\ Subject(k) \in Transfers
      BY <1>3, <2>1, <2>4, RowOfTransfer DEF JobIs, Subject
    <3>2. Executes(k) => Subject(k) # d
      BY <1>3, <2>2, <2>4 DEF ExecutesAlone, Executes, At
    <3>3. treasury[d].sent = 0 /\ treasury[d].state = "none"
      BY <1>2, <1>3, <2>1, <2>2 DEF JobInv, TransferInv, Executes, At
    <3>4. LeavesAlone(k)
      BY <1>3, <3>1, <3>2, <3>3 DEF LeavesAlone, Known, SweepIs, TreasuryIs, LedgerUnchanged
    <3> QED BY <2>1, <3>1, <3>4, OtherRunStays
  <2> QED BY <2>3, <2>4
<1>8. (\A k, l \in Jobs : ExecutesAlone(k, l))'
  <2>1. \A k \in Jobs : Executes(k)' => Executes(k) /\ Subject(k)' = Subject(k)
    BY <1>3 DEF Executes, JobIs, Subject
  <2> QED BY <2>1, AloneStays DEF DepositInv
<1> QED BY <1>4, <1>5, <1>6, <1>7, <1>8 DEF DepositInv

LEMMA RecordReferenceKeeps ==
    ASSUME DepositInv, NEW j \in Jobs, RecordReference(j)
    PROVE  DepositInv'
<1> DEFINE d == Subject(j)
<1>1. DepositTypeOK /\ WalletInv
  BY DEF DepositInv
<1>2. d \in Transfers /\ job[j].row \in InboxRows
  BY <1>1, RowOfTransfer DEF DepositTypeOK, JobState, Subject
<1>3. /\ At(j, "record")
      /\ JobIs(j, "settle", job[j].row, job[j].data)
      /\ SweepIs(d, "PENDING", TRUE)
      /\ LedgerUnchanged /\ BankUnchanged
      /\ UNCHANGED <<inbox, lost>>
  BY <1>1, <1>2, RunsMove, SweepsMove DEF RecordReference, JobPcs, TransferStates, SweepStatuses
<1>4. DepositTypeOK'
  BY <1>1, <1>2, <1>3, DepositAssumption, CreditedIsNat DEF DepositTypeOK, JobIs, SweepIs,
     LedgerUnchanged, BankUnchanged
<1>5. WalletInv'
  BY <1>1, <1>3 DEF WalletInv, Credits, Credited, LedgerUnchanged
<1>6. ASSUME NEW t \in Transfers PROVE TransferInv(t)'
  <2>1. TransferInv(t) /\ sweep[t] \in SweepRow /\ treasury[t] \in TreasuryRow
    BY <1>1 DEF DepositInv, DepositTypeOK
  <2>2. JobInv(j)
    BY DEF DepositInv
  <2>3. CASE t # d
    BY <1>3, <2>1, <2>3 DEF TransferInv, SweepIs, LedgerUnchanged, BankUnchanged
  <2>4. CASE t = d
    <3>1. treasury[d].sent = 1
      BY <1>3, <2>2 DEF JobInv, At, Subject
    <3> QED BY <1>2, <1>3, <2>1, <2>4, <3>1 DEF TransferInv, SweepIs,
       LedgerUnchanged, BankUnchanged, SweepRow, TreasuryRow
  <2> QED BY <2>3, <2>4
<1>7. ASSUME NEW k \in Jobs PROVE JobInv(k)'
  <2>1. JobInv(k) /\ (\A t \in Transfers : TransferInv(t)) /\ job[k].row \in InboxRows
    BY <1>1 DEF DepositInv, DepositTypeOK, JobState
  <2>2. JobInv(j) /\ \A l \in Jobs : ExecutesAlone(j, l)
    BY DEF DepositInv
  <2>3. CASE k = j
    BY <1>1, <1>2, <1>3, <2>1, <2>2, <2>3, RowOfTransfer, RowsExist DEF JobInv, TransferInv, JobIs,
       SweepIs, LedgerUnchanged, BankUnchanged, DepositTypeOK, TreasuryRow, Executes, At, Known,
       Subject
  <2>4. CASE k # j
    <3>1. job'[k] = job[k] /\ Subject(k) \in Transfers
      BY <1>3, <2>1, <2>4, RowOfTransfer DEF JobIs, Subject
    <3>2. Executes(k) => Subject(k) # d
      BY <1>3, <2>1, <2>2 DEF JobInv, Executes, At
    <3>3. LeavesAlone(k)
      BY <1>3, <3>1, <3>2 DEF LeavesAlone, SweepIs, LedgerUnchanged, BankUnchanged
    <3> QED BY <2>1, <3>1, <3>3, OtherRunStays
  <2> QED BY <2>3, <2>4
<1>8. (\A k, l \in Jobs : ExecutesAlone(k, l))'
  <2>1. \A k \in Jobs : Executes(k)' => Executes(k) /\ Subject(k)' = Subject(k)
    BY <1>3 DEF Executes, JobIs, Subject, At
  <2> QED BY <2>1, AloneStays DEF DepositInv
<1> QED BY <1>4, <1>5, <1>6, <1>7, <1>8 DEF DepositInv

LEMMA SettleKeeps ==
    ASSUME DepositInv, NEW j \in Jobs, Settle(j)
    PROVE  DepositInv'
<1> DEFINE d == Subject(j)
<1>1. DepositTypeOK /\ WalletInv
  BY DEF DepositInv
<1>2. d \in Transfers /\ job[j].row \in InboxRows
  BY <1>1, RowOfTransfer DEF DepositTypeOK, JobState, Subject
<1>3. /\ job[j].pc \in {"settle", "apply"}
      /\ \/ JobIs(j, "acknowledge", job[j].row, job[j].data)
         \/ JobIs(j, "idle", IdleJob.row, "none")
      /\ SweepIs(d, SweepStatus(job[j].data), sweep[d].named)
      /\ LedgerUnchanged /\ BankUnchanged
      /\ UNCHANGED <<inbox, lost>>
  BY <1>1, <1>2, RunsMove, SweepsMove DEF Settle, SettleSweep, JobPcs, TransferStates,
     SweepStatuses, Settled, SweepStatus
<1>4. DepositTypeOK'
  BY <1>1, <1>2, <1>3, DepositAssumption, CreditedIsNat DEF DepositTypeOK, JobIs, SweepIs,
     LedgerUnchanged, BankUnchanged
<1>5. WalletInv'
  BY <1>1, <1>3 DEF WalletInv, Credits, Credited, LedgerUnchanged
<1>6. ASSUME NEW t \in Transfers PROVE TransferInv(t)'
  <2>1. TransferInv(t) /\ sweep[t] \in SweepRow /\ treasury[t] \in TreasuryRow
    BY <1>1 DEF DepositInv, DepositTypeOK
  <2>2. JobInv(j)
    BY DEF DepositInv
  <2> QED BY <1>1, <1>2, <1>3, <2>1, <2>2 DEF TransferInv, JobInv, JobIs, SweepIs, LedgerUnchanged,
     BankUnchanged, SweepRow, TreasuryRow, DepositTypeOK, Executes, At, Known, SweepStatus, Subject
<1>7. ASSUME NEW k \in Jobs PROVE JobInv(k)'
  <2>1. JobInv(k) /\ (\A t \in Transfers : TransferInv(t)) /\ job[k].row \in InboxRows
    BY <1>1 DEF DepositInv, DepositTypeOK, JobState
  <2>2. JobInv(j) /\ \A l \in Jobs : ExecutesAlone(j, l)
    BY DEF DepositInv
  <2>3. CASE k = j
    BY SMTT(30), <1>1, <1>2, <1>3, <2>1, <2>2, <2>3, RowOfTransfer, RowsExist DEF
       JobInv, TransferInv, JobIs,
       SweepIs, LedgerUnchanged, BankUnchanged, DepositTypeOK, TreasuryRow, Executes, At, Known,
       Subject
  <2>4. CASE k # j
    <3>1. job'[k] = job[k] /\ Subject(k) \in Transfers
      BY <1>3, <2>1, <2>4, RowOfTransfer DEF JobIs, Subject
    <3>2. Executes(k) => Subject(k) # d
      BY <1>3, <2>1, <2>2 DEF JobInv, Executes, At
    <3>3. LeavesAlone(k)
      BY <1>3, <3>1, <3>2 DEF LeavesAlone, SweepIs, LedgerUnchanged, BankUnchanged
    <3> QED BY <2>1, <3>1, <3>3, OtherRunStays
  <2> QED BY <2>3, <2>4
<1>8. (\A k, l \in Jobs : ExecutesAlone(k, l))'
  <2>1. \A k \in Jobs : Executes(k)' => Executes(k) /\ Subject(k)' = Subject(k)
    BY <1>3 DEF Executes, JobIs, Subject
  <2> QED BY <2>1, AloneStays DEF DepositInv
<1> QED BY <1>4, <1>5, <1>6, <1>7, <1>8 DEF DepositInv

LEMMA AcknowledgeKeeps ==
    ASSUME DepositInv, NEW j \in Jobs, Acknowledge(j)
    PROVE  DepositInv'
<1> DEFINE d == Subject(j)
<1>1. DepositTypeOK /\ WalletInv
  BY DEF DepositInv
<1>2. d \in Transfers /\ job[j].row \in InboxRows
  BY <1>1, RowOfTransfer DEF DepositTypeOK, JobState, Subject
<1>3. /\ At(j, "acknowledge")
      /\ JobIs(j, "idle", IdleJob.row, "none")
      /\ inbox' = [inbox EXCEPT ![job[j].row] = "PROCESSED"]
      /\ LedgerUnchanged /\ BankUnchanged
      /\ UNCHANGED <<sweep, lost>>
  BY <1>1, <1>2, RunsMove DEF Acknowledge, RowFails, JobPcs, TransferStates
<1>4. DepositTypeOK'
  BY <1>1, <1>2, <1>3, DepositAssumption, CreditedIsNat DEF DepositTypeOK, JobIs, LedgerUnchanged,
     BankUnchanged
<1>5. WalletInv'
  BY <1>1, <1>3 DEF WalletInv, Credits, Credited, LedgerUnchanged
<1>6. ASSUME NEW t \in Transfers PROVE TransferInv(t)'
  <2>1. TransferInv(t) /\ sweep[t] \in SweepRow /\ treasury[t] \in TreasuryRow
    BY <1>1 DEF DepositInv, DepositTypeOK
  <2>2. JobInv(j)
    BY DEF DepositInv
  <2> QED BY <1>1, <1>2, <1>3, <2>1, <2>2 DEF TransferInv, JobInv, JobIs, LedgerUnchanged,
     BankUnchanged, SweepRow, TreasuryRow, DepositTypeOK, Executes, At, Known, Subject
<1>7. ASSUME NEW k \in Jobs PROVE JobInv(k)'
  <2>1. JobInv(k) /\ (\A t \in Transfers : TransferInv(t)) /\ job[k].row \in InboxRows
    BY <1>1 DEF DepositInv, DepositTypeOK, JobState
  <2>2. JobInv(j) /\ \A l \in Jobs : ExecutesAlone(j, l)
    BY DEF DepositInv
  <2>3. CASE k = j
    BY <1>1, <1>2, <1>3, <2>1, <2>2, <2>3, RowOfTransfer, RowsExist DEF JobInv, TransferInv, JobIs,
       LedgerUnchanged, BankUnchanged, DepositTypeOK, TreasuryRow, Executes, At, Known, Subject
  <2>4. CASE k # j
    BY <1>1, <1>2, <1>3, <2>1, <2>2, <2>4, RowOfTransfer DEF JobInv, TransferInv, ExecutesAlone,
       JobIs, LedgerUnchanged, BankUnchanged, DepositTypeOK, TreasuryRow, Executes, At, Known,
       Subject
  <2> QED BY <2>3, <2>4
<1>8. (\A k, l \in Jobs : ExecutesAlone(k, l))'
  <2>1. \A k \in Jobs : Executes(k)' => Executes(k) /\ Subject(k)' = Subject(k)
    BY <1>3 DEF Executes, JobIs, Subject, At
  <2> QED BY <2>1, AloneStays DEF DepositInv
<1> QED BY <1>4, <1>5, <1>6, <1>7, <1>8 DEF DepositInv

LEMMA DiscoverKeeps ==
    ASSUME DepositInv, NEW j \in Jobs, Discover(j)
    PROVE  DepositInv'
<1> DEFINE d == Subject(j)
<1>1. DepositTypeOK /\ WalletInv
  BY DEF DepositInv
<1>2. d \in Transfers /\ job[j].row \in InboxRows
  BY <1>1, RowOfTransfer DEF DepositTypeOK, JobState, Subject
<1>3. /\ \/ /\ treasury[d].sent = 1 /\ JobIs(j, "query", job[j].row, job[j].data)
            /\ SweepIs(d, sweep[d].status, TRUE)
         \/ JobIs(j, "idle", IdleJob.row, "none") /\ UNCHANGED sweep
      /\ LedgerUnchanged /\ BankUnchanged
      /\ UNCHANGED <<inbox, lost>>
  BY <1>1, <1>2, RunsMove, SweepsMove DEF Discover, JobPcs, TransferStates, SweepStatuses
<1>4. DepositTypeOK'
  BY <1>1, <1>2, <1>3, DepositAssumption, CreditedIsNat DEF DepositTypeOK, JobIs, SweepIs,
     LedgerUnchanged, BankUnchanged
<1>5. WalletInv'
  BY <1>1, <1>3 DEF WalletInv, Credits, Credited, LedgerUnchanged
<1>6. ASSUME NEW t \in Transfers PROVE TransferInv(t)'
  <2>1. TransferInv(t) /\ sweep[t] \in SweepRow /\ treasury[t] \in TreasuryRow
    BY <1>1 DEF DepositInv, DepositTypeOK
  <2>2. JobInv(j)
    BY DEF DepositInv
  <2> QED BY <1>1, <1>2, <1>3, <2>1, <2>2 DEF TransferInv, JobInv, JobIs, SweepIs, LedgerUnchanged,
     BankUnchanged, SweepRow, TreasuryRow, DepositTypeOK, Executes, At, Known, Subject
<1>7. ASSUME NEW k \in Jobs PROVE JobInv(k)'
  <2>1. JobInv(k) /\ (\A t \in Transfers : TransferInv(t)) /\ job[k].row \in InboxRows
    BY <1>1 DEF DepositInv, DepositTypeOK, JobState
  <2>2. JobInv(j) /\ \A l \in Jobs : ExecutesAlone(j, l)
    BY DEF DepositInv
  <2>3. CASE k = j
    <3>1. CASE /\ treasury[d].sent = 1 /\ JobIs(j, "query", job[j].row, job[j].data)
               /\ UNCHANGED treasury
      BY <2>3, <3>1 DEF JobInv, JobIs, At, Executes, Subject
    <3>2. CASE JobIs(j, "idle", IdleJob.row, "none")
      BY <2>3, <3>2 DEF JobInv, JobIs, At, Executes, Subject
    <3> QED BY <1>3, <3>1, <3>2 DEF BankUnchanged
  <2>4. CASE k # j
    <3>1. job'[k] = job[k] /\ Subject(k) \in Transfers
      BY <1>3, <2>1, <2>4, RowOfTransfer DEF JobIs, Subject
    <3>2. Executes(k) /\ Subject(k) = d => sweep'[d].status = sweep[d].status
      BY <1>3 DEF SweepIs
    <3>3. LeavesAlone(k)
      BY <1>3, <3>1, <3>2 DEF LeavesAlone, SweepIs, LedgerUnchanged, BankUnchanged
    <3> QED BY <2>1, <3>1, <3>3, OtherRunStays
  <2> QED BY <2>3, <2>4
<1>8. (\A k, l \in Jobs : ExecutesAlone(k, l))'
  <2>1. \A k \in Jobs : Executes(k)' => Executes(k) /\ Subject(k)' = Subject(k)
    BY <1>3 DEF Executes, JobIs, Subject
  <2> QED BY <2>1, AloneStays DEF DepositInv
<1> QED BY <1>4, <1>5, <1>6, <1>7, <1>8 DEF DepositInv

LEMMA QueryTransferKeeps ==
    ASSUME DepositInv, NEW j \in Jobs, QueryTransfer(j)
    PROVE  DepositInv'
<1> DEFINE d == Subject(j)
<1>1. DepositTypeOK /\ WalletInv
  BY DEF DepositInv
<1>2. d \in Transfers /\ job[j].row \in InboxRows
  BY <1>1, RowOfTransfer DEF DepositTypeOK, JobState, Subject
<1>3. /\ At(j, "query")
      /\ JobIs(j, "settle", job[j].row, treasury[d].state)
      /\ LedgerUnchanged /\ BankUnchanged
      /\ UNCHANGED <<inbox, sweep, lost>>
  BY <1>1, <1>2, RunsMove, SweepsMove DEF QueryTransfer, JobPcs, TreasuryRow, SweepStatuses
<1>4. DepositTypeOK'
  BY <1>1, <1>2, <1>3, DepositAssumption, CreditedIsNat DEF DepositTypeOK, JobIs, LedgerUnchanged,
     BankUnchanged
<1>5. WalletInv'
  BY <1>1, <1>3 DEF WalletInv, Credits, Credited, LedgerUnchanged
<1>6. ASSUME NEW t \in Transfers PROVE TransferInv(t)'
  <2>1. TransferInv(t) /\ sweep[t] \in SweepRow /\ treasury[t] \in TreasuryRow
    BY <1>1 DEF DepositInv, DepositTypeOK
  <2>2. JobInv(j)
    BY DEF DepositInv
  <2> QED BY <1>1, <1>2, <1>3, <2>1, <2>2 DEF TransferInv, JobInv, JobIs, LedgerUnchanged,
     BankUnchanged, SweepRow, TreasuryRow, DepositTypeOK, Executes, At, Known, Subject
<1>7. ASSUME NEW k \in Jobs PROVE JobInv(k)'
  <2>1. JobInv(k) /\ (\A t \in Transfers : TransferInv(t)) /\ job[k].row \in InboxRows
    BY <1>1 DEF DepositInv, DepositTypeOK, JobState
  <2>2. JobInv(j) /\ \A l \in Jobs : ExecutesAlone(j, l)
    BY DEF DepositInv
  <2>3. CASE k = j
    BY <1>1, <1>2, <1>3, <2>1, <2>2, <2>3, RowOfTransfer, RowsExist DEF JobInv, TransferInv, JobIs,
       LedgerUnchanged, BankUnchanged, DepositTypeOK, TreasuryRow, Executes, At, Known, Subject
  <2>4. CASE k # j
    BY <1>1, <1>2, <1>3, <2>1, <2>2, <2>4, RowOfTransfer DEF JobInv, TransferInv, ExecutesAlone,
       JobIs, LedgerUnchanged, BankUnchanged, DepositTypeOK, TreasuryRow, Executes, At, Known,
       Subject
  <2> QED BY <2>3, <2>4
<1>8. (\A k, l \in Jobs : ExecutesAlone(k, l))'
  <2>1. \A k \in Jobs : Executes(k)' => Executes(k) /\ Subject(k)' = Subject(k)
    BY <1>3 DEF Executes, JobIs, Subject, At
  <2> QED BY <2>1, AloneStays DEF DepositInv
<1> QED BY <1>4, <1>5, <1>6, <1>7, <1>8 DEF DepositInv

LEMMA JobStopsKeeps ==
    ASSUME DepositInv, NEW j \in Jobs, JobStops(j)
    PROVE  DepositInv'
<1> DEFINE d == Subject(j)
<1>1. DepositTypeOK /\ WalletInv
  BY DEF DepositInv
<1>2. d \in Transfers /\ job[j].row \in InboxRows
  BY <1>1, RowOfTransfer DEF DepositTypeOK, JobState, Subject
<1>3. /\ JobIs(j, "idle", IdleJob.row, "none")
      /\ Loses
      /\ LedgerUnchanged /\ BankUnchanged
      /\ UNCHANGED <<inbox, sweep>>
  BY <1>1, <1>2, RunsMove DEF JobStops, JobPcs, TransferStates
<1>4. DepositTypeOK'
  BY <1>1, <1>2, <1>3, DepositAssumption, CreditedIsNat DEF DepositTypeOK, JobIs, LedgerUnchanged,
     BankUnchanged, Loses
<1>5. WalletInv'
  BY <1>1, <1>3 DEF WalletInv, Credits, Credited, LedgerUnchanged
<1>6. ASSUME NEW t \in Transfers PROVE TransferInv(t)'
  <2>1. TransferInv(t) /\ sweep[t] \in SweepRow /\ treasury[t] \in TreasuryRow
    BY <1>1 DEF DepositInv, DepositTypeOK
  <2>2. JobInv(j)
    BY DEF DepositInv
  <2> QED BY <1>1, <1>2, <1>3, <2>1, <2>2 DEF TransferInv, JobInv, JobIs, LedgerUnchanged,
     BankUnchanged, SweepRow, TreasuryRow, DepositTypeOK, Executes, At, Known, Subject
<1>7. ASSUME NEW k \in Jobs PROVE JobInv(k)'
  <2>1. JobInv(k) /\ (\A t \in Transfers : TransferInv(t)) /\ job[k].row \in InboxRows
    BY <1>1 DEF DepositInv, DepositTypeOK, JobState
  <2>2. JobInv(j) /\ \A l \in Jobs : ExecutesAlone(j, l)
    BY DEF DepositInv
  <2>3. CASE k = j
    BY <1>1, <1>2, <1>3, <2>1, <2>2, <2>3, RowOfTransfer, RowsExist DEF JobInv, TransferInv, JobIs,
       LedgerUnchanged, BankUnchanged, DepositTypeOK, TreasuryRow, Executes, At, Known, Subject
  <2>4. CASE k # j
    <3>1. job'[k] = job[k] /\ Subject(k) \in Transfers
      BY <1>3, <2>1, <2>4, RowOfTransfer DEF JobIs, Subject
    <3>2. LeavesAlone(k)
      BY <1>3, <3>1 DEF LeavesAlone, LedgerUnchanged, BankUnchanged
    <3> QED BY <2>1, <3>1, <3>2, OtherRunStays
  <2> QED BY <2>3, <2>4
<1>8. (\A k, l \in Jobs : ExecutesAlone(k, l))'
  <2>1. \A k \in Jobs : Executes(k)' => Executes(k) /\ Subject(k)' = Subject(k)
    BY <1>3 DEF Executes, JobIs, Subject
  <2> QED BY <2>1, AloneStays DEF DepositInv
<1> QED BY <1>4, <1>5, <1>6, <1>7, <1>8 DEF DepositInv

LEMMA NextKeeps == DepositInv /\ [DepositNext]_depositVars => DepositInv'
<1> SUFFICES ASSUME DepositInv, [DepositNext]_depositVars PROVE DepositInv'
  OBVIOUS
<1>1. CASE UNCHANGED depositVars
  BY SMTT(30), <1>1 DEF depositVars, DepositInv, DepositTypeOK, WalletInv, Credits, TransferInv, JobInv,
     Known, ExecutesAlone, Executes, At, Subject
<1>2. ASSUME NEW d \in Transfers, InwardProgress(d) \/ TreasuryProgress(d) \/ LeaseLapses(d)
      PROVE  DepositInv'
  BY <1>2, InwardProgressKeeps, TreasuryProgressKeeps, LeaseLapsesKeeps
<1>3. ASSUME NEW row \in InboxRows, Receive(row) \/ RetryRow(row) PROVE DepositInv'
  BY <1>3, ReceiveKeeps, RetryRowKeeps
<1>4. ASSUME NEW j \in Jobs, NEW row \in InboxRows, PickRow(j, row) PROVE DepositInv'
  BY <1>4, PickRowKeeps
<1>5. ASSUME NEW j \in Jobs, NEW d \in Transfers, Claim(j, d) \/ PickSweep(j, d) PROVE DepositInv'
  BY <1>5, ClaimKeeps, PickSweepKeeps
<1>6. ASSUME NEW j \in Jobs,
             \/ VerifyDeposit(j) \/ QueryLost(j) \/ Credit(j) \/ VerifySweep(j)
             \/ Resolve(j) \/ Refused(j) \/ Transfer(j) \/ SweepUncertain(j) \/ RecordReference(j)
             \/ Settle(j) \/ Acknowledge(j) \/ Discover(j) \/ QueryTransfer(j) \/ JobStops(j)
      PROVE  DepositInv'
  BY <1>6, VerifyDepositKeeps, QueryLostKeeps, CreditKeeps, VerifySweepKeeps, ResolveKeeps,
     RefusedKeeps, TransferKeeps, SweepUncertainKeeps, RecordReferenceKeeps, SettleKeeps,
     AcknowledgeKeeps, DiscoverKeeps, QueryTransferKeeps, JobStopsKeeps
<1> QED BY <1>1, <1>2, <1>3, <1>4, <1>5, <1>6 DEF DepositNext

\* The inductive invariant of the deposits: what transfers, rows and runs say of each other.
THEOREM DepositInvariant == DepositSpec => []DepositInv
  BY InitInv, NextKeeps, PTL DEF DepositSpec

\* Type correctness of the deposits: transfers, the inbox, sweeps and the runs of the jobs.
THEOREM DepositTypes == DepositSpec => []DepositTypeOK
<1>1. DepositInv => DepositTypeOK
  BY DEF DepositInv
<1> QED BY <1>1, DepositInvariant, PTL

\* FinanceEvents.bankEvent (finance-events.service.ts): however many webhooks, retries and runs
\* handle them, each completed transfer is in the wallet exactly once and has its one SWEEP.
THEOREM CreditedOnce == DepositSpec => []DepositCreditedOnce
<1>1. DepositInv => DepositCreditedOnce
  BY DEF DepositInv, DepositTypeOK, WalletInv, Credits, TransferInv, DepositCreditedOnce
<1> QED BY <1>1, DepositInvariant, PTL

\* FinanceWorker.sweep and settleSweep: a deposit is swept by at most one transfer, and a
\* settled status is one that the transfer had, though settleSweep looks at nothing before it
\* writes.
THEOREM SweepIsTrue == DepositSpec => []SweepTellsTheTruth
<1>1. DepositInv => SweepTellsTheTruth
  BY DEF DepositInv, DepositTypeOK, TreasuryRow, SweepRow, TransferInv, SweepTellsTheTruth
<1> QED BY <1>1, DepositInvariant, PTL

(***************************************************************************)
(* Payin is implemented.  What shows of a step: Told goes to what is true  *)
(* of the transfer, one POST moves the money, one credit fills the wallet. *)
(***************************************************************************)
Ended(status) == IF status \in Settled \cup {"none"} THEN status ELSE "open"

LEMMA ToldIs == \A d : Told(d) = Ended(sweep[d].status) /\ Told(d)' = Ended(sweep'[d].status)
  BY DEF Told, Ended

LEMMA MovedIs ==
    ASSUME DepositInv, NEW d \in Transfers
    PROVE  /\ Moved(d) = treasury[d].state
           /\ treasury[d].sent = 0 <=> Moved(d) = "none"
           /\ d \in {t \in Transfers : credits[t] > 0} <=> sweep[d].status # "none"
  BY DEF DepositInv, DepositTypeOK, TransferInv, TreasuryRow, Moved

\* Rows and runs do not show.
LEMMA RunsAreHidden ==
    ASSUME LedgerUnchanged, BankUnchanged, \A d \in Transfers : Told(d)' = Told(d)
    PROVE  UNCHANGED I!payinVars
<1>1. \A d \in Transfers : Moved(d)' = Moved(d)
  BY DEF BankUnchanged, Moved
<1> QED BY <1>1 DEF I!payinVars, LedgerUnchanged, BankUnchanged

LEMMA SweepShows ==
    ASSUME DepositInv, NEW d \in Transfers, NEW status, NEW named, LedgerUnchanged, BankUnchanged,
           SweepIs(d, status, named), sweep[d].status # "none",
           Ended(status) = Told(d) \/ Ended(status) \in I!TruthOf(Moved(d))
    PROVE  I!Tell(d) \/ UNCHANGED I!payinVars
<1>1. \A t \in Transfers : Told(t)' = IF t = d THEN Ended(status) ELSE Told(t)
  BY ToldIs DEF SweepIs
<1>2. CASE Ended(status) = Told(d)
  BY <1>1, <1>2, RunsAreHidden
<1>3. CASE Ended(status) \in I!TruthOf(Moved(d))
  <2>1. [t \in Transfers |-> Told(t)]' = [[t \in Transfers |-> Told(t)] EXCEPT ![d] = Ended(status)]
    BY <1>1
  <2>2. Told(d) # "none"
    BY ToldIs DEF Ended, Settled
  <2>3. \A t \in Transfers : Moved(t)' = Moved(t)
    BY DEF BankUnchanged, Moved
  <2> QED BY <1>3, <2>1, <2>2, <2>3 DEF I!Tell, LedgerUnchanged, BankUnchanged
<1> QED BY <1>2, <1>3

\* The POST that Safe Haven takes.
LEMMA PostShows ==
    ASSUME DepositInv, NEW d \in Transfers, TreasuryIs(d, treasury[d].sent + 1, "Pending"),
           treasury[d].sent = 0, Told(d) = "open", \A t \in Transfers : Told(t)' = Told(t),
           LedgerUnchanged, UNCHANGED inward
    PROVE  I!Move(d)
<1>1. \A t \in Transfers : Moved(t)' = IF t = d THEN "Pending" ELSE Moved(t)
  BY DEF TreasuryIs, Moved
<1>2. [t \in Transfers |-> Moved(t)]' = [[t \in Transfers |-> Moved(t)] EXCEPT ![d] = "Pending"]
  BY <1>1
<1>3. Moved(d) = "none"
  BY MovedIs
<1> QED BY <1>2, <1>3 DEF I!Move, LedgerUnchanged

LEMMA BankShows ==
    ASSUME DepositInv, NEW d \in Transfers, InwardProgress(d) \/ TreasuryProgress(d)
    PROVE  I!Arrives(d) \/ I!GoesOn(d)
<1>1. CASE InwardProgress(d)
  <2>1. UNCHANGED <<wallet, credits, sweep, treasury>>
    BY <1>1 DEF InwardProgress, LedgerUnchanged
  <2>2. \A t \in Transfers : Moved(t)' = Moved(t) /\ Told(t)' = Told(t)
    BY <2>1 DEF Moved, Told
  <2>3. \E s \in {"Pending", "Completed", "Failed", "Reversed"} :
          /\ <<inward[d], s>> \in I!Course \cup {<<"none", "Pending">>}
          /\ inward' = [inward EXCEPT ![d] = s]
    BY <1>1 DEF InwardProgress, TransferStates, I!Course
  <2> QED BY <2>1, <2>2, <2>3 DEF I!Arrives
<1>2. CASE TreasuryProgress(d)
  <2>1. PICK s \in {"Completed", "Failed", "Reversed"} :
          /\ <<treasury[d].state, s>> \in I!Course
          /\ treasury' = [treasury EXCEPT ![d].state = s]
    BY <1>2 DEF TreasuryProgress, TransferStates, I!Course
  <2>2. UNCHANGED <<wallet, credits, sweep, inward>>
    BY <1>2 DEF TreasuryProgress, LedgerUnchanged
  <2>3. \A t \in Transfers : Moved(t)' = IF t = d THEN s ELSE Moved(t)
    BY <2>1, MovedIs DEF Moved, DepositInv, DepositTypeOK, TreasuryRow, TransferInv
  <2>4. [t \in Transfers |-> Moved(t)]' = [[t \in Transfers |-> Moved(t)] EXCEPT ![d] = s]
    BY <2>3
  <2>5. \A t \in Transfers : Told(t)' = Told(t)
    BY <2>2 DEF Told
  <2> QED BY <2>1, <2>2, <2>4, <2>5, MovedIs DEF I!GoesOn
<1> QED BY <1>1, <1>2

LEMMA CreditShows ==
    ASSUME DepositInv, NEW j \in Jobs, NEW d \in Transfers, d = Subject(j), Credit(j)
    PROVE  I!CreditOnce(d) \/ UNCHANGED I!payinVars
<1>1. DepositTypeOK
  BY DEF DepositInv
<1>2. CASE credits[d] = 0
  <2>1. /\ credits' = [credits EXCEPT ![d] = 1] /\ wallet' = wallet + Credited
        /\ SweepIs(d, "QUEUED", sweep[d].named) /\ BankUnchanged
    BY <1>1, <1>2, SweepsMove DEF Credit, SweepStatuses
  <2>2. \A t \in Transfers : Told(t)' = IF t = d THEN "open" ELSE Told(t)
    BY <2>1, ToldIs DEF SweepIs, Ended, Settled
  <2>3. [t \in Transfers |-> Told(t)]' = [[t \in Transfers |-> Told(t)] EXCEPT ![d] = "open"]
    BY <2>2
  <2>4. {t \in Transfers : credits[t] > 0}' = {t \in Transfers : credits[t] > 0} \cup {d}
    BY <1>1, <2>1 DEF DepositTypeOK
  <2>5. inward[d] \in {"Completed", "Reversed"} /\ d \notin {t \in Transfers : credits[t] > 0}
    BY <1>1, <1>2 DEF DepositInv, JobInv, Credit
  <2>6. \A t \in Transfers : Moved(t)' = Moved(t)
    BY <2>1 DEF BankUnchanged, Moved
  <2> QED BY <2>1, <2>3, <2>4, <2>5, <2>6 DEF I!CreditOnce, BankUnchanged
<1>3. CASE credits[d] # 0
  <2>1. LedgerUnchanged /\ BankUnchanged /\ UNCHANGED sweep
    BY <1>3 DEF Credit
  <2> QED BY <2>1, RunsAreHidden DEF Told
<1> QED BY <1>2, <1>3

\* Before its POST a run has its operation PROCESSING, with nothing sent.
LEMMA ExecutionShows ==
    ASSUME DepositInv, NEW j \in Jobs, NEW d \in Transfers, d = Subject(j),
           Refused(j) \/ Transfer(j) \/ SweepUncertain(j)
    PROVE  I!Tell(d) \/ I!Move(d) \/ UNCHANGED I!payinVars
<1>1. DepositTypeOK
  BY DEF DepositInv
<1>2. sweep[d].status = "PROCESSING" /\ treasury[d].sent = 0 /\ Told(d) = "open"
  BY <1>1, ToldIs DEF DepositInv, JobInv, Refused, Transfer, SweepUncertain, At, Ended, Settled
<1>3. CASE Refused(j)
  <2>1. SweepIs(d, "FAILED", sweep[d].named) /\ LedgerUnchanged /\ BankUnchanged
    BY <1>1, <1>2, <1>3, SweepsMove DEF Refused, SweepStatuses, Settled
  <2>2. Ended("FAILED") \in I!TruthOf(Moved(d))
    BY <1>1, <1>2, MovedIs DEF Ended, Settled, I!TruthOf
  <2> QED BY <1>1, <1>2, <2>1, <2>2, SweepShows
<1>4. CASE Transfer(j)
  <2>1. TreasuryIs(d, treasury[d].sent + 1, "Pending") /\ LedgerUnchanged /\ UNCHANGED <<inward, sweep>>
    BY <1>1, <1>4, SweepsMove DEF Transfer, SweepStatuses
  <2> QED BY <1>1, <1>2, <2>1, PostShows DEF Told
<1>5. CASE SweepUncertain(j)
  <2>1. SweepIs(d, "UNKNOWN", sweep[d].named) /\ LedgerUnchanged /\ UNCHANGED inward
    BY <1>1, <1>2, <1>5, SweepsMove DEF SweepUncertain, SweepStatuses
  <2>2. \A t \in Transfers : Told(t)' = Told(t)
    BY <1>2, <2>1, ToldIs DEF SweepIs, Ended, Settled
  <2>3. CASE UNCHANGED treasury
    BY <2>1, <2>2, <2>3, RunsAreHidden DEF BankUnchanged
  <2>4. CASE Accept(d)
    <3>1. TreasuryIs(d, treasury[d].sent + 1, "Pending")
      BY <1>1, <2>4, SweepsMove DEF SweepStatuses
    <3> QED BY <1>1, <1>2, <2>1, <2>2, <3>1, PostShows
  <2> QED BY <1>5, <2>3, <2>4 DEF SweepUncertain
<1> QED BY <1>3, <1>4, <1>5

\* What settleSweep writes is true of the transfer, though the run read it a while ago.
LEMMA AnswerShows ==
    ASSUME DepositInv, NEW j \in Jobs, NEW d \in Transfers, d = Subject(j),
           RecordReference(j) \/ Settle(j) \/ Discover(j)
    PROVE  I!Tell(d) \/ UNCHANGED I!payinVars
<1>1. /\ DepositTypeOK /\ job[j] \in JobState /\ sweep[d] \in SweepRow
      /\ treasury[d].state \in TransferStates
  BY DEF DepositInv, DepositTypeOK, TreasuryRow
<1>2. LedgerUnchanged /\ BankUnchanged
  BY DEF RecordReference, Settle, Discover
<1>3. JobInv(j) /\ TransferInv(d)
  BY <1>1 DEF DepositInv
<1>4. CASE RecordReference(j) \/ Settle(j)
  <2>1. treasury[d].sent = 1
    BY <1>3, <1>4 DEF JobInv, RecordReference, Settle, At
  <2>2. sweep[d].status # "none" /\ Moved(d) = treasury[d].state /\ Moved(d) # "none"
    BY <1>1, <1>3, <2>1, MovedIs DEF TransferInv
  <2>3. PICK status \in SweepStatuses, named \in BOOLEAN :
          SweepIs(d, status, named) /\ Ended(status) \in I!TruthOf(Moved(d))
    <3>1. CASE RecordReference(j)
      <4>1. SweepIs(d, "PENDING", TRUE) /\ "PENDING" \in SweepStatuses
        BY <1>1, <3>1, SweepsMove DEF RecordReference, SweepStatuses
      <4>2. Ended("PENDING") \in I!TruthOf(Moved(d))
        BY <1>1, <2>2 DEF Ended, Settled, TransferStates, I!TruthOf
      <4> QED BY <4>1, <4>2
    <3>2. CASE Settle(j)
      <4>1. SweepStatus(job[j].data) \in SweepStatuses
        BY DEF SweepStatus, SweepStatuses, Settled
      <4>2. SweepIs(d, SweepStatus(job[j].data), sweep[d].named)
        BY <1>1, <3>2, <4>1, SweepsMove DEF Settle, SettleSweep
      <4>3. Known(treasury[d].state, job[j].data)
        BY <1>3, <3>2 DEF JobInv, Settle
      <4>4. sweep[d].named \in BOOLEAN
        BY <1>1 DEF SweepRow
      <4>5. Ended(SweepStatus(job[j].data)) \in I!TruthOf(Moved(d))
        BY <1>1, <2>2, <4>3 DEF Known, Ended, Settled, SweepStatus, TransferStates, JobState, I!TruthOf
      <4> QED BY <4>1, <4>2, <4>4, <4>5
    <3> QED BY <1>4, <3>1, <3>2
  <2> QED BY <1>1, <1>2, <2>2, <2>3, SweepShows
<1>5. CASE Discover(j)
  <2>1. UNCHANGED sweep \/ SweepIs(d, sweep[d].status, TRUE)
    BY <1>1, <1>5, SweepsMove DEF Discover, SweepRow
  <2>2. \A t \in Transfers : Told(t)' = Told(t)
    BY <2>1, ToldIs DEF SweepIs
  <2> QED BY <1>2, <2>2, RunsAreHidden
<1> QED BY <1>4, <1>5

\* The claim and the lease of a run do not show.
LEMMA LeaseIsHidden ==
    ASSUME DepositInv, NEW d \in Transfers, LeaseLapses(d) \/ \E j \in Jobs : Claim(j, d)
    PROVE  UNCHANGED I!payinVars
<1>1. /\ LedgerUnchanged /\ BankUnchanged
      /\ sweep[d].status \in {"QUEUED", "PROCESSING"}
      /\ SweepIs(d, "UNKNOWN", sweep[d].named) \/ SweepIs(d, "PROCESSING", sweep[d].named)
  BY SweepsMove DEF LeaseLapses, Claim, SweepStatuses, DepositInv
<1>2. \A t \in Transfers : Told(t)' = Told(t)
  BY <1>1, ToldIs DEF SweepIs, Ended, Settled
<1> QED BY <1>1, <1>2, RunsAreHidden

LEMMA NextShows == DepositInv /\ [DepositNext]_depositVars => [I!PayinNext]_I!payinVars
<1> SUFFICES ASSUME DepositInv, [DepositNext]_depositVars
             PROVE  I!PayinNext \/ UNCHANGED I!payinVars
  OBVIOUS
<1>1. ASSUME LedgerUnchanged, BankUnchanged, UNCHANGED sweep PROVE UNCHANGED I!payinVars
  BY <1>1, RunsAreHidden DEF Told
<1>2. CASE UNCHANGED depositVars
  BY <1>1, <1>2 DEF depositVars, LedgerUnchanged, BankUnchanged
<1>3. ASSUME NEW d \in Transfers,
             \/ InwardProgress(d) \/ TreasuryProgress(d) \/ LeaseLapses(d)
             \/ \E j \in Jobs : Claim(j, d) \/ PickSweep(j, d)
      PROVE  I!PayinNext \/ UNCHANGED I!payinVars
  BY <1>1, <1>3, BankShows, LeaseIsHidden DEF PickSweep, I!PayinNext
<1>4. ASSUME NEW row \in InboxRows, Receive(row) \/ RetryRow(row) \/ \E j \in Jobs : PickRow(j, row)
      PROVE  UNCHANGED I!payinVars
  BY <1>1, <1>4 DEF Receive, RetryRow, PickRow
<1>5. ASSUME NEW j \in Jobs,
             \/ VerifyDeposit(j) \/ QueryLost(j) \/ VerifySweep(j) \/ Resolve(j)
             \/ Acknowledge(j) \/ QueryTransfer(j) \/ JobStops(j)
      PROVE  UNCHANGED I!payinVars
  BY <1>1, <1>5 DEF VerifyDeposit, QueryLost, VerifySweep, Resolve, Acknowledge, QueryTransfer, JobStops
<1>6. ASSUME NEW j \in Jobs,
             \/ Credit(j) \/ Refused(j) \/ Transfer(j) \/ SweepUncertain(j)
             \/ RecordReference(j) \/ Settle(j) \/ Discover(j)
      PROVE  I!PayinNext \/ UNCHANGED I!payinVars
  <2>1. PICK d \in Transfers : d = Subject(j)
    BY RowOfTransfer DEF DepositInv, DepositTypeOK, JobState, Subject
  <2> QED BY <1>6, <2>1, CreditShows, ExecutionShows, AnswerShows DEF I!PayinNext
<1> QED BY <1>2, <1>3, <1>4, <1>5, <1>6 DEF DepositNext

\* bankEvent, the worker and its jobs keep the promise of Payin for any transfers, webhooks, runs
\* and lost answers: a completed deposit is credited once, its money is moved by one transfer
\* after that, what is told of it was true, and what was refused is never sent.
THEOREM PayinIsKept == DepositSpec => ImplementsPayin
<1>1. DepositInit => I!PayinInit
  <2> SUFFICES ASSUME DepositInit PROVE I!PayinInit
    OBVIOUS
  <2>1. \A d \in Transfers : Moved(d) = "none" /\ Told(d) = "none"
    BY DEF DepositInit, Moved, Told
  <2>2. {d \in Transfers : credits[d] > 0} = {}
    BY DEF DepositInit
  <2> QED BY <2>1, <2>2 DEF DepositInit, I!PayinInit
<1> QED BY <1>1, NextShows, DepositInvariant, PTL DEF DepositSpec, ImplementsPayin, I!PayinSpec
===============================================================================
