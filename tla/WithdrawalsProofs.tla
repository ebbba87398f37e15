--------------------------- MODULE WithdrawalsProofs ---------------------------
(***************************************************************************)
(* The safety of Withdrawals, and that it implements Payout, for any       *)
(* number of operations, runs, amounts, fees and faults.  The argument: a  *)
(* reservation sits on its own hold, so release and payout, which both     *)
(* consume the whole hold, exclude each other; and nothing sends a         *)
(* transfer but the one run that claimed the operation while it was        *)
(* QUEUED.                                                                 *)
(***************************************************************************)
EXTENDS MCWithdrawals, SumLemmas, TLAPS

ProcRec == [pc : PCs, op : Ops, kind : Kinds, data : [status : Reports, reversed : BOOLEAN]]

(***************************************************************************)
(* The ledger.                                                             *)
(***************************************************************************)
\* A journal that can be posted leaves well-formed balances.
LEMMA PostType ==
    ASSUME TypeOK, NEW o \in Ops, NEW j \in JournalKinds,
           NEW w \in Int, NEW h \in Int, NEW c \in Int, NEW v \in Int,
           Post(o, j, w, h, c, v)
    PROVE  /\ journals' \in [Ops -> SUBSET JournalKinds]
           /\ wallet' \in Nat /\ clearing' \in Int /\ variance' \in Int
           /\ hold' \in [Ops -> Nat]
  BY DEF TypeOK, Post, CanPost

\* Amounts and fees are numbers; a reservation is never empty.
LEMMA AmountType ==
    ASSUME TypeOK, NEW o \in Ops
    PROVE  /\ Amount[o] \in Nat \ {0} /\ Quote \in Nat /\ fee[o] \in Nat
           /\ Reserved(o) \in Nat \ {0}
           /\ Refunded(o) \in Nat /\ Excess(o) \in Int
<1>1. Amount[o] \in Nat \ {0} /\ Quote \in Nat
  BY AmountAssumption, FeeAssumption
<1>2. fee[o] \in Nat
  BY FeeAssumption DEF TypeOK
<1>3. Reserved(o) \in Nat \ {0}
  BY <1>1 DEF Reserved
<1>4. Refunded(o) \in Nat /\ Excess(o) \in Int
  BY <1>1, <1>2 DEF Refunded, Excess
<1> QED BY <1>1, <1>2, <1>3, <1>4

LedgerType == /\ journals \in [Ops -> SUBSET JournalKinds]
              /\ wallet \in Nat /\ clearing \in Int /\ variance \in Int
              /\ hold \in [Ops -> Nat]

\* Everything said of one operation, and what each transaction can do to it.
Sound(o) == /\ OpInv(o)
            /\ "release" \in journals[o] => transfer[o] \in {"none", "refused", "Failed"}
            /\ "payout" \in journals[o] => transfer[o] = "Completed"
            /\ "reversal" \in journals[o] => reversed[o]
            /\ status[o] = "SUCCEEDED" => "payout" \in journals[o] /\ "reversal" \notin journals[o]
            /\ status[o] = "REVERSED" => "reversal" \in journals[o]
            /\ status[o] = "FAILED" => "release" \in journals[o]
            /\ hold[o] = IF journals[o] = {"reserve"} THEN Reserved(o) ELSE 0

Books(o, from, to, h, s) ==
    /\ journals[o] = from
    /\ journals' = [journals EXCEPT ![o] = to]
    /\ hold' = [hold EXCEPT ![o] = h]
    /\ status' = [status EXCEPT ![o] = s]

BooksRelease(o) == Books(o, {"reserve"}, {"reserve", "release"}, 0, "FAILED")
BooksPayout(o)  == Books(o, {"reserve"}, {"reserve", "payout"}, 0, "SUCCEEDED")

\* The invariant of the module is that of its operations and of its runs.
LEMMA InvariantByParts ==
    IInv <=> /\ TypeOK /\ OneClaimant
             /\ \A o \in Ops : Sound(o)
             /\ \A p \in Procs : ProcInv(p)
  BY DEF IInv, Sound, OpInv, ReleasedIsNeverPaid, BookedIsReal, TerminalIsBooked,
         HoldFollowsJournals

\* A reservation is released at most once and never after the payout: only a
\* full hold covers the release.
LEMMA FailEffect ==
    ASSUME TypeOK, NEW o \in Ops, Sound(o), status[o] # "none", FailTx(o)
    PROVE  /\ LedgerType'
           /\ UNCHANGED <<status, ledgerVars>> \/ BooksRelease(o)
<1>1. CASE UNCHANGED <<status, ledgerVars>>
  BY <1>1 DEF TypeOK, ledgerVars, LedgerType
<1>2. CASE /\ PostRelease(o)
           /\ status' = [status EXCEPT ![o] = "FAILED"]
  <2>1. Post(o, "release", Reserved(o), -Reserved(o), 0, 0)
    BY <1>2 DEF PostRelease
  <2>2. Reserved(o) \in Nat \ {0} /\ -Reserved(o) \in Int
    BY AmountType
  <2>3. LedgerType'
    BY <2>1, <2>2, PostType DEF LedgerType, JournalKinds
  <2>4. hold[o] \in Nat /\ hold[o] >= Reserved(o)
    BY <2>1, <2>2 DEF Post, CanPost, TypeOK
  <2>5. journals[o] = {"reserve"} /\ hold[o] = Reserved(o)
    BY <2>2, <2>4 DEF Sound
  <2>6. journals' = [journals EXCEPT ![o] = {"reserve", "release"}]
    BY <2>1, <2>5 DEF Post
  <2>7. hold' = [hold EXCEPT ![o] = 0]
    <3>1. hold[o] + (-Reserved(o)) = 0
      BY <2>2, <2>5
    <3> QED BY <2>1, <3>1 DEF Post
  <2> QED BY <1>2, <2>3, <2>5, <2>6, <2>7 DEF BooksRelease, Books
<1> QED BY <1>1, <1>2 DEF FailTx

\* The payout, too, needs the full hold.
LEMMA CompleteEffect ==
    ASSUME TypeOK, NEW o \in Ops, Sound(o), status[o] # "none", CompleteTx(o)
    PROVE  /\ LedgerType'
           /\ UNCHANGED <<status, ledgerVars>> \/ BooksPayout(o)
<1>1. CASE UNCHANGED <<status, ledgerVars>>
  BY <1>1 DEF TypeOK, ledgerVars, LedgerType
<1>2. CASE /\ PostPayout(o)
           /\ status' = [status EXCEPT ![o] = "SUCCEEDED"]
  <2>1. Post(o, "payout", Refunded(o), -Reserved(o), Amount[o] + fee[o], Excess(o))
    BY <1>2 DEF PostPayout
  <2>2. /\ Reserved(o) \in Nat \ {0} /\ -Reserved(o) \in Int /\ Refunded(o) \in Int
        /\ Amount[o] + fee[o] \in Int /\ Excess(o) \in Int
    BY AmountType
  <2>3. LedgerType'
    BY <2>1, <2>2, PostType DEF LedgerType, JournalKinds
  <2>4. hold[o] \in Nat /\ hold[o] >= Reserved(o)
    BY <2>1, <2>2 DEF Post, CanPost, TypeOK
  <2>5. journals[o] = {"reserve"} /\ hold[o] = Reserved(o)
    BY <2>2, <2>4 DEF Sound
  <2>6. journals' = [journals EXCEPT ![o] = {"reserve", "payout"}]
    BY <2>1, <2>5 DEF Post
  <2>7. hold' = [hold EXCEPT ![o] = 0]
    <3>1. hold[o] + (-Reserved(o)) = 0
      BY <2>2, <2>5
    <3> QED BY <2>1, <3>1 DEF Post
  <2> QED BY <1>2, <2>3, <2>5, <2>6, <2>7 DEF BooksPayout, Books
<1> QED BY <1>1, <1>2 DEF CompleteTx

(***************************************************************************)
(* Frames: what a step that acts on one operation and one run leaves true  *)
(* of all the others.                                                      *)
(***************************************************************************)
Untouched(o) == /\ status'[o] = status[o] /\ known'[o] = known[o]
                /\ journals'[o] = journals[o] /\ hold'[o] = hold[o]
                /\ transfer'[o] = transfer[o] /\ reversed'[o] = reversed[o]
                /\ posts'[o] = posts[o] /\ inbox'[o] = inbox[o]

\* What the bank said once stays true.
Stable(o) == /\ transfer[o] # "none" => transfer'[o] # "none"
             /\ transfer[o] \in Reports => transfer'[o] \in Reports
             /\ transfer[o] \in {"Completed", "Failed"} => transfer'[o] = transfer[o]
             /\ reversed[o] => reversed'[o]

\* The step does not disturb a run between the claim and the POST of o.
Quiet(o) == /\ status[o] \in {"PROCESSING", "UNKNOWN"} =>
                   status'[o] \in {"PROCESSING", "UNKNOWN"}
            /\ journals'[o] = journals[o]
            /\ transfer'[o] = transfer[o]

LEMMA OpFrame ==
    ASSUME NEW o \in Ops, Sound(o), Untouched(o)
    PROVE  Sound(o)'
  BY DEF Sound, OpInv, Untouched, Reserved

LEMMA ProcFrame ==
    ASSUME NEW q \in Procs, ProcInv(q), proc'[q] = proc[q],
           Stable(proc[q].op),
           proc[q].pc = "claimed" => Quiet(proc[q].op)
    PROVE  ProcInv(q)'
<1> DEFINE o == proc[q].op
<1>1. proc'[q].op = o
  OBVIOUS
<1>2. proc[q].pc = "claimed" => /\ status'[o] \in {"PROCESSING", "UNKNOWN"}
                               /\ journals'[o] = {"reserve"} /\ transfer'[o] = "none"
  BY DEF ProcInv, Quiet
<1>3. proc[q].pc = "posting" => transfer'[o] # "none"
  BY DEF ProcInv, Stable
<1>4. proc[q].pc \in {"posted", "query", "settle", "event", "verified", "ack", "retry"} =>
          transfer'[o] \in Reports
  BY DEF ProcInv, Stable
<1>5. proc[q].pc \in {"posted", "settle", "verified"} =>
          /\ proc[q].data.status # "Processing" => transfer'[o] = proc[q].data.status
          /\ proc[q].data.reversed => reversed'[o]
  BY DEF ProcInv, Stable, Reports
<1> QED BY <1>1, <1>2, <1>3, <1>4, <1>5 DEF ProcInv

Parts == /\ \A o \in Ops : Sound(o)
         /\ \A p \in Procs : ProcInv(p)
         /\ OneClaimant

\* A step on operation o that no run takes.
LEMMA OutsideStep ==
    ASSUME TypeOK, Parts, NEW o \in Ops,
           \A o2 \in Ops \ {o} : Untouched(o2),
           Sound(o)', Stable(o),
           \A q \in Procs : proc[q].pc = "claimed" /\ proc[q].op = o => Quiet(o),
           proc' = proc
    PROVE  Parts'
<1>1. \A o2 \in Ops : Sound(o2)'
  BY OpFrame DEF Parts
<1>2. ASSUME NEW q \in Procs PROVE ProcInv(q)'
  <2>1. proc[q].op \in Ops
    BY DEF TypeOK
  <2>2. Stable(proc[q].op) /\ (proc[q].pc = "claimed" => Quiet(proc[q].op))
    BY <2>1 DEF Untouched, Stable, Quiet
  <2> QED BY <2>2, ProcFrame DEF Parts
<1>3. OneClaimant'
  BY DEF Parts, OneClaimant
<1> QED BY <1>1, <1>2, <1>3 DEF Parts

\* A step of run p on operation o, after which p has not just claimed it.
LEMMA RunStep ==
    ASSUME TypeOK, Parts, NEW o \in Ops, NEW p \in Procs,
           \A o2 \in Ops \ {o} : Untouched(o2),
           Sound(o)', Stable(o),
           \A q \in Procs \ {p} : proc'[q] = proc[q],
           \A q \in Procs \ {p} : proc[q].pc = "claimed" /\ proc[q].op = o => Quiet(o),
           proc'[p].pc # "claimed",
           ProcInv(p)'
    PROVE  Parts'
<1>1. \A o2 \in Ops : Sound(o2)'
  BY OpFrame DEF Parts
<1>2. ASSUME NEW q \in Procs PROVE ProcInv(q)'
  <2>1. proc[q].op \in Ops
    BY DEF TypeOK
  <2>2. CASE q = p
    BY <2>2
  <2>3. CASE q # p
    <3>1. Stable(proc[q].op) /\ (proc[q].pc = "claimed" => Quiet(proc[q].op))
      BY <2>1, <2>3 DEF Untouched, Stable, Quiet
    <3> QED BY <2>3, <3>1, ProcFrame DEF Parts
  <2> QED BY <2>2, <2>3
<1>3. OneClaimant'
  BY DEF Parts, OneClaimant
<1> QED BY <1>1, <1>2, <1>3 DEF Parts

(***************************************************************************)
(* One lemma per action.                                                   *)
(***************************************************************************)
\* The reservation of a new command.
LEMMA ExecuteStep ==
    ASSUME TypeOK, Parts, NEW o \in Ops, Execute(o)
    PROVE  TypeOK' /\ Parts'
<1>1. Post(o, "reserve", -Reserved(o), Reserved(o), 0, 0)
  BY DEF Execute
<1>2. Reserved(o) \in Nat \ {0} /\ -Reserved(o) \in Int
  BY AmountType
<1>3. LedgerType'
  BY <1>1, <1>2, PostType DEF LedgerType, JournalKinds
<1>4. TypeOK'
  BY <1>3 DEF TypeOK, LedgerType, Execute, Statuses, bankVars
<1>5. \A o2 \in Ops \ {o} : Untouched(o2)
  BY <1>1 DEF Execute, Post, Untouched, TypeOK, bankVars
<1>6. Sound(o) /\ status[o] = "none"
  BY DEF Parts, Execute
<1>7. journals'[o] = {"reserve"} /\ status'[o] = "QUEUED"
  BY <1>1, <1>6 DEF Execute, Post, Sound, OpInv, TypeOK
<1>8. hold'[o] = Reserved(o)
  <2>1. hold[o] = 0
    BY <1>6 DEF Sound, OpInv
  <2> QED BY <1>1, <1>2, <2>1 DEF Post, TypeOK
<1>9. Reserved(o)' = Reserved(o)
  BY DEF Reserved
<1>10. Sound(o)'
  BY <1>6, <1>7, <1>8, <1>9 DEF Sound, OpInv, Execute, bankVars
<1>11. Stable(o)
  BY DEF Stable, Execute, bankVars
<1>12. \A q \in Procs : proc[q].pc = "claimed" /\ proc[q].op = o => Quiet(o)
  BY <1>6 DEF Parts, ProcInv
<1>13. proc' = proc
  BY DEF Execute
<1> QED BY <1>4, <1>5, <1>10, <1>11, <1>12, <1>13, OutsideStep

\* A lease that runs out leaves the claim itself in place.
LEMMA ExpireLeaseStep ==
    ASSUME TypeOK, Parts, NEW o \in Ops, ExpireLease(o)
    PROVE  TypeOK' /\ Parts'
<1>1. TypeOK'
  BY DEF TypeOK, ExpireLease, ledgerVars, bankVars, Statuses, Transfers, Reports, InboxStatuses
<1>2. \A o2 \in Ops \ {o} : Untouched(o2)
  BY DEF ExpireLease, Untouched, TypeOK, ledgerVars, bankVars
<1>3. Sound(o)
  BY DEF Parts
<1>4. Sound(o)' /\ Stable(o)
  BY <1>3 DEF Sound, OpInv, Stable, ExpireLease, TypeOK, ledgerVars, bankVars, Reserved, Reports
<1>5. \A q \in Procs : proc[q].pc = "claimed" /\ proc[q].op = o => Quiet(o)
  BY DEF Parts, ProcInv, Quiet, ExpireLease, TypeOK, ledgerVars, bankVars
<1> QED BY <1>1, <1>2, <1>4, <1>5, OutsideStep DEF ExpireLease

\* Only what the bank announced enters the inbox.
LEMMA ReceiveStep ==
    ASSUME TypeOK, Parts, NEW o \in Ops, NEW k \in Kinds, Receive(o, k)
    PROVE  TypeOK' /\ Parts'
<1>1. TypeOK'
  BY DEF TypeOK, Receive, ledgerVars, bankVars, Statuses, Transfers, Reports, InboxStatuses
<1>2. \A o2 \in Ops \ {o} : Untouched(o2)
  BY DEF Receive, Untouched, TypeOK, ledgerVars, bankVars
<1>3. Sound(o)
  BY DEF Parts
<1>4. Sound(o)' /\ Stable(o)
  BY <1>3 DEF Sound, OpInv, Stable, Receive, TypeOK, ledgerVars, bankVars, Reserved, Reports, Announced
<1>5. \A q \in Procs : proc[q].pc = "claimed" /\ proc[q].op = o => Quiet(o)
  BY DEF Parts, ProcInv, Quiet, Receive, TypeOK, ledgerVars, bankVars
<1> QED BY <1>1, <1>2, <1>4, <1>5, OutsideStep DEF Receive

\* An administrator's retry adds nothing to the inbox.
LEMMA AdminRetryStep ==
    ASSUME TypeOK, Parts, NEW o \in Ops, NEW k \in Kinds, AdminRetry(o, k)
    PROVE  TypeOK' /\ Parts'
<1>1. TypeOK'
  BY DEF TypeOK, AdminRetry, ledgerVars, bankVars, Statuses, Transfers, Reports, InboxStatuses
<1>2. \A o2 \in Ops \ {o} : Untouched(o2)
  BY DEF AdminRetry, Untouched, TypeOK, ledgerVars, bankVars
<1>3. Sound(o)
  BY DEF Parts
<1>4. Sound(o)' /\ Stable(o)
  BY <1>3 DEF Sound, OpInv, Stable, AdminRetry, TypeOK, ledgerVars, bankVars, Reserved, Reports
<1>5. \A q \in Procs : proc[q].pc = "claimed" /\ proc[q].op = o => Quiet(o)
  BY DEF Parts, ProcInv, Quiet, AdminRetry, TypeOK, ledgerVars, bankVars
<1> QED BY <1>1, <1>2, <1>4, <1>5, OutsideStep DEF AdminRetry

\* The bank takes or refuses a request that was sent.
LEMMA BankTakesStep ==
    ASSUME TypeOK, Parts, NEW o \in Ops, BankTakes(o)
    PROVE  TypeOK' /\ Parts'
<1>1. TypeOK'
  BY DEF TypeOK, BankTakes, ledgerVars, bankVars, Statuses, Transfers, Reports, InboxStatuses
<1>2. \A o2 \in Ops \ {o} : Untouched(o2)
  BY DEF BankTakes, Untouched, TypeOK, ledgerVars, bankVars
<1>3. Sound(o)
  BY DEF Parts
<1>4. Sound(o)' /\ Stable(o)
  BY <1>3 DEF Sound, OpInv, Stable, BankTakes, TypeOK, ledgerVars, bankVars, Reserved, Reports
<1>5. \A q \in Procs : proc[q].pc = "claimed" /\ proc[q].op = o => Quiet(o)
  BY DEF Parts, ProcInv, Quiet, BankTakes, TypeOK, ledgerVars, bankVars
<1> QED BY <1>1, <1>2, <1>4, <1>5, OutsideStep DEF BankTakes

\* The bank settles a transfer it took.
LEMMA BankSettlesStep ==
    ASSUME TypeOK, Parts, NEW o \in Ops, BankSettles(o)
    PROVE  TypeOK' /\ Parts'
<1>1. TypeOK'
  BY DEF TypeOK, BankSettles, ledgerVars, bankVars, Statuses, Transfers, Reports, InboxStatuses
<1>2. \A o2 \in Ops \ {o} : Untouched(o2)
  BY DEF BankSettles, Untouched, TypeOK, ledgerVars, bankVars
<1>3. Sound(o)
  BY DEF Parts
<1>4. Sound(o)' /\ Stable(o)
  BY <1>3 DEF Sound, OpInv, Stable, BankSettles, TypeOK, ledgerVars, bankVars, Reserved, Reports
<1>5. \A q \in Procs : proc[q].pc = "claimed" /\ proc[q].op = o => Quiet(o)
  BY DEF Parts, ProcInv, Quiet, BankSettles, TypeOK, ledgerVars, bankVars
<1> QED BY <1>1, <1>2, <1>4, <1>5, OutsideStep DEF BankSettles

\* The bank reverses a completed transfer.
LEMMA BankReversesStep ==
    ASSUME TypeOK, Parts, NEW o \in Ops, BankReverses(o)
    PROVE  TypeOK' /\ Parts'
<1>1. TypeOK'
  BY DEF TypeOK, BankReverses, ledgerVars, bankVars, Statuses, Transfers, Reports, InboxStatuses
<1>2. \A o2 \in Ops \ {o} : Untouched(o2)
  BY DEF BankReverses, Untouched, TypeOK, ledgerVars, bankVars
<1>3. Sound(o)
  BY DEF Parts
<1>4. Sound(o)' /\ Stable(o)
  BY <1>3 DEF Sound, OpInv, Stable, BankReverses, TypeOK, ledgerVars, bankVars, Reserved, Reports
<1>5. \A q \in Procs : proc[q].pc = "claimed" /\ proc[q].op = o => Quiet(o)
  BY DEF Parts, ProcInv, Quiet, BankReverses, TypeOK, ledgerVars, bankVars
<1> QED BY <1>1, <1>2, <1>4, <1>5, OutsideStep DEF BankReverses

\* A run moves on, and no other run does.
LEMMA GotoEffect ==
    ASSUME TypeOK, NEW p \in Procs, NEW c \in PCs, NEW o \in Ops, NEW k \in Kinds,
           NEW d \in [status : Reports, reversed : BOOLEAN],
           Goto(p, c, o, k, d)
    PROVE  /\ proc' \in [Procs -> ProcRec]
           /\ \A q \in Procs \ {p} : proc'[q] = proc[q]
           /\ proc'[p].pc = c /\ proc'[p].op = o
           /\ proc'[p].kind = k /\ proc'[p].data = d
  BY DEF TypeOK, ProcRec, Goto

LEMMA BecomeEffect ==
    ASSUME TypeOK, NEW p \in Procs, NEW c \in PCs, Become(p, c)
    PROVE  /\ proc' \in [Procs -> ProcRec]
           /\ \A q \in Procs \ {p} : proc'[q] = proc[q]
           /\ proc'[p].pc = c /\ proc'[p].op = proc[p].op
           /\ proc'[p].kind = proc[p].kind /\ proc'[p].data = proc[p].data
<1>1. /\ proc[p].op \in Ops /\ proc[p].kind \in Kinds
      /\ proc[p].data \in [status : Reports, reversed : BOOLEAN]
  BY DEF TypeOK
<1> QED BY <1>1, GotoEffect DEF Become

LEMMA BeginEffect ==
    ASSUME TypeOK, NEW p \in Procs, NEW c \in PCs, NEW o \in Ops, Begin(p, c, o)
    PROVE  /\ proc' \in [Procs -> ProcRec]
           /\ \A q \in Procs \ {p} : proc'[q] = proc[q]
           /\ proc'[p].pc = c /\ proc'[p].op = o
<1>1. /\ proc[p].kind \in Kinds
      /\ proc[p].data \in [status : Reports, reversed : BOOLEAN]
  BY DEF TypeOK
<1> QED BY <1>1, GotoEffect DEF Begin

\* What a run remembers of a transfer the bank has is that transfer.
LEMMA RememberEffect ==
    ASSUME TypeOK, NEW p \in Procs, NEW c \in PCs, NEW o \in Ops,
           transfer[o] \in Reports, o = proc[p].op, Remember(p, c, Snapshot(o))
    PROVE  /\ proc' \in [Procs -> ProcRec]
           /\ \A q \in Procs \ {p} : proc'[q] = proc[q]
           /\ proc'[p].pc = c /\ proc'[p].op = o
           /\ proc'[p].data.status = transfer[o]
           /\ proc'[p].data.reversed = reversed[o]
<1>1. proc[p].kind \in Kinds
  BY DEF TypeOK
<1>2. Snapshot(o) \in [status : Reports, reversed : BOOLEAN]
  BY DEF TypeOK, Snapshot
<1>3. Snapshot(o).status = transfer[o] /\ Snapshot(o).reversed = reversed[o]
  BY DEF Snapshot
<1> QED BY <1>1, <1>2, <1>3, GotoEffect DEF Remember

\* Progress of the status, of the reference or of the inbox that agrees with
\* the bank leaves an operation sound.
LEMMA StatusFrame ==
    ASSUME TypeOK, NEW o \in Ops, Sound(o),
           journals'[o] = journals[o], hold'[o] = hold[o], transfer'[o] = transfer[o],
           reversed'[o] = reversed[o], posts'[o] = posts[o],
           \/ status'[o] = status[o]
           \/ status[o] # "none" /\ status'[o] \in {"PROCESSING", "UNKNOWN", "PENDING"},
           known'[o] = known[o] \/ transfer[o] \in Reports,
           inbox'[o] = inbox[o] \/ transfer[o] \in Reports
    PROVE  Sound(o)' /\ Stable(o)
<1>1. OpInv(o)'
  BY DEF Sound, OpInv
<1> QED BY <1>1 DEF Sound, Stable, Reserved

\* An uncertain run leaves the reservation alone.
LEMMA UncertainStep ==
    ASSUME TypeOK, Parts, NEW p \in Procs, NEW o \in Ops, o = proc[p].op, Uncertain(p)
    PROVE  TypeOK' /\ Parts'
<1>1. Sound(o) /\ ProcInv(p)
  BY DEF Parts
<1>2. /\ proc' \in [Procs -> ProcRec]
      /\ \A q \in Procs \ {p} : proc'[q] = proc[q]
      /\ proc'[p].pc = "idle" /\ proc'[p].op = o
  BY <1>1, BecomeEffect DEF Uncertain, PCs, ProcInv, At
<1>3. TypeOK'
  BY <1>1, <1>2, BoundAssumption DEF TypeOK, ProcRec, Uncertain, Statuses, InboxStatuses, ledgerVars, bankVars
<1>4. \A o2 \in Ops \ {o} : Untouched(o2)
  BY <1>1 DEF Uncertain, Untouched, TypeOK, ledgerVars, bankVars
<1>5. Sound(o)' /\ Stable(o)
  <2>1. /\ journals'[o] = journals[o] /\ hold'[o] = hold[o] /\ transfer'[o] = transfer[o]
        /\ reversed'[o] = reversed[o] /\ posts'[o] = posts[o]
    BY DEF Uncertain, ledgerVars, bankVars
  <2>2. \/ status'[o] = status[o]
        \/ status[o] # "none" /\ status'[o] \in {"PROCESSING", "UNKNOWN", "PENDING"}
    BY <1>1 DEF Uncertain, At, ProcInv, Sound, OpInv, TypeOK, Reports
  <2>3. /\ known'[o] = known[o] \/ transfer[o] \in Reports
        /\ inbox'[o] = inbox[o] \/ transfer[o] \in Reports
    BY <1>1 DEF Uncertain, At, ProcInv, TypeOK
  <2> QED BY <1>1, <2>1, <2>2, <2>3, StatusFrame
<1>6. \A q \in Procs \ {p} : proc[q].pc = "claimed" /\ proc[q].op = o => Quiet(o)
  BY <1>1 DEF Uncertain, At, Parts, ProcInv, Quiet, TypeOK, ledgerVars, bankVars, Reports
<1>7. ProcInv(p)'
  BY <1>1, <1>2 DEF Uncertain, At, ProcInv, ledgerVars, bankVars
<1> QED BY <1>1, <1>2, <1>3, <1>4, <1>5, <1>6, <1>7, RunStep

\* The reference and PENDING are stored, whatever happened meanwhile.
LEMMA RecordReferenceStep ==
    ASSUME TypeOK, Parts, NEW p \in Procs, NEW o \in Ops, o = proc[p].op, RecordReference(p)
    PROVE  TypeOK' /\ Parts'
<1>1. Sound(o) /\ ProcInv(p)
  BY DEF Parts
<1>2. /\ proc' \in [Procs -> ProcRec]
      /\ \A q \in Procs \ {p} : proc'[q] = proc[q]
      /\ proc'[p].pc = "settle" /\ proc'[p].data = proc[p].data /\ proc'[p].op = o
  BY <1>1, BecomeEffect DEF RecordReference, PCs, ProcInv, At
<1>3. TypeOK'
  BY <1>1, <1>2, BoundAssumption DEF TypeOK, ProcRec, RecordReference, Statuses, InboxStatuses, ledgerVars, bankVars
<1>4. \A o2 \in Ops \ {o} : Untouched(o2)
  BY <1>1 DEF RecordReference, Untouched, TypeOK, ledgerVars, bankVars
<1>5. Sound(o)' /\ Stable(o)
  <2>1. /\ journals'[o] = journals[o] /\ hold'[o] = hold[o] /\ transfer'[o] = transfer[o]
        /\ reversed'[o] = reversed[o] /\ posts'[o] = posts[o]
    BY DEF RecordReference, ledgerVars, bankVars
  <2>2. \/ status'[o] = status[o]
        \/ status[o] # "none" /\ status'[o] \in {"PROCESSING", "UNKNOWN", "PENDING"}
    BY <1>1 DEF RecordReference, At, ProcInv, Sound, OpInv, TypeOK, Reports
  <2>3. /\ known'[o] = known[o] \/ transfer[o] \in Reports
        /\ inbox'[o] = inbox[o] \/ transfer[o] \in Reports
    BY <1>1 DEF RecordReference, At, ProcInv, TypeOK
  <2> QED BY <1>1, <2>1, <2>2, <2>3, StatusFrame
<1>6. \A q \in Procs \ {p} : proc[q].pc = "claimed" /\ proc[q].op = o => Quiet(o)
  BY <1>1 DEF RecordReference, At, Parts, ProcInv, Quiet, TypeOK, ledgerVars, bankVars, Reports
<1>7. ProcInv(p)'
  BY <1>1, <1>2 DEF RecordReference, At, ProcInv, ledgerVars, bankVars
<1> QED BY <1>1, <1>2, <1>3, <1>4, <1>5, <1>6, <1>7, RunStep

\* A reference is found only for a transfer the bank has.
LEMMA DiscoverStep ==
    ASSUME TypeOK, Parts, NEW p \in Procs, NEW o \in Ops, o = proc[p].op, Discover(p)
    PROVE  TypeOK' /\ Parts'
<1>1. Sound(o) /\ ProcInv(p)
  BY DEF Parts
<1>2. /\ proc' \in [Procs -> ProcRec]
      /\ \A q \in Procs \ {p} : proc'[q] = proc[q]
      /\ proc'[p].pc = (IF transfer[o] \in Reports THEN "query" ELSE "idle") /\ proc'[p].op = o
  BY <1>1, BecomeEffect DEF Discover, PCs, ProcInv, At
<1>3. TypeOK'
  BY <1>1, <1>2, BoundAssumption DEF TypeOK, ProcRec, Discover, Statuses, InboxStatuses, ledgerVars, bankVars
<1>4. \A o2 \in Ops \ {o} : Untouched(o2)
  BY <1>1 DEF Discover, Untouched, TypeOK, ledgerVars, bankVars
<1>5. Sound(o)' /\ Stable(o)
  <2>1. /\ journals'[o] = journals[o] /\ hold'[o] = hold[o] /\ transfer'[o] = transfer[o]
        /\ reversed'[o] = reversed[o] /\ posts'[o] = posts[o]
    BY DEF Discover, ledgerVars, bankVars
  <2>2. \/ status'[o] = status[o]
        \/ status[o] # "none" /\ status'[o] \in {"PROCESSING", "UNKNOWN", "PENDING"}
    BY <1>1 DEF Discover, At, ProcInv, Sound, OpInv, TypeOK, Reports
  <2>3. /\ known'[o] = known[o] \/ transfer[o] \in Reports
        /\ inbox'[o] = inbox[o] \/ transfer[o] \in Reports
    BY <1>1 DEF Discover, At, ProcInv, TypeOK
  <2> QED BY <1>1, <2>1, <2>2, <2>3, StatusFrame
<1>6. \A q \in Procs \ {p} : proc[q].pc = "claimed" /\ proc[q].op = o => Quiet(o)
  BY <1>1 DEF Discover, At, Parts, ProcInv, Quiet, TypeOK, ledgerVars, bankVars, Reports
<1>7. ProcInv(p)'
  BY <1>1, <1>2 DEF Discover, At, ProcInv, ledgerVars, bankVars
<1> QED BY <1>1, <1>2, <1>3, <1>4, <1>5, <1>6, <1>7, RunStep

\* The response is the transfer as it is now.
LEMMA RespondStep ==
    ASSUME TypeOK, Parts, NEW p \in Procs, NEW o \in Ops, o = proc[p].op, Respond(p)
    PROVE  TypeOK' /\ Parts'
<1>1. Sound(o) /\ ProcInv(p)
  BY DEF Parts
<1>2. /\ proc' \in [Procs -> ProcRec]
      /\ \A q \in Procs \ {p} : proc'[q] = proc[q]
      /\ proc'[p].pc = "posted" /\ proc'[p].data.status = transfer[o] /\ proc'[p].data.reversed = reversed[o] /\ proc'[p].op = o
  BY <1>1, RememberEffect DEF Respond, PCs, ProcInv, At
<1>3. TypeOK'
  BY <1>1, <1>2, BoundAssumption DEF TypeOK, ProcRec, Respond, Statuses, InboxStatuses, ledgerVars, bankVars
<1>4. \A o2 \in Ops \ {o} : Untouched(o2)
  BY <1>1 DEF Respond, Untouched, TypeOK, ledgerVars, bankVars
<1>5. Sound(o)' /\ Stable(o)
  <2>1. /\ journals'[o] = journals[o] /\ hold'[o] = hold[o] /\ transfer'[o] = transfer[o]
        /\ reversed'[o] = reversed[o] /\ posts'[o] = posts[o]
    BY DEF Respond, ledgerVars, bankVars
  <2>2. \/ status'[o] = status[o]
        \/ status[o] # "none" /\ status'[o] \in {"PROCESSING", "UNKNOWN", "PENDING"}
    BY <1>1 DEF Respond, At, ProcInv, Sound, OpInv, TypeOK, Reports
  <2>3. /\ known'[o] = known[o] \/ transfer[o] \in Reports
        /\ inbox'[o] = inbox[o] \/ transfer[o] \in Reports
    BY <1>1 DEF Respond, At, ProcInv, TypeOK
  <2> QED BY <1>1, <2>1, <2>2, <2>3, StatusFrame
<1>6. \A q \in Procs \ {p} : proc[q].pc = "claimed" /\ proc[q].op = o => Quiet(o)
  BY <1>1 DEF Respond, At, Parts, ProcInv, Quiet, TypeOK, ledgerVars, bankVars, Reports
<1>7. ProcInv(p)'
  BY <1>1, <1>2 DEF Respond, At, ProcInv, ledgerVars, bankVars
<1> QED BY <1>1, <1>2, <1>3, <1>4, <1>5, <1>6, <1>7, RunStep

\* The query returns the transfer as it is now.
LEMMA QueryTransferStep ==
    ASSUME TypeOK, Parts, NEW p \in Procs, NEW o \in Ops, o = proc[p].op, QueryTransfer(p)
    PROVE  TypeOK' /\ Parts'
<1>1. Sound(o) /\ ProcInv(p)
  BY DEF Parts
<1>2. /\ proc' \in [Procs -> ProcRec]
      /\ \A q \in Procs \ {p} : proc'[q] = proc[q]
      /\ proc'[p].pc = "settle" /\ proc'[p].data.status = transfer[o] /\ proc'[p].data.reversed = reversed[o] /\ proc'[p].op = o
  BY <1>1, RememberEffect DEF QueryTransfer, PCs, ProcInv, At
<1>3. TypeOK'
  BY <1>1, <1>2, BoundAssumption DEF TypeOK, ProcRec, QueryTransfer, Statuses, InboxStatuses, ledgerVars, bankVars
<1>4. \A o2 \in Ops \ {o} : Untouched(o2)
  BY <1>1 DEF QueryTransfer, Untouched, TypeOK, ledgerVars, bankVars
<1>5. Sound(o)' /\ Stable(o)
  <2>1. /\ journals'[o] = journals[o] /\ hold'[o] = hold[o] /\ transfer'[o] = transfer[o]
        /\ reversed'[o] = reversed[o] /\ posts'[o] = posts[o]
    BY DEF QueryTransfer, ledgerVars, bankVars
  <2>2. \/ status'[o] = status[o]
        \/ status[o] # "none" /\ status'[o] \in {"PROCESSING", "UNKNOWN", "PENDING"}
    BY <1>1 DEF QueryTransfer, At, ProcInv, Sound, OpInv, TypeOK, Reports
  <2>3. /\ known'[o] = known[o] \/ transfer[o] \in Reports
        /\ inbox'[o] = inbox[o] \/ transfer[o] \in Reports
    BY <1>1 DEF QueryTransfer, At, ProcInv, TypeOK
  <2> QED BY <1>1, <2>1, <2>2, <2>3, StatusFrame
<1>6. \A q \in Procs \ {p} : proc[q].pc = "claimed" /\ proc[q].op = o => Quiet(o)
  BY <1>1 DEF QueryTransfer, At, Parts, ProcInv, Quiet, TypeOK, ledgerVars, bankVars, Reports
<1>7. ProcInv(p)'
  BY <1>1, <1>2 DEF QueryTransfer, At, ProcInv, ledgerVars, bankVars
<1> QED BY <1>1, <1>2, <1>3, <1>4, <1>5, <1>6, <1>7, RunStep

\* The hint is replaced by the transfer as it is now.
LEMMA VerifyEventStep ==
    ASSUME TypeOK, Parts, NEW p \in Procs, NEW o \in Ops, o = proc[p].op, VerifyEvent(p)
    PROVE  TypeOK' /\ Parts'
<1>1. Sound(o) /\ ProcInv(p)
  BY DEF Parts
<1>2. /\ proc' \in [Procs -> ProcRec]
      /\ \A q \in Procs \ {p} : proc'[q] = proc[q]
      /\ proc'[p].pc = "verified" /\ proc'[p].data.status = transfer[o] /\ proc'[p].data.reversed = reversed[o] /\ proc'[p].op = o
  BY <1>1, RememberEffect DEF VerifyEvent, PCs, ProcInv, At
<1>3. TypeOK'
  BY <1>1, <1>2, BoundAssumption DEF TypeOK, ProcRec, VerifyEvent, Statuses, InboxStatuses, ledgerVars, bankVars
<1>4. \A o2 \in Ops \ {o} : Untouched(o2)
  BY <1>1 DEF VerifyEvent, Untouched, TypeOK, ledgerVars, bankVars
<1>5. Sound(o)' /\ Stable(o)
  <2>1. /\ journals'[o] = journals[o] /\ hold'[o] = hold[o] /\ transfer'[o] = transfer[o]
        /\ reversed'[o] = reversed[o] /\ posts'[o] = posts[o]
    BY DEF VerifyEvent, ledgerVars, bankVars
  <2>2. \/ status'[o] = status[o]
        \/ status[o] # "none" /\ status'[o] \in {"PROCESSING", "UNKNOWN", "PENDING"}
    BY <1>1 DEF VerifyEvent, At, ProcInv, Sound, OpInv, TypeOK, Reports
  <2>3. /\ known'[o] = known[o] \/ transfer[o] \in Reports
        /\ inbox'[o] = inbox[o] \/ transfer[o] \in Reports
    BY <1>1 DEF VerifyEvent, At, ProcInv, TypeOK
  <2> QED BY <1>1, <2>1, <2>2, <2>3, StatusFrame
<1>6. \A q \in Procs \ {p} : proc[q].pc = "claimed" /\ proc[q].op = o => Quiet(o)
  BY <1>1 DEF VerifyEvent, At, Parts, ProcInv, Quiet, TypeOK, ledgerVars, bankVars, Reports
<1>7. ProcInv(p)'
  BY <1>1, <1>2 DEF VerifyEvent, At, ProcInv, ledgerVars, bankVars
<1> QED BY <1>1, <1>2, <1>3, <1>4, <1>5, <1>6, <1>7, RunStep

\* A failed query only marks the row.
LEMMA QueryFailsStep ==
    ASSUME TypeOK, Parts, NEW p \in Procs, NEW o \in Ops, o = proc[p].op, QueryFails(p)
    PROVE  TypeOK' /\ Parts'
<1>1. Sound(o) /\ ProcInv(p)
  BY DEF Parts
<1>2. /\ proc' \in [Procs -> ProcRec]
      /\ \A q \in Procs \ {p} : proc'[q] = proc[q]
      /\ proc'[p].pc = "idle" /\ proc'[p].op = o
  BY <1>1, BecomeEffect DEF QueryFails, PCs, ProcInv, At
<1>3. TypeOK'
  BY <1>1, <1>2, BoundAssumption DEF TypeOK, ProcRec, QueryFails, Statuses, InboxStatuses, ledgerVars, bankVars
<1>4. \A o2 \in Ops \ {o} : Untouched(o2)
  BY <1>1 DEF QueryFails, Untouched, TypeOK, ledgerVars, bankVars
<1>5. Sound(o)' /\ Stable(o)
  <2>1. /\ journals'[o] = journals[o] /\ hold'[o] = hold[o] /\ transfer'[o] = transfer[o]
        /\ reversed'[o] = reversed[o] /\ posts'[o] = posts[o]
    BY DEF QueryFails, ledgerVars, bankVars
  <2>2. \/ status'[o] = status[o]
        \/ status[o] # "none" /\ status'[o] \in {"PROCESSING", "UNKNOWN", "PENDING"}
    BY <1>1 DEF QueryFails, At, ProcInv, Sound, OpInv, TypeOK, Reports
  <2>3. /\ known'[o] = known[o] \/ transfer[o] \in Reports
        /\ inbox'[o] = inbox[o] \/ transfer[o] \in Reports
    BY <1>1 DEF QueryFails, At, ProcInv, TypeOK
  <2> QED BY <1>1, <2>1, <2>2, <2>3, StatusFrame
<1>6. \A q \in Procs \ {p} : proc[q].pc = "claimed" /\ proc[q].op = o => Quiet(o)
  BY <1>1 DEF QueryFails, At, Parts, ProcInv, Quiet, TypeOK, ledgerVars, bankVars, Reports
<1>7. ProcInv(p)'
  BY <1>1, <1>2 DEF QueryFails, At, ProcInv, ledgerVars, bankVars
<1> QED BY <1>1, <1>2, <1>3, <1>4, <1>5, <1>6, <1>7, RunStep

\* The acknowledgement only marks the row.
LEMMA AcknowledgeStep ==
    ASSUME TypeOK, Parts, NEW p \in Procs, NEW o \in Ops, o = proc[p].op, Acknowledge(p)
    PROVE  TypeOK' /\ Parts'
<1>1. Sound(o) /\ ProcInv(p)
  BY DEF Parts
<1>2. /\ proc' \in [Procs -> ProcRec]
      /\ \A q \in Procs \ {p} : proc'[q] = proc[q]
      /\ proc'[p].pc = "idle" /\ proc'[p].op = o
  BY <1>1, BecomeEffect DEF Acknowledge, PCs, ProcInv, At
<1>3. TypeOK'
  BY <1>1, <1>2, BoundAssumption DEF TypeOK, ProcRec, Acknowledge, Statuses, InboxStatuses, ledgerVars, bankVars
<1>4. \A o2 \in Ops \ {o} : Untouched(o2)
  BY <1>1 DEF Acknowledge, Untouched, TypeOK, ledgerVars, bankVars
<1>5. Sound(o)' /\ Stable(o)
  <2>1. /\ journals'[o] = journals[o] /\ hold'[o] = hold[o] /\ transfer'[o] = transfer[o]
        /\ reversed'[o] = reversed[o] /\ posts'[o] = posts[o]
    BY DEF Acknowledge, ledgerVars, bankVars
  <2>2. \/ status'[o] = status[o]
        \/ status[o] # "none" /\ status'[o] \in {"PROCESSING", "UNKNOWN", "PENDING"}
    BY <1>1 DEF Acknowledge, At, ProcInv, Sound, OpInv, TypeOK, Reports
  <2>3. /\ known'[o] = known[o] \/ transfer[o] \in Reports
        /\ inbox'[o] = inbox[o] \/ transfer[o] \in Reports
    BY <1>1 DEF Acknowledge, At, ProcInv, TypeOK
  <2> QED BY <1>1, <2>1, <2>2, <2>3, StatusFrame
<1>6. \A q \in Procs \ {p} : proc[q].pc = "claimed" /\ proc[q].op = o => Quiet(o)
  BY <1>1 DEF Acknowledge, At, Parts, ProcInv, Quiet, TypeOK, ledgerVars, bankVars, Reports
<1>7. ProcInv(p)'
  BY <1>1, <1>2 DEF Acknowledge, At, ProcInv, ledgerVars, bankVars
<1> QED BY <1>1, <1>2, <1>3, <1>4, <1>5, <1>6, <1>7, RunStep

\* A crash forgets what the run remembered.
LEMMA CrashStep ==
    ASSUME TypeOK, Parts, NEW p \in Procs, NEW o \in Ops, o = proc[p].op, Crash(p)
    PROVE  TypeOK' /\ Parts'
<1>1. Sound(o) /\ ProcInv(p)
  BY DEF Parts
<1>2. /\ proc' \in [Procs -> ProcRec]
      /\ \A q \in Procs \ {p} : proc'[q] = proc[q]
      /\ proc'[p].pc = "idle" /\ proc'[p].op = o
  BY <1>1, BecomeEffect DEF Crash, PCs, ProcInv, At
<1>3. TypeOK'
  BY <1>1, <1>2, BoundAssumption DEF TypeOK, ProcRec, Crash, Statuses, InboxStatuses, ledgerVars, bankVars
<1>4. \A o2 \in Ops \ {o} : Untouched(o2)
  BY <1>1 DEF Crash, Untouched, TypeOK, ledgerVars, bankVars
<1>5. Sound(o)' /\ Stable(o)
  <2>1. /\ journals'[o] = journals[o] /\ hold'[o] = hold[o] /\ transfer'[o] = transfer[o]
        /\ reversed'[o] = reversed[o] /\ posts'[o] = posts[o]
    BY DEF Crash, ledgerVars, bankVars
  <2>2. \/ status'[o] = status[o]
        \/ status[o] # "none" /\ status'[o] \in {"PROCESSING", "UNKNOWN", "PENDING"}
    BY <1>1 DEF Crash, At, ProcInv, Sound, OpInv, TypeOK, Reports
  <2>3. /\ known'[o] = known[o] \/ transfer[o] \in Reports
        /\ inbox'[o] = inbox[o] \/ transfer[o] \in Reports
    BY <1>1 DEF Crash, At, ProcInv, TypeOK
  <2> QED BY <1>1, <2>1, <2>2, <2>3, StatusFrame
<1>6. \A q \in Procs \ {p} : proc[q].pc = "claimed" /\ proc[q].op = o => Quiet(o)
  BY <1>1 DEF Crash, At, Parts, ProcInv, Quiet, TypeOK, ledgerVars, bankVars, Reports
<1>7. ProcInv(p)'
  BY <1>1, <1>2 DEF Crash, At, ProcInv, ledgerVars, bankVars
<1> QED BY <1>1, <1>2, <1>3, <1>4, <1>5, <1>6, <1>7, RunStep

\* Picking an operation or a row only reads.
LEMMA PickUncertainStep ==
    ASSUME TypeOK, Parts, NEW p \in Procs, NEW o \in Ops, PickUncertain(p, o)
    PROVE  TypeOK' /\ Parts'
<1>1. Sound(o)
  BY DEF Parts
<1>2. /\ proc' \in [Procs -> ProcRec]
      /\ \A q \in Procs \ {p} : proc'[q] = proc[q]
      /\ proc'[p].pc = (IF known[o] THEN "query" ELSE "lookup") /\ proc'[p].op = o
  BY BeginEffect DEF PickUncertain, PCs
<1>3. TypeOK' /\ \A o2 \in Ops : Untouched(o2) /\ Stable(o2) /\ Quiet(o2)
  BY <1>2 DEF PickUncertain, TypeOK, ProcRec, Untouched, Stable, Quiet, ledgerVars, bankVars
<1>4. Sound(o)'
  BY <1>1, <1>3, OpFrame
<1>5. ProcInv(p)'
  BY <1>1, <1>2 DEF ProcInv, PickUncertain, Sound, OpInv, ledgerVars, bankVars
<1> QED BY <1>2, <1>3, <1>4, <1>5, RunStep

LEMMA PickEventStep ==
    ASSUME TypeOK, Parts, NEW p \in Procs, NEW o \in Ops, NEW k \in Kinds, PickEvent(p, o, k)
    PROVE  TypeOK' /\ Parts'
<1>1. Sound(o) /\ proc[p].data \in [status : Reports, reversed : BOOLEAN]
  BY DEF Parts, TypeOK
<1>2. /\ proc' \in [Procs -> ProcRec]
      /\ \A q \in Procs \ {p} : proc'[q] = proc[q]
      /\ proc'[p].pc = "event" /\ proc'[p].op = o
  BY <1>1, GotoEffect DEF PickEvent, PCs
<1>3. TypeOK' /\ \A o2 \in Ops : Untouched(o2) /\ Stable(o2) /\ Quiet(o2)
  BY <1>2 DEF PickEvent, TypeOK, ProcRec, Untouched, Stable, Quiet, ledgerVars, bankVars
<1>4. Sound(o)'
  BY <1>1, <1>3, OpFrame
<1>5. ProcInv(p)'
  BY <1>1, <1>2 DEF ProcInv, PickEvent, Sound, OpInv, ledgerVars, bankVars
<1> QED BY <1>2, <1>3, <1>4, <1>5, RunStep

\* The claim is exclusive: a QUEUED operation has no claimant yet, and the
\* claim ends QUEUED for good.
LEMMA ClaimStep ==
    ASSUME TypeOK, Parts, NEW p \in Procs, NEW o \in Ops, Claim(p, o)
    PROVE  TypeOK' /\ Parts'
<1>1. Sound(o) /\ status[o] = "QUEUED" /\ status'[o] = "PROCESSING"
  BY DEF Parts, Claim, TypeOK
<1>2. /\ proc' \in [Procs -> ProcRec]
      /\ \A q \in Procs \ {p} : proc'[q] = proc[q]
      /\ proc'[p].pc = "claimed" /\ proc'[p].op = o
  BY BeginEffect DEF Claim, PCs
<1>3. TypeOK'
  BY <1>2 DEF Claim, TypeOK, ProcRec, Statuses, ledgerVars, bankVars
<1>4. \A o2 \in Ops \ {o} : Untouched(o2)
  BY DEF Claim, Untouched, TypeOK, ledgerVars, bankVars
<1>5. Sound(o)' /\ Stable(o)
  <2>1. /\ journals'[o] = journals[o] /\ hold'[o] = hold[o] /\ transfer'[o] = transfer[o]
        /\ reversed'[o] = reversed[o] /\ posts'[o] = posts[o]
        /\ known'[o] = known[o] /\ inbox'[o] = inbox[o]
    BY DEF Claim, ledgerVars, bankVars
  <2> QED BY <1>1, <2>1, StatusFrame
<1>6. \A o2 \in Ops : Sound(o2)'
  BY <1>4, <1>5, OpFrame DEF Parts
<1>7. \A q \in Procs : ~(proc[q].pc = "claimed" /\ proc[q].op = o)
  BY <1>1 DEF Parts, ProcInv
<1>8. ASSUME NEW q \in Procs PROVE ProcInv(q)'
  <2>1. CASE q = p
    BY <1>1, <1>2, <2>1 DEF ProcInv, Claim, Sound, OpInv, ledgerVars, bankVars
  <2>2. CASE q # p
    <3>1. proc[q].op \in Ops
      BY DEF TypeOK
    <3>2. Stable(proc[q].op) /\ (proc[q].pc = "claimed" => Quiet(proc[q].op))
      BY <1>4, <1>5, <1>7, <3>1 DEF Untouched, Stable, Quiet
    <3> QED BY <1>2, <2>2, <3>2, ProcFrame DEF Parts
  <2> QED BY <2>1, <2>2
<1>9. OneClaimant'
  BY <1>2, <1>7 DEF Parts, OneClaimant
<1> QED BY <1>3, <1>6, <1>8, <1>9 DEF Parts

\* The one claimant sends the one request.
LEMMA SendTransferStep ==
    ASSUME TypeOK, Parts, NEW p \in Procs, NEW o \in Ops, o = proc[p].op, SendTransfer(p)
    PROVE  TypeOK' /\ Parts'
<1>1. /\ Sound(o) /\ transfer[o] = "none" /\ journals[o] = {"reserve"}
      /\ status[o] \in {"PROCESSING", "UNKNOWN"} /\ proc[p].pc = "claimed"
  BY DEF Parts, SendTransfer, At, ProcInv
<1>2. /\ proc' \in [Procs -> ProcRec]
      /\ \A q \in Procs \ {p} : proc'[q] = proc[q]
      /\ proc'[p].pc = "posting" /\ proc'[p].op = o
  BY BecomeEffect DEF SendTransfer, PCs
<1>3. posts[o] = 0 /\ posts' = [posts EXCEPT ![o] = 1]
  BY <1>1 DEF SendTransfer, Sound, OpInv
<1>4. TypeOK' /\ transfer'[o] = "sent"
  BY <1>2, <1>3 DEF SendTransfer, TypeOK, ProcRec, Transfers, ledgerVars
<1>5. \A o2 \in Ops \ {o} : Untouched(o2)
  BY <1>3 DEF SendTransfer, Untouched, TypeOK, ledgerVars
<1>6. posts'[o] = 1
  BY <1>3 DEF TypeOK
<1>7. Sound(o)' /\ Stable(o)
  <2>1. OpInv(o)'
    BY <1>1, <1>4, <1>6 DEF SendTransfer, Sound, OpInv, ledgerVars, Reports
  <2> QED BY <1>1, <1>4, <2>1
          DEF SendTransfer, Sound, OpInv, Stable, Reserved, ledgerVars, Reports
<1>8. \A q \in Procs \ {p} : ~(proc[q].pc = "claimed" /\ proc[q].op = o)
  BY <1>1 DEF Parts, OneClaimant
<1>9. ProcInv(p)'
  BY <1>2, <1>4 DEF ProcInv
<1> QED BY <1>2, <1>4, <1>5, <1>7, <1>8, <1>9, RunStep

(***************************************************************************)
(* The steps that book.                                                    *)
(***************************************************************************)
\* Booking a release of what cannot be paid any more is sound.
LEMMA ReleaseSound ==
    ASSUME TypeOK, NEW o \in Ops, Sound(o), BooksRelease(o),
           transfer[o] \in {"none", "refused", "Failed"},
           transfer'[o] = transfer[o], reversed'[o] = reversed[o], posts'[o] = posts[o],
           known'[o] = known[o], inbox'[o] = inbox[o] \/ transfer[o] \in Reports
    PROVE  Sound(o)' /\ Stable(o)
<1>1. /\ journals[o] = {"reserve"} /\ journals'[o] = {"reserve", "release"}
      /\ hold'[o] = 0 /\ status'[o] = "FAILED"
  BY DEF BooksRelease, Books, TypeOK
<1>2. OpInv(o)'
  BY <1>1 DEF Sound, OpInv
<1> QED BY <1>1, <1>2 DEF Sound, Stable

\* So is a payout of what the bank completed.
LEMMA PayoutSound ==
    ASSUME TypeOK, NEW o \in Ops, Sound(o), BooksPayout(o), transfer[o] = "Completed",
           transfer'[o] = transfer[o], reversed'[o] = reversed[o], posts'[o] = posts[o],
           known'[o] = known[o], inbox'[o] = inbox[o] \/ transfer[o] \in Reports
    PROVE  Sound(o)' /\ Stable(o)
<1>1. /\ journals[o] = {"reserve"} /\ journals'[o] = {"reserve", "payout"}
      /\ hold'[o] = 0 /\ status'[o] = "SUCCEEDED"
  BY DEF BooksPayout, Books, TypeOK
<1>2. OpInv(o)'
  BY <1>1 DEF Sound, OpInv
<1> QED BY <1>1, <1>2 DEF Sound, Stable

\* Nothing was sent for a rejected recipient, and only this run could have.
LEMMA RejectRecipientStep ==
    ASSUME TypeOK, Parts, NEW p \in Procs, NEW o \in Ops, o = proc[p].op, RejectRecipient(p)
    PROVE  TypeOK' /\ Parts'
<1>1. /\ Sound(o) /\ ProcInv(p) /\ status[o] # "none"
      /\ transfer[o] \in {"none", "refused"}
  BY DEF Parts, RejectRecipient, At, ProcInv, Sound, OpInv
<1>2. /\ proc' \in [Procs -> ProcRec]
      /\ \A q \in Procs \ {p} : proc'[q] = proc[q]
      /\ proc'[p].pc = "idle" /\ proc'[p].op = o
  BY BecomeEffect DEF RejectRecipient, PCs
<1>3. LedgerType' /\ (UNCHANGED <<status, ledgerVars>> \/ BooksRelease(o))
  BY <1>1, FailEffect DEF RejectRecipient
<1>4. TypeOK'
  <2>1. status' \in [Ops -> Statuses]
    BY <1>3 DEF TypeOK, BooksRelease, Books, Statuses
  <2> QED BY <1>2, <1>3, <2>1 DEF RejectRecipient, TypeOK, ProcRec, LedgerType, bankVars
<1>5. \A o2 \in Ops \ {o} : Untouched(o2)
  BY <1>3 DEF RejectRecipient, Untouched, TypeOK, ledgerVars, bankVars, BooksRelease, Books
<1>6. Sound(o)' /\ Stable(o)
  <2>1. /\ transfer'[o] = transfer[o] /\ reversed'[o] = reversed[o] /\ posts'[o] = posts[o]
        /\ known'[o] = known[o] /\ inbox'[o] = inbox[o]
    BY DEF RejectRecipient, bankVars
  <2>2. CASE UNCHANGED <<status, ledgerVars>>
    BY <1>1, <2>1, <2>2, StatusFrame DEF ledgerVars
  <2>3. CASE BooksRelease(o)
    BY <1>1, <2>1, <2>3, ReleaseSound
  <2> QED BY <1>3, <2>2, <2>3
<1>7. \A q \in Procs \ {p} : ~(proc[q].pc = "claimed" /\ proc[q].op = o)
  BY <1>1 DEF Parts, OneClaimant, RejectRecipient, At
<1>8. ProcInv(p)'
  BY <1>2 DEF ProcInv
<1> QED BY <1>2, <1>4, <1>5, <1>6, <1>7, <1>8, RunStep

\* A refused request has no other claimant either: it was sent.
LEMMA RefusedStep ==
    ASSUME TypeOK, Parts, NEW p \in Procs, NEW o \in Ops, o = proc[p].op, Refused(p)
    PROVE  TypeOK' /\ Parts'
<1>1. /\ Sound(o) /\ ProcInv(p) /\ status[o] # "none"
      /\ transfer[o] \in {"none", "refused"}
  BY DEF Parts, Refused, At, ProcInv, Sound, OpInv
<1>2. /\ proc' \in [Procs -> ProcRec]
      /\ \A q \in Procs \ {p} : proc'[q] = proc[q]
      /\ proc'[p].pc = "idle" /\ proc'[p].op = o
  BY BecomeEffect DEF Refused, PCs
<1>3. LedgerType' /\ (UNCHANGED <<status, ledgerVars>> \/ BooksRelease(o))
  BY <1>1, FailEffect DEF Refused
<1>4. TypeOK'
  <2>1. status' \in [Ops -> Statuses]
    BY <1>3 DEF TypeOK, BooksRelease, Books, Statuses
  <2> QED BY <1>2, <1>3, <2>1 DEF Refused, TypeOK, ProcRec, LedgerType, bankVars
<1>5. \A o2 \in Ops \ {o} : Untouched(o2)
  BY <1>3 DEF Refused, Untouched, TypeOK, ledgerVars, bankVars, BooksRelease, Books
<1>6. Sound(o)' /\ Stable(o)
  <2>1. /\ transfer'[o] = transfer[o] /\ reversed'[o] = reversed[o] /\ posts'[o] = posts[o]
        /\ known'[o] = known[o] /\ inbox'[o] = inbox[o]
    BY DEF Refused, bankVars
  <2>2. CASE UNCHANGED <<status, ledgerVars>>
    BY <1>1, <2>1, <2>2, StatusFrame DEF ledgerVars
  <2>3. CASE BooksRelease(o)
    BY <1>1, <2>1, <2>3, ReleaseSound
  <2> QED BY <1>3, <2>2, <2>3
<1>7. \A q \in Procs \ {p} : ~(proc[q].pc = "claimed" /\ proc[q].op = o)
  BY <1>1 DEF Parts, ProcInv, Refused, At
<1>8. ProcInv(p)'
  BY <1>2 DEF ProcInv
<1> QED BY <1>2, <1>4, <1>5, <1>6, <1>7, <1>8, RunStep

\* Settling a transfer as it was read some time ago books only what is still
\* true of it, because a final transfer does not change.
LEMMA SettleSound ==
    ASSUME TypeOK, NEW o \in Ops, NEW d, Sound(o), status[o] # "none", SettleTx(o, d),
           transfer[o] \in Reports, d.status # "Processing" => transfer[o] = d.status,
           transfer'[o] = transfer[o], reversed'[o] = reversed[o], posts'[o] = posts[o],
           known'[o] = known[o], inbox'[o] = inbox[o] \/ transfer[o] \in Reports
    PROVE  /\ LedgerType' /\ status' \in [Ops -> Statuses]
           /\ \A o2 \in Ops \ {o} : /\ status'[o2] = status[o2]
                                     /\ journals'[o2] = journals[o2] /\ hold'[o2] = hold[o2]
           /\ Sound(o)' /\ Stable(o)
<1>1. /\ LedgerType'
      /\ \/ UNCHANGED <<status, ledgerVars>>
         \/ BooksRelease(o) /\ transfer[o] = "Failed"
         \/ BooksPayout(o) /\ transfer[o] = "Completed"
  <2>1. CASE d.status = "Failed" /\ FailTx(o)
    BY <2>1, FailEffect
  <2>2. CASE d.status = "Completed" /\ CompleteTx(o)
    BY <2>2, CompleteEffect
  <2>3. CASE UNCHANGED <<status, ledgerVars>>
    BY <2>3 DEF TypeOK, LedgerType, ledgerVars
  <2> QED BY <2>1, <2>2, <2>3 DEF SettleTx
<1>2. /\ status' \in [Ops -> Statuses]
      /\ \A o2 \in Ops \ {o} : /\ status'[o2] = status[o2]
                                /\ journals'[o2] = journals[o2] /\ hold'[o2] = hold[o2]
  <2>1. CASE UNCHANGED <<status, ledgerVars>>
    BY <2>1 DEF TypeOK, ledgerVars
  <2>2. CASE BooksRelease(o)
    BY <2>2 DEF TypeOK, Statuses, BooksRelease, Books
  <2>3. CASE BooksPayout(o)
    BY <2>3 DEF TypeOK, Statuses, BooksPayout, Books
  <2> QED BY <1>1, <2>1, <2>2, <2>3
<1>3. CASE UNCHANGED <<status, ledgerVars>>
  <2>1. status'[o] = status[o] /\ journals'[o] = journals[o] /\ hold'[o] = hold[o]
    BY <1>3 DEF ledgerVars
  <2> QED BY <1>1, <1>2, <2>1, StatusFrame
<1>4. CASE BooksRelease(o) /\ transfer[o] = "Failed"
  BY <1>1, <1>2, <1>4, ReleaseSound
<1>5. CASE BooksPayout(o) /\ transfer[o] = "Completed"
  BY <1>1, <1>2, <1>5, PayoutSound
<1> QED BY <1>1, <1>3, <1>4, <1>5

\* The response and the reconciliation settle.
LEMMA SettleStep ==
    ASSUME TypeOK, Parts, NEW p \in Procs, NEW o \in Ops, o = proc[p].op, Settle(p)
    PROVE  TypeOK' /\ Parts'
<1>1. /\ Sound(o) /\ ProcInv(p) /\ proc[p].pc = "settle"
      /\ transfer[o] \in Reports /\ status[o] # "none"
  BY DEF Parts, Settle, At, ProcInv, Sound, OpInv, Reports
<1>2. /\ proc' \in [Procs -> ProcRec]
      /\ \A q \in Procs \ {p} : proc'[q] = proc[q]
      /\ proc'[p].pc \in {"idle"} /\ proc'[p].op = o
  BY BecomeEffect DEF Settle, PCs
<1>3. SettleTx(o, proc[p].data)
  BY DEF Settle
<1>4. /\ LedgerType' /\ status' \in [Ops -> Statuses]
      /\ \A o2 \in Ops \ {o} : /\ status'[o2] = status[o2]
                                /\ journals'[o2] = journals[o2] /\ hold'[o2] = hold[o2]
      /\ Sound(o)' /\ Stable(o)
  BY <1>1, <1>3, SettleSound DEF Settle, ProcInv, bankVars
<1>5. TypeOK'
  BY <1>2, <1>4 DEF Settle, TypeOK, ProcRec, LedgerType, bankVars
<1>6. \A o2 \in Ops \ {o} : Untouched(o2)
  BY <1>4 DEF Settle, Untouched, TypeOK, bankVars
<1>7. \A q \in Procs \ {p} : ~(proc[q].pc = "claimed" /\ proc[q].op = o)
  BY <1>1 DEF Parts, ProcInv, Reports
<1>8. ProcInv(p)'
  BY <1>1, <1>2 DEF ProcInv, Settle, bankVars
<1> QED BY <1>2, <1>4, <1>5, <1>6, <1>7, <1>8, RunStep

\* The webhook inbox settles.
LEMMA ApplyOutcomeStep ==
    ASSUME TypeOK, Parts, NEW p \in Procs, NEW o \in Ops, o = proc[p].op, ApplyOutcome(p)
    PROVE  TypeOK' /\ Parts'
<1>1. /\ Sound(o) /\ ProcInv(p) /\ proc[p].pc = "verified"
      /\ transfer[o] \in Reports /\ status[o] # "none"
  BY DEF Parts, ApplyOutcome, At, ProcInv, Sound, OpInv, Reports
<1>2. /\ proc' \in [Procs -> ProcRec]
      /\ \A q \in Procs \ {p} : proc'[q] = proc[q]
      /\ proc'[p].pc \in {"retry", "ack"} /\ proc'[p].op = o
  BY BecomeEffect DEF ApplyOutcome, PCs
<1>3. SettleTx(o, proc[p].data)
  BY DEF ApplyOutcome
<1>4. /\ LedgerType' /\ status' \in [Ops -> Statuses]
      /\ \A o2 \in Ops \ {o} : /\ status'[o2] = status[o2]
                                /\ journals'[o2] = journals[o2] /\ hold'[o2] = hold[o2]
      /\ Sound(o)' /\ Stable(o)
  BY <1>1, <1>3, SettleSound DEF ApplyOutcome, ProcInv, bankVars
<1>5. TypeOK'
  BY <1>2, <1>4 DEF ApplyOutcome, TypeOK, ProcRec, LedgerType, bankVars, InboxStatuses
<1>6. \A o2 \in Ops \ {o} : Untouched(o2)
  BY <1>4 DEF ApplyOutcome, Untouched, TypeOK, bankVars
<1>7. \A q \in Procs \ {p} : ~(proc[q].pc = "claimed" /\ proc[q].op = o)
  BY <1>1 DEF Parts, ProcInv, Reports
<1>8. ProcInv(p)'
  BY <1>1, <1>2 DEF ProcInv, ApplyOutcome, bankVars
<1> QED BY <1>2, <1>4, <1>5, <1>6, <1>7, <1>8, RunStep

\* The principal goes back only to an operation whose payout is booked.
LEMMA ApplyReversalStep ==
    ASSUME TypeOK, Parts, NEW p \in Procs, NEW o \in Ops, o = proc[p].op, ApplyReversal(p)
    PROVE  TypeOK' /\ Parts'
<1>1. /\ Sound(o) /\ ProcInv(p) /\ proc[p].pc = "verified"
      /\ transfer[o] \in Reports /\ reversed[o] /\ proc[p].kind \in Kinds
  BY DEF Parts, ApplyReversal, At, ProcInv, TypeOK
<1>2. /\ proc' \in [Procs -> ProcRec]
      /\ \A q \in Procs \ {p} : proc'[q] = proc[q]
      /\ proc'[p].pc \in {"idle", "retry"} /\ proc'[p].op = o
  BY BecomeEffect DEF ApplyReversal, PCs
<1>3. /\ inbox' \in [Ops -> [Kinds -> InboxStatuses]]
      /\ \A o2 \in Ops \ {o} : inbox'[o2] = inbox[o2]
  <2>1. \/ inbox' = inbox
        \/ inbox' = [inbox EXCEPT ![o][proc[p].kind] = "PROCESSED"]
    BY DEF ApplyReversal
  <2>2. CASE inbox' = inbox
    BY <2>2 DEF TypeOK
  <2>3. CASE inbox' = [inbox EXCEPT ![o][proc[p].kind] = "PROCESSED"]
    BY <1>1, <2>3 DEF TypeOK, InboxStatuses
  <2> QED BY <2>1, <2>2, <2>3
<1>4. \/ UNCHANGED <<status, ledgerVars>>
      \/ /\ status[o] = "SUCCEEDED" /\ Post(o, "reversal", Amount[o], 0, -Amount[o], 0)
         /\ status' = [status EXCEPT ![o] = "REVERSED"]
  BY DEF ApplyReversal
<1>5. CASE UNCHANGED <<status, ledgerVars>>
  <2>1. TypeOK'
    BY <1>2, <1>3, <1>5 DEF ApplyReversal, TypeOK, ProcRec, ledgerVars, bankVars
  <2>2. \A o2 \in Ops \ {o} : Untouched(o2)
    BY <1>3, <1>5 DEF ApplyReversal, Untouched, ledgerVars, bankVars
  <2>3. Sound(o)' /\ Stable(o)
    BY <1>1, <1>5, StatusFrame DEF ApplyReversal, ledgerVars, bankVars
  <2>4. \A q \in Procs \ {p} : ~(proc[q].pc = "claimed" /\ proc[q].op = o)
    BY <1>1 DEF Parts, ProcInv, Reports
  <2>5. ProcInv(p)'
    BY <1>1, <1>2, <1>5 DEF ProcInv, ApplyReversal, bankVars
  <2> QED BY <1>2, <2>1, <2>2, <2>3, <2>4, <2>5, RunStep
<1>6. CASE /\ status[o] = "SUCCEEDED" /\ Post(o, "reversal", Amount[o], 0, -Amount[o], 0)
           /\ status' = [status EXCEPT ![o] = "REVERSED"]
  <2>1. Amount[o] \in Int /\ -Amount[o] \in Int
    BY AmountType
  <2>2. LedgerType' /\ status' \in [Ops -> Statuses]
    BY <1>6, <2>1, PostType DEF TypeOK, LedgerType, JournalKinds, Statuses
  <2>3. TypeOK'
    BY <1>2, <1>3, <2>2 DEF ApplyReversal, TypeOK, ProcRec, LedgerType, bankVars
  <2>4. \A o2 \in Ops \ {o} : Untouched(o2)
    BY <1>3, <1>6 DEF ApplyReversal, Untouched, TypeOK, Post, bankVars
  <2>5. /\ journals[o] = {"reserve", "payout"}
        /\ journals'[o] = {"reserve", "payout", "reversal"}
        /\ status'[o] = "REVERSED"
    BY <1>1, <1>6 DEF Sound, OpInv, Post, TypeOK
  <2>6. hold'[o] = 0
    <3>1. hold[o] = 0
      BY <1>1, <2>5 DEF Sound
    <3> QED BY <1>6, <3>1 DEF Post, TypeOK
  <2>7. /\ transfer'[o] = transfer[o] /\ reversed'[o] = reversed[o]
        /\ posts'[o] = posts[o] /\ known'[o] = known[o]
    BY DEF ApplyReversal, bankVars
  <2>8. OpInv(o)'
    BY <1>1, <1>6, <2>5, <2>7 DEF Sound, OpInv
  <2>9. Sound(o)' /\ Stable(o)
    BY <1>1, <1>6, <2>5, <2>6, <2>7, <2>8 DEF Sound, OpInv, Stable
  <2>10. \A q \in Procs \ {p} : ~(proc[q].pc = "claimed" /\ proc[q].op = o)
    BY <1>1 DEF Parts, ProcInv, Reports
  <2>11. ProcInv(p)'
    BY <1>1, <1>2, <2>7 DEF ProcInv
  <2> QED BY <1>2, <2>3, <2>4, <2>9, <2>10, <2>11, RunStep
<1> QED BY <1>4, <1>5, <1>6

(***************************************************************************)
(* The invariant.                                                          *)
(***************************************************************************)
LEMMA InitInvariant == Init => TypeOK /\ Parts
<1> SUFFICES ASSUME Init PROVE TypeOK /\ Parts
  OBVIOUS
<1>1. TypeOK
  BY BoundAssumption DEF Init, TypeOK, Statuses, Transfers, InboxStatuses, PCs, NoData, Reports
<1>2. ASSUME NEW o \in Ops PROVE Sound(o)
  BY DEF Init, Sound, OpInv
<1>3. ASSUME NEW p \in Procs PROVE proc[p].pc = "idle"
  BY DEF Init
<1> QED BY <1>1, <1>2, <1>3 DEF Parts, ProcInv, OneClaimant

\* A step of a started run, which acts on the operation it remembers.
LEMMA RunInvariant ==
    ASSUME TypeOK, Parts, NEW p \in Procs,
           WorkerStep(p) \/ Uncertain(p) \/ QueryFails(p) \/ Crash(p)
    PROVE  TypeOK' /\ Parts'
<1>1. PICK o \in Ops : o = proc[p].op
  BY DEF TypeOK
<1> QED
  BY <1>1, RejectRecipientStep, SendTransferStep, RespondStep, RefusedStep,
     RecordReferenceStep, SettleStep, DiscoverStep, QueryTransferStep, VerifyEventStep,
     ApplyReversalStep, ApplyOutcomeStep, AcknowledgeStep, UncertainStep,
     QueryFailsStep, CrashStep
  DEF WorkerStep

LEMMA NextInvariant == TypeOK /\ Parts /\ [Next]_vars => TypeOK' /\ Parts'
<1> SUFFICES ASSUME TypeOK, Parts, [Next]_vars PROVE TypeOK' /\ Parts'
  OBVIOUS
<1>1. CASE UNCHANGED vars
  <2>1. TypeOK'
    BY <1>1 DEF TypeOK, vars, ledgerVars, bankVars
  <2>2. \A o \in Ops : Sound(o)'
    BY <1>1, OpFrame DEF Parts, Untouched, vars, ledgerVars, bankVars
  <2>3. \A p \in Procs : ProcInv(p)'
    BY <1>1, ProcFrame DEF Parts, Stable, Quiet, vars, ledgerVars, bankVars
  <2>4. OneClaimant'
    BY <1>1 DEF Parts, OneClaimant, vars
  <2> QED BY <2>1, <2>2, <2>3, <2>4 DEF Parts
<1>2. CASE \E o \in Ops : \/ Execute(o) \/ ExpireLease(o)
                          \/ BankTakes(o) \/ BankSettles(o) \/ BankReverses(o)
  BY <1>2, ExecuteStep, ExpireLeaseStep, BankTakesStep, BankSettlesStep, BankReversesStep
<1>3. CASE \E p \in Procs : WorkerStep(p) \/ Uncertain(p) \/ QueryFails(p) \/ Crash(p)
  BY <1>3, RunInvariant
<1>4. CASE \E p \in Procs, o \in Ops : Claim(p, o) \/ PickUncertain(p, o)
  BY <1>4, ClaimStep, PickUncertainStep
<1>5. CASE \E o \in Ops, k \in Kinds : Receive(o, k) \/ AdminRetry(o, k)
  BY <1>5, ReceiveStep, AdminRetryStep
<1>6. CASE \E p \in Procs, o \in Ops, k \in Kinds : PickEvent(p, o, k)
  BY <1>6, PickEventStep
<1> QED BY <1>1, <1>2, <1>3, <1>4, <1>5, <1>6 DEF Next

\* The inductive invariant holds in every behaviour.
THEOREM Invariant == Spec => []IInv
<1>1. Init => IInv
  BY InitInvariant, InvariantByParts DEF Parts
<1>2. IInv /\ [Next]_vars => IInv'
  <2>1. IInv <=> TypeOK /\ Parts
    BY InvariantByParts DEF Parts
  <2>2. IInv' <=> TypeOK' /\ Parts'
    BY <2>1, PTL
  <2> QED BY <2>1, <2>2, NextInvariant
<1> QED BY <1>1, <1>2, PTL DEF Spec

(***************************************************************************)
(* What a reader should know.                                              *)
(***************************************************************************)
\* Every variable keeps its type: in particular no balance of a customer
\* account ever goes below zero, whatever is posted in which order.
THEOREM TypeCorrect == Spec => []TypeOK
<1>1. IInv => TypeOK
  BY DEF IInv
<1> QED BY <1>1, Invariant, PTL

\* However many runs, timeouts, expired leases and retries there are, POST
\* /transfers is sent at most once for an operation.
THEOREM AtMostOneTransfer == Spec => []OneTransferPerOperation
<1>1. IInv => OneTransferPerOperation
  <2> SUFFICES ASSUME IInv, NEW o \in Ops PROVE posts[o] <= 1
    BY DEF OneTransferPerOperation
  <2>1. posts[o] = 0 \/ posts[o] = 1
    BY DEF IInv, OpInv
  <2> QED BY <2>1
<1> QED BY <1>1, Invariant, PTL

\* A reservation that FinanceWorker.fail gave back belongs to a transfer that
\* did not happen and cannot happen any more.
THEOREM NeverReleasedAndPaid == Spec => []ReleasedIsNeverPaid
<1>1. IInv => ReleasedIsNeverPaid
  BY DEF IInv
<1> QED BY <1>1, Invariant, PTL

\* A booked payout was completed by the bank and a returned principal was
\* reversed by it.
THEOREM NothingBookedInAdvance == Spec => []BookedIsReal
<1>1. IInv => BookedIsReal
  BY DEF IInv
<1> QED BY <1>1, Invariant, PTL

\* A terminal status has its journal.
THEOREM TerminalHasJournal == Spec => []TerminalIsBooked
<1>1. IInv => TerminalIsBooked
  BY DEF IInv
<1> QED BY <1>1, Invariant, PTL

\* The hold of an operation is the whole reservation or nothing: no part of it
\* is stranded, and none of it is consumed twice.
THEOREM HoldIsAllOrNothing == Spec => []HoldFollowsJournals
<1>1. IInv => HoldFollowsJournals
  BY DEF IInv
<1> QED BY <1>1, Invariant, PTL

(***************************************************************************)
(* The money.  A step posts one journal or none; a journal adds to zero,   *)
(* and what it takes from the wallet is what it adds to what o owes.       *)
(***************************************************************************)
\* The journals that are posted, and when.
Posts(o) ==
    \/ status[o] = "none" /\ Post(o, "reserve", -Reserved(o), Reserved(o), 0, 0)
    \/ PostRelease(o)
    \/ PostPayout(o)
    \/ status[o] = "SUCCEEDED" /\ Post(o, "reversal", Amount[o], 0, -Amount[o], 0)

LEMMA OnePosting ==
    ASSUME TypeOK, [Next]_vars
    PROVE  fee' = fee /\ (UNCHANGED ledgerVars \/ \E o \in Ops : Posts(o))
<1> DEFINE Good == fee' = fee /\ (UNCHANGED ledgerVars \/ \E o \in Ops : Posts(o))
<1>1. ASSUME NEW o \in Ops, SettleTx(o, NoData) \/ FailTx(o) \/ CompleteTx(o)
      PROVE  UNCHANGED ledgerVars \/ Posts(o)
  BY <1>1 DEF SettleTx, FailTx, CompleteTx, Posts, NoData
<1>2. CASE UNCHANGED vars
  BY <1>2 DEF vars, bankVars
<1>3. CASE \E o \in Ops : \/ Execute(o) \/ ExpireLease(o)
                          \/ BankTakes(o) \/ BankSettles(o) \/ BankReverses(o)
  BY <1>3 DEF Execute, ExpireLease, BankTakes, BankSettles, BankReverses, Posts, bankVars
<1>4. CASE \E p \in Procs : WorkerStep(p)
  <2>1. PICK p \in Procs : WorkerStep(p)
    BY <1>4
  <2>2. proc[p].op \in Ops
    BY DEF TypeOK
  <2>3. CASE RejectRecipient(p) \/ Refused(p)
    BY <1>1, <2>2, <2>3 DEF RejectRecipient, Refused, bankVars
  <2>4. CASE Settle(p) \/ ApplyOutcome(p)
    <3>1. /\ SettleTx(proc[p].op, proc[p].data) /\ fee' = fee
      BY <2>4 DEF Settle, ApplyOutcome, bankVars
    <3>2. FailTx(proc[p].op) \/ CompleteTx(proc[p].op) \/ UNCHANGED ledgerVars
      BY <3>1 DEF SettleTx
    <3> QED BY <1>1, <2>2, <3>1, <3>2
  <2>5. CASE ApplyReversal(p)
    BY <2>2, <2>5 DEF ApplyReversal, Posts, bankVars
  <2>6. CASE SendTransfer(p) \/ Respond(p) \/ RecordReference(p) \/ Discover(p)
             \/ QueryTransfer(p) \/ VerifyEvent(p) \/ Acknowledge(p)
    BY <2>6 DEF SendTransfer, Respond, RecordReference, Discover, QueryTransfer, VerifyEvent,
                Acknowledge, bankVars
  <2> QED BY <2>1, <2>3, <2>4, <2>5, <2>6 DEF WorkerStep
<1>5. CASE \E p \in Procs : Uncertain(p) \/ QueryFails(p) \/ Crash(p)
  BY <1>5 DEF Uncertain, QueryFails, Crash, bankVars
<1>6. CASE \E p \in Procs, o \in Ops : Claim(p, o) \/ PickUncertain(p, o)
  BY <1>6 DEF Claim, PickUncertain, bankVars
<1>7. CASE \E o \in Ops, k \in Kinds : Receive(o, k) \/ AdminRetry(o, k)
  BY <1>7 DEF Receive, AdminRetry, bankVars
<1>8. CASE \E p \in Procs, o \in Ops, k \in Kinds : PickEvent(p, o, k)
  BY <1>8 DEF PickEvent, bankVars
<1> QED BY <1>2, <1>3, <1>4, <1>5, <1>6, <1>7, <1>8 DEF Next

OwedNat == \A o \in Ops : Owed(o) \in Nat

LEMMA OwedType == TypeOK => OwedNat
<1> SUFFICES ASSUME TypeOK, NEW o \in Ops PROVE Owed(o) \in Nat
  BY DEF OwedNat
<1>1. /\ Amount[o] \in Nat \ {0} /\ Quote \in Nat /\ fee[o] \in Nat
  BY AmountType
<1>2. Reserved(o) \in Nat /\ Reserved(o) - Refunded(o) \in Nat /\ Quote - Refunded(o) \in Nat
  BY <1>1 DEF Reserved, Refunded
<1> QED BY <1>2 DEF Owed

\* The amounts w, h, c, v of a journal of o, and what o owes after it.
Balanced(o, w, h, c, v) ==
    /\ wallet' = wallet + w /\ clearing' = clearing + c /\ variance' = variance + v
    /\ hold' = [hold EXCEPT ![o] = @ + h] /\ w + h + c + v = 0
    /\ Owed(o)' = Owed(o) - w

LEMMA PostingBalances ==
    ASSUME TypeOK, TypeOK', NEW o \in Ops, Sound(o), Posts(o), fee' = fee
    PROVE  \E w, h, c, v \in Int : Balanced(o, w, h, c, v)
<1>1. /\ Amount[o] \in Nat \ {0} /\ Quote \in Nat /\ fee[o] \in Nat /\ hold[o] \in Nat
      /\ Reserved(o) \in Nat \ {0} /\ Refunded(o) \in Nat /\ Excess(o) \in Int
      /\ Reserved(o)' = Reserved(o) /\ Refunded(o)' = Refunded(o)
  BY AmountType DEF TypeOK, Reserved, Refunded
<1>2. ASSUME NEW j \in JournalKinds, NEW w \in Int, NEW h \in Int, NEW c \in Int, NEW v \in Int,
             Post(o, j, w, h, c, v)
      PROVE  /\ wallet' = wallet + w /\ clearing' = clearing + c /\ variance' = variance + v
             /\ hold' = [hold EXCEPT ![o] = @ + h] /\ hold[o] + h >= 0
             /\ j \notin journals[o] /\ journals'[o] = journals[o] \cup {j}
  BY <1>2 DEF Post, CanPost, TypeOK
<1>3. CASE status[o] = "none" /\ Post(o, "reserve", -Reserved(o), Reserved(o), 0, 0)
  <2>1. journals[o] = {}
    BY <1>3 DEF Sound, OpInv
  <2>2. -Reserved(o) \in Int /\ Reserved(o) \in Int /\ "reserve" \in JournalKinds
    BY <1>1 DEF JournalKinds
  <2>3. Owed(o) = 0 /\ Owed(o)' = Reserved(o)
    BY <1>1, <1>2, <1>3, <2>1, <2>2 DEF Owed
  <2>4. Balanced(o, -Reserved(o), Reserved(o), 0, 0)
    BY <1>1, <1>2, <1>3, <2>2, <2>3 DEF Balanced
  <2> QED BY <2>2, <2>4
<1>4. CASE PostRelease(o)
  <2>1. -Reserved(o) \in Int /\ Reserved(o) \in Int /\ "release" \in JournalKinds
    BY <1>1 DEF JournalKinds
  <2>2. Post(o, "release", Reserved(o), -Reserved(o), 0, 0)
    BY <1>4 DEF PostRelease
  <2>3. hold[o] + (-Reserved(o)) >= 0
    BY <1>2, <2>1, <2>2
  <2>4. journals[o] = {"reserve"}
    BY <1>1, <2>3 DEF Sound
  <2>5. Owed(o) = Reserved(o) /\ Owed(o)' = 0
    BY <1>1, <1>2, <2>1, <2>2, <2>4 DEF Owed
  <2>6. Balanced(o, Reserved(o), -Reserved(o), 0, 0)
    BY <1>1, <1>2, <2>1, <2>2, <2>5 DEF Balanced
  <2> QED BY <2>1, <2>6
<1>5. CASE PostPayout(o)
  <2>1. /\ -Reserved(o) \in Int /\ Refunded(o) \in Int /\ Amount[o] + fee[o] \in Int
        /\ Excess(o) \in Int /\ "payout" \in JournalKinds
    BY <1>1 DEF JournalKinds
  <2>2. Post(o, "payout", Refunded(o), -Reserved(o), Amount[o] + fee[o], Excess(o))
    BY <1>5 DEF PostPayout
  <2>3. hold[o] + (-Reserved(o)) >= 0
    BY <1>2, <2>1, <2>2
  <2>4. journals[o] = {"reserve"}
    BY <1>1, <2>3 DEF Sound
  <2>5. Owed(o) = Reserved(o) /\ Owed(o)' = Reserved(o) - Refunded(o)
    BY <1>1, <1>2, <2>1, <2>2, <2>4 DEF Owed
  <2>6. Refunded(o) + (-Reserved(o)) + (Amount[o] + fee[o]) + Excess(o) = 0
    BY <1>1 DEF Refunded, Reserved, Excess
  <2>7. Balanced(o, Refunded(o), -Reserved(o), Amount[o] + fee[o], Excess(o))
    BY <1>2, <2>1, <2>2, <2>5, <2>6 DEF Balanced
  <2> QED BY <2>1, <2>7
<1>6. CASE status[o] = "SUCCEEDED" /\ Post(o, "reversal", Amount[o], 0, -Amount[o], 0)
  <2>1. Amount[o] \in Int /\ -Amount[o] \in Int /\ "reversal" \in JournalKinds
    BY <1>1 DEF JournalKinds
  <2>2. journals[o] = {"reserve", "payout"}
    BY <1>6 DEF Sound, OpInv
  <2>3. Owed(o) = Reserved(o) - Refunded(o) /\ Owed(o)' = Quote - Refunded(o)
    BY <1>1, <1>2, <1>6, <2>1, <2>2 DEF Owed
  <2>4. Reserved(o) = Amount[o] + Quote
    BY DEF Reserved
  <2>5. /\ Amount[o] + 0 + (-Amount[o]) + 0 = 0
        /\ Quote - Refunded(o) = (Amount[o] + Quote - Refunded(o)) - Amount[o]
    BY <1>1
  <2>6. /\ wallet' = wallet + Amount[o] /\ clearing' = clearing + (-Amount[o])
        /\ variance' = variance + 0 /\ hold' = [hold EXCEPT ![o] = @ + 0]
    BY <1>6 DEF Post
  <2>7. Balanced(o, Amount[o], 0, -Amount[o], 0)
    <3>1. Owed(o)' = Owed(o) - Amount[o]
      BY <1>1, <2>3, <2>4, <2>5
    <3> QED BY <2>5, <2>6, <3>1 DEF Balanced
  <2> QED BY <2>1, <2>7
<1> QED BY <1>3, <1>4, <1>5, <1>6 DEF Posts

\* Whatever is lost, repeated or answered late, no unit of the deposit is lost or made, and
\* the wallet is short of exactly what the journals of FinanceWorker took from it.
THEOREM MoneyConserved == Spec => []MoneyIsConserved
<1>1. Init => MoneyIsConserved
  <2> SUFFICES ASSUME Init PROVE MoneyIsConserved
    OBVIOUS
  <2>1. \A o \in Ops : hold[o] = 0 /\ [x \in Ops |-> Owed(x)][o] = 0
    BY DEF Init, Owed
  <2>2. Sum(hold, Ops) = 0
    BY <2>1, SumZero
  <2>3. Sum([x \in Ops |-> Owed(x)], Ops) = 0
    BY <2>1, SumZero
  <2> QED BY <2>2, <2>3, BoundAssumption DEF Init, MoneyIsConserved
<1>2. IInv /\ IInv' /\ MoneyIsConserved /\ [Next]_vars => MoneyIsConserved'
  <2> SUFFICES ASSUME IInv, IInv', MoneyIsConserved, [Next]_vars PROVE MoneyIsConserved'
    OBVIOUS
  <2>1. /\ TypeOK /\ TypeOK' /\ \A o \in Ops : Sound(o)
    BY InvariantByParts DEF IInv
  <2>2. IsFiniteSet(Ops)
    BY AmountAssumption
  <2> DEFINE owed == [x \in Ops |-> Owed(x)]
             owing == [x \in Ops |-> Owed(x)']
  <2>3. \A x \in Ops : owed[x] \in Nat /\ owing[x] \in Nat /\ hold[x] \in Nat /\ hold'[x] \in Nat
    <3>1. TypeOK'
      BY <2>1
    <3>2. OwedNat /\ OwedNat'
      BY <2>1, <3>1, OwedType, PTL
    <3> QED BY <2>1, <3>2 DEF TypeOK, OwedNat
  <2>4. fee' = fee
    BY <2>1, OnePosting
  <2>7. ASSUME NEW o \in Ops, NEW f, NEW g, \A x \in Ops : f[x] \in Nat /\ g[x] \in Nat,
               \A x \in Ops \ {o} : f[x] = g[x]
        PROVE  /\ Sum(g, Ops) = Sum(f, Ops) + g[o] - f[o]
               /\ Sum(f, Ops) \in Nat /\ Sum(g, Ops) \in Nat
    BY <2>2, <2>7, SumChanges, SumType
  <2>5. CASE UNCHANGED ledgerVars
    <3>1. owing = owed
      BY <2>4, <2>5 DEF Owed, ledgerVars, Reserved, Refunded
    <3> QED BY <2>5, <3>1 DEF MoneyIsConserved, ledgerVars
  <2>6. CASE \E o \in Ops : Posts(o)
    <3>1. PICK o \in Ops : Posts(o)
      BY <2>6
    <3>2. PICK w, h, c, v \in Int : Balanced(o, w, h, c, v)
      BY <2>1, <2>4, <3>1, PostingBalances
    <3>3. \A x \in Ops \ {o} : owed[x] = owing[x] /\ hold[x] = hold'[x]
      <4>1. \A x \in Ops \ {o} : journals'[x] = journals[x] /\ hold[x] = hold'[x]
        BY <2>1, <3>1 DEF Posts, PostRelease, PostPayout, Post, TypeOK
      <4> QED BY <2>4, <4>1 DEF Owed, Reserved, Refunded
    <3>4. hold'[o] = hold[o] + h /\ owing[o] = owed[o] - w
      BY <2>1, <3>2 DEF Balanced, TypeOK
    <3>5. /\ Sum(owing, Ops) = Sum(owed, Ops) + owing[o] - owed[o]
          /\ Sum(owed, Ops) \in Nat /\ Sum(owing, Ops) \in Nat
      <4> HIDE DEF owed, owing
      <4> QED BY <2>3, <2>7, <3>3
    <3>6. /\ Sum(hold', Ops) = Sum(hold, Ops) + hold'[o] - hold[o]
          /\ Sum(hold, Ops) \in Nat /\ Sum(hold', Ops) \in Nat
      BY <2>3, <2>7, <3>3
    <3>7. /\ wallet + Sum(hold, Ops) + clearing + variance = Deposit
          /\ wallet = Deposit - Sum(owed, Ops)
          /\ wallet \in Int /\ clearing \in Int /\ variance \in Int /\ Deposit \in Nat
      BY <2>1, BoundAssumption DEF MoneyIsConserved, TypeOK
    <3>8. /\ wallet' = wallet + w /\ clearing' = clearing + c /\ variance' = variance + v
          /\ w + h + c + v = 0
      BY <3>2 DEF Balanced
    <3>9. /\ wallet' + Sum(hold', Ops) + clearing' + variance' = Deposit
          /\ wallet' = Deposit - Sum(owing, Ops)
      <4> HIDE DEF owed, owing
      <4>1. owed[o] \in Nat /\ owing[o] \in Nat /\ hold[o] \in Nat /\ hold'[o] \in Nat
        BY <2>3
      <4> QED BY <3>4, <3>5, <3>6, <3>7, <3>8, <4>1
    <3> QED BY <3>9 DEF MoneyIsConserved
  <2> QED BY <2>1, <2>5, <2>6, OnePosting
<1> QED BY <1>1, <1>2, Invariant, PTL DEF Spec

(***************************************************************************)
(* Withdrawals implements Payout.  The inductive invariant says what a run *)
(* may still rely on when it books; each step is one of the moves Payout   *)
(* allows, or leaves both views of the money as they are.                  *)
(***************************************************************************)
\* Both views of o depend on these columns only.
SameViews(o) == /\ journals'[o] = journals[o]
                /\ transfer'[o] = transfer[o] /\ reversed'[o] = reversed[o]

\* What Payout may do with one operation.
Allowed(o) ==
    \/ Money(o)' = Money(o) /\ Bank(o)' = Bank(o)
    \/ Money(o) = "none" /\ Money(o)' = "reserved" /\ Bank(o)' = Bank(o)
    \/ /\ Bank(o) = "open" /\ Money(o) = "reserved"
       /\ Bank(o)' = "moved" /\ Money(o)' = Money(o)
    \/ Bank(o) = "open" /\ Bank(o)' = "dead" /\ Money(o)' = Money(o)
    \/ Bank(o) = "moved" /\ Bank(o)' = "reversed" /\ Money(o)' = Money(o)
    \/ /\ Money(o) = "reserved" /\ Bank(o) \in {"open", "dead"}
       /\ Money(o)' = "released" /\ Bank(o)' = "dead"
    \/ /\ Money(o) = "reserved" /\ Bank(o) \in {"moved", "reversed"}
       /\ Money(o)' = "paid" /\ Bank(o)' = Bank(o)
    \/ /\ Money(o) = "paid" /\ Bank(o) = "reversed"
       /\ Money(o)' = "returned" /\ Bank(o)' = Bank(o)

\* A step that moves one operation as Payout allows, and no other, is a step of
\* Payout or a stutter.
LEMMA AbstractStep ==
    ASSUME NEW o \in Ops, Allowed(o),
           \A o2 \in Ops \ {o} : SameViews(o2)
    PROVE  [P!PayoutNext]_P!payoutVars
<1> DEFINE money == [x \in Ops |-> Money(x)]
           bank == [x \in Ops |-> Bank(x)]
           moneyNext == [x \in Ops |-> Money(x)']
           bankNext == [x \in Ops |-> Bank(x)']
<1>1. \A o2 \in Ops \ {o} : Money(o2)' = Money(o2) /\ Bank(o2)' = Bank(o2)
  BY DEF SameViews, Money, Bank
<1>2. /\ moneyNext = [money EXCEPT ![o] = Money(o)']
      /\ bankNext = [bank EXCEPT ![o] = Bank(o)']
  BY <1>1
<1>3. money[o] = Money(o) /\ bank[o] = Bank(o)
  OBVIOUS
<1>4. /\ Money(o)' = Money(o) => moneyNext = money
      /\ Bank(o)' = Bank(o) => bankNext = bank
  BY <1>2
<1> HIDE DEF money, bank, moneyNext, bankNext
<1>5. \/ moneyNext = money /\ bankNext = bank
      \/ \E x \in Ops :
            \/ /\ money[x] = "none" /\ moneyNext = [money EXCEPT ![x] = "reserved"]
               /\ bankNext = bank
            \/ /\ bank[x] = "open" /\ money[x] = "reserved"
               /\ bankNext = [bank EXCEPT ![x] = "moved"] /\ moneyNext = money
            \/ /\ bank[x] = "open" /\ bankNext = [bank EXCEPT ![x] = "dead"]
               /\ moneyNext = money
            \/ /\ bank[x] = "moved" /\ bankNext = [bank EXCEPT ![x] = "reversed"]
               /\ moneyNext = money
            \/ /\ money[x] = "reserved" /\ bank[x] \in {"open", "dead"}
               /\ moneyNext = [money EXCEPT ![x] = "released"]
               /\ bankNext = [bank EXCEPT ![x] = "dead"]
            \/ /\ money[x] = "reserved" /\ bank[x] \in {"moved", "reversed"}
               /\ moneyNext = [money EXCEPT ![x] = "paid"] /\ bankNext = bank
            \/ /\ money[x] = "paid" /\ bank[x] = "reversed"
               /\ moneyNext = [money EXCEPT ![x] = "returned"] /\ bankNext = bank
  BY <1>2, <1>3, <1>4 DEF Allowed
<1> QED
  BY <1>5 DEF money, bank, moneyNext, bankNext, P!PayoutNext, P!payoutVars, P!Reserve, P!Move,
              P!Die, P!Reverse, P!Release, P!Pay, P!Return

(***************************************************************************)
(* The steps.                                                              *)
(***************************************************************************)
\* A step that leaves journals and transfers alone is a stutter.
LEMMA StutterStep ==
    ASSUME UNCHANGED <<journals, transfer, reversed>>
    PROVE  [P!PayoutNext]_P!payoutVars
<1>1. \A o \in Ops : Money(o)' = Money(o) /\ Bank(o)' = Bank(o)
  BY DEF Money, Bank
<1> QED BY <1>1 DEF P!payoutVars

\* A command takes the amount and the fee from the wallet.
LEMMA ReserveStep ==
    ASSUME TypeOK, NEW o \in Ops, Sound(o), Execute(o)
    PROVE  [P!PayoutNext]_P!payoutVars
<1>1. /\ journals' = [journals EXCEPT ![o] = @ \cup {"reserve"}]
      /\ UNCHANGED <<transfer, reversed>>
  BY DEF Execute, Post, bankVars
<1>2. journals[o] = {} /\ journals'[o] = {"reserve"}
  BY <1>1 DEF Execute, Sound, OpInv, TypeOK
<1>3. \A o2 \in Ops \ {o} : SameViews(o2)
  BY <1>1 DEF SameViews, TypeOK
<1>4. Allowed(o)
  BY <1>1, <1>2 DEF Allowed, Money, Bank
<1> QED BY <1>3, <1>4, AbstractStep

\* fail gives a reservation back only where nothing was sent, or the bank
\* refused or failed the transfer.
LEMMA ReleaseStep ==
    ASSUME TypeOK, NEW o \in Ops, Sound(o), status[o] # "none", FailTx(o),
           transfer[o] \in {"none", "refused", "Failed"},
           UNCHANGED <<transfer, reversed>>
    PROVE  [P!PayoutNext]_P!payoutVars
<1>1. CASE UNCHANGED <<status, ledgerVars>>
  BY <1>1, StutterStep DEF ledgerVars
<1>2. CASE BooksRelease(o)
  <2>1. /\ journals[o] = {"reserve"} /\ journals'[o] = {"reserve", "release"}
        /\ \A o2 \in Ops \ {o} : SameViews(o2)
    BY <1>2 DEF BooksRelease, Books, SameViews, TypeOK
  <2>2. ~reversed[o]
    BY DEF Sound, OpInv, TypeOK
  <2>3. Money(o) = "reserved" /\ Money(o)' = "released"
    BY <2>1 DEF Money
  <2>4. Bank(o) \in {"open", "dead"} /\ Bank(o)' = "dead"
    BY <2>1, <2>2 DEF Bank
  <2> QED BY <2>1, <2>3, <2>4, AbstractStep DEF Allowed
<1> QED BY <1>1, <1>2, FailEffect

\* The payout is booked only for a transfer that happened.
LEMMA PayStep ==
    ASSUME TypeOK, NEW o \in Ops, Sound(o), status[o] # "none", CompleteTx(o),
           transfer[o] = "Completed",
           UNCHANGED <<transfer, reversed>>
    PROVE  [P!PayoutNext]_P!payoutVars
<1>1. CASE UNCHANGED <<status, ledgerVars>>
  BY <1>1, StutterStep DEF ledgerVars
<1>2. CASE BooksPayout(o)
  <2>1. /\ journals[o] = {"reserve"} /\ journals'[o] = {"reserve", "payout"}
        /\ \A o2 \in Ops \ {o} : SameViews(o2)
    BY <1>2 DEF BooksPayout, Books, SameViews, TypeOK
  <2>2. Money(o) = "reserved" /\ Money(o)' = "paid"
    BY <2>1 DEF Money
  <2>3. Bank(o) \in {"moved", "reversed"} /\ Bank(o)' = Bank(o)
    BY <2>1 DEF Bank
  <2> QED BY <2>1, <2>2, <2>3, AbstractStep DEF Allowed
<1> QED BY <1>1, <1>2, CompleteEffect

\* settleWithdrawal acts on what it read; a final outcome that was read still holds.
LEMMA SettleTxStep ==
    ASSUME TypeOK, NEW o \in Ops, Sound(o), NEW d, SettleTx(o, d),
           transfer[o] \in Reports, d.status # "Processing" => transfer[o] = d.status,
           UNCHANGED <<transfer, reversed>>
    PROVE  [P!PayoutNext]_P!payoutVars
<1>1. status[o] # "none"
  BY DEF Sound, OpInv, Reports
<1>2. CASE d.status = "Failed" /\ FailTx(o)
  BY <1>1, <1>2, ReleaseStep
<1>3. CASE d.status = "Completed" /\ CompleteTx(o)
  BY <1>1, <1>3, PayStep
<1>4. CASE UNCHANGED <<status, ledgerVars>>
  BY <1>4, StutterStep DEF ledgerVars
<1> QED BY <1>2, <1>3, <1>4 DEF SettleTx

\* The principal returns after the payout was booked and the bank reversed it.
LEMMA ReturnStep ==
    ASSUME TypeOK, NEW p \in Procs, NEW o \in Ops, o = proc[p].op, Sound(o), ProcInv(p),
           ApplyReversal(p)
    PROVE  [P!PayoutNext]_P!payoutVars
<1>1. UNCHANGED <<transfer, reversed>> /\ reversed[o]
  BY DEF ApplyReversal, At, ProcInv, bankVars
<1>2. CASE UNCHANGED <<status, ledgerVars>>
  BY <1>1, <1>2, StutterStep DEF ledgerVars
<1>3. CASE status[o] = "SUCCEEDED" /\ Post(o, "reversal", Amount[o], 0, -Amount[o], 0)
  <2>1. /\ journals[o] = {"reserve", "payout"}
        /\ journals' = [journals EXCEPT ![o] = @ \cup {"reversal"}]
    BY <1>3 DEF Sound, OpInv, Post
  <2>2. journals'[o] = {"reserve", "payout", "reversal"}
    BY <2>1 DEF TypeOK
  <2>3. \A o2 \in Ops \ {o} : SameViews(o2)
    BY <1>1, <2>1 DEF SameViews, TypeOK
  <2>4. Money(o) = "paid" /\ Money(o)' = "returned"
    BY <2>1, <2>2 DEF Money
  <2>5. /\ transfer[o] = "Completed" /\ reversed[o] = TRUE
        /\ transfer'[o] = "Completed" /\ reversed'[o] = TRUE
    BY <1>1 DEF Sound, OpInv, TypeOK
  <2>6. Bank(o) = "reversed"
    BY <2>1, <2>5 DEF Bank
  <2>7. Bank(o)' = "reversed"
    BY <2>2, <2>5 DEF Bank
  <2> QED BY <2>3, <2>4, <2>6, <2>7, AbstractStep DEF Allowed
<1> QED BY <1>2, <1>3 DEF ApplyReversal

\* What the bank does: a transfer it completes belongs to money still reserved.
LEMMA BankStep ==
    ASSUME TypeOK, NEW o \in Ops, Sound(o),
           BankTakes(o) \/ BankSettles(o) \/ BankReverses(o)
    PROVE  [P!PayoutNext]_P!payoutVars
<1>1. journals' = journals /\ \A o2 \in Ops \ {o} : SameViews(o2)
  BY DEF BankTakes, BankSettles, BankReverses, SameViews, TypeOK, ledgerVars
<1>2. Money(o)' = Money(o)
  BY <1>1 DEF Money
<1>3. CASE BankTakes(o)
  <2>1. /\ transfer[o] = "sent" /\ transfer'[o] \in {"Processing", "refused"}
        /\ ~reversed[o] /\ ~reversed'[o]
    BY <1>3 DEF BankTakes, TypeOK, Sound, OpInv
  <2>2. Bank(o) = "open" /\ Bank(o)' \in {"open", "dead"}
    BY <2>1 DEF Bank
  <2> QED BY <1>1, <1>2, <2>2, AbstractStep DEF Allowed
<1>4. CASE BankSettles(o)
  <2>1. /\ transfer[o] = "Processing" /\ transfer'[o] \in {"Completed", "Failed"}
        /\ ~reversed[o] /\ ~reversed'[o]
    BY <1>4 DEF BankSettles, TypeOK, Sound, OpInv
  <2>2. Bank(o) = "open" /\ Bank(o)' \in {"moved", "dead"}
    BY <2>1 DEF Bank
  <2>3. journals[o] = {"reserve"}
    BY <2>1 DEF Sound, OpInv
  <2>4. Money(o) = "reserved"
    BY <2>3 DEF Money
  <2> QED BY <1>1, <1>2, <2>2, <2>4, AbstractStep DEF Allowed
<1>5. CASE BankReverses(o)
  <2>1. /\ transfer[o] = "Completed" /\ transfer'[o] = "Completed"
        /\ ~reversed[o] /\ reversed'[o]
    BY <1>5 DEF BankReverses, TypeOK
  <2>2. Bank(o) = "moved" /\ Bank(o)' = "reversed"
    BY <2>1 DEF Bank
  <2> QED BY <1>1, <1>2, <2>2, AbstractStep DEF Allowed
<1> QED BY <1>3, <1>4, <1>5

\* A step of a run.  Sending does not change a view: what is sent is still open.
LEMMA RunAbstract ==
    ASSUME TypeOK, Parts, NEW p \in Procs,
           WorkerStep(p) \/ Uncertain(p) \/ QueryFails(p) \/ Crash(p)
    PROVE  [P!PayoutNext]_P!payoutVars
<1>1. PICK o \in Ops : o = proc[p].op
  BY DEF TypeOK
<1>2. Sound(o) /\ ProcInv(p)
  BY DEF Parts
<1>3. CASE RejectRecipient(p)
  <2>1. /\ FailTx(o) /\ status[o] # "none" /\ transfer[o] = "none"
        /\ UNCHANGED <<transfer, reversed>>
    BY <1>1, <1>2, <1>3 DEF RejectRecipient, At, ProcInv, bankVars
  <2> QED BY <1>2, <2>1, ReleaseStep
<1>4. CASE SendTransfer(p)
  <2>1. /\ journals[o] = {"reserve"} /\ transfer[o] = "none" /\ ~reversed[o]
        /\ journals' = journals /\ transfer' = [transfer EXCEPT ![o] = "sent"]
        /\ reversed' = reversed
    BY <1>1, <1>2, <1>4 DEF SendTransfer, At, ProcInv, Sound, OpInv, TypeOK, ledgerVars
  <2>2. transfer'[o] = "sent" /\ \A o2 \in Ops \ {o} : SameViews(o2)
    BY <2>1 DEF SameViews, TypeOK
  <2>3. Money(o)' = Money(o)
    BY <2>1 DEF Money
  <2>4. Bank(o)' = Bank(o)
    BY <2>1, <2>2 DEF Bank
  <2> QED BY <2>2, <2>3, <2>4, AbstractStep DEF Allowed
<1>5. CASE Refused(p)
  <2>1. /\ FailTx(o) /\ transfer[o] = "refused" /\ UNCHANGED <<transfer, reversed>>
    BY <1>1, <1>5 DEF Refused, bankVars
  <2>2. status[o] # "none"
    BY <1>2, <2>1 DEF Sound, OpInv
  <2> QED BY <1>2, <2>1, <2>2, ReleaseStep
<1>6. CASE Settle(p)
  <2>1. /\ SettleTx(o, proc[p].data) /\ transfer[o] \in Reports
        /\ proc[p].data.status # "Processing" => transfer[o] = proc[p].data.status
        /\ UNCHANGED <<transfer, reversed>>
    BY <1>1, <1>2, <1>6 DEF Settle, At, ProcInv, bankVars
  <2> QED BY <1>2, <2>1, SettleTxStep
<1>7. CASE ApplyOutcome(p)
  <2>1. /\ SettleTx(o, proc[p].data) /\ transfer[o] \in Reports
        /\ proc[p].data.status # "Processing" => transfer[o] = proc[p].data.status
        /\ UNCHANGED <<transfer, reversed>>
    BY <1>1, <1>2, <1>7 DEF ApplyOutcome, At, ProcInv, bankVars
  <2> QED BY <1>2, <2>1, SettleTxStep
<1>8. CASE ApplyReversal(p)
  BY <1>1, <1>2, <1>8, ReturnStep
<1>9. CASE \/ Respond(p) \/ RecordReference(p) \/ Discover(p) \/ QueryTransfer(p)
           \/ VerifyEvent(p) \/ Acknowledge(p)
           \/ Uncertain(p) \/ QueryFails(p) \/ Crash(p)
  <2>1. UNCHANGED <<journals, transfer, reversed>>
    BY <1>9 DEF Respond, RecordReference, Discover, QueryTransfer, VerifyEvent, Acknowledge,
                Uncertain, QueryFails, Crash, ledgerVars, bankVars
  <2> QED BY <2>1, StutterStep
<1> QED BY <1>3, <1>4, <1>5, <1>6, <1>7, <1>8, <1>9 DEF WorkerStep

\* Every step of the worker, the inbox, the administrator and the bank.
LEMMA NextAbstract == TypeOK /\ Parts /\ [Next]_vars => [P!PayoutNext]_P!payoutVars
<1> SUFFICES ASSUME TypeOK, Parts, [Next]_vars PROVE [P!PayoutNext]_P!payoutVars
  OBVIOUS
<1>1. CASE UNCHANGED vars
  BY <1>1, StutterStep DEF vars, ledgerVars, bankVars
<1>2. CASE \E o \in Ops : Execute(o)
  BY <1>2, ReserveStep DEF Parts
<1>3. CASE \E o \in Ops : BankTakes(o) \/ BankSettles(o) \/ BankReverses(o)
  BY <1>3, BankStep DEF Parts
<1>4. CASE \E p \in Procs : WorkerStep(p) \/ Uncertain(p) \/ QueryFails(p) \/ Crash(p)
  BY <1>4, RunAbstract
<1>5. CASE \/ \E o \in Ops : ExpireLease(o)
           \/ \E p \in Procs, o \in Ops : Claim(p, o) \/ PickUncertain(p, o)
           \/ \E o \in Ops, k \in Kinds : Receive(o, k) \/ AdminRetry(o, k)
           \/ \E p \in Procs, o \in Ops, k \in Kinds : PickEvent(p, o, k)
  <2>1. UNCHANGED <<journals, transfer, reversed>>
    BY <1>5 DEF ExpireLease, Claim, PickUncertain, Receive, AdminRetry, PickEvent,
                ledgerVars, bankVars
  <2> QED BY <2>1, StutterStep
<1> QED BY <1>1, <1>2, <1>3, <1>4, <1>5 DEF Next

LEMMA InitAbstract == Init => P!PayoutInit
<1> SUFFICES ASSUME Init PROVE P!PayoutInit
  OBVIOUS
<1>1. \A o \in Ops : journals[o] = {} /\ transfer[o] = "none" /\ reversed[o] = FALSE
  BY DEF Init
<1>2. \A o \in Ops : Money(o) = "none"
  BY <1>1 DEF Money
<1>3. \A o \in Ops : Bank(o) = "open"
  BY <1>1 DEF Bank
<1> QED BY <1>2, <1>3 DEF P!PayoutInit

\* Worker, inbox and administrator together keep the promise of Payout: money is
\* released only when it cannot be transferred any more, booked as paid only
\* when it was, and returned only when the bank took it back.
THEOREM Refinement == Spec => ImplementsPayout
<1>1. IInv => TypeOK /\ Parts
  BY InvariantByParts DEF Parts
<1>2. IInv /\ [Next]_vars => [P!PayoutNext]_P!payoutVars
  BY <1>1, NextAbstract
<1> QED BY <1>2, InitAbstract, Invariant, PTL DEF Spec, ImplementsPayout, P!PayoutSpec
===============================================================================
