----------------------------- MODULE MCWithdrawals -----------------------------
(***************************************************************************)
(* Small instances of Withdrawals: the amounts, what the scheduled job     *)
(* makes fair, and the promise of Payout.                                  *)
(***************************************************************************)
EXTENDS Withdrawals, TLC

MCAmount == [o \in Ops |-> 2]
MCSymmetry == Permutations(Procs) \cup Permutations(Ops)

\* How the code's state shows the two views of Payout.  A transfer that was
\* never sent is dead once the reservation is released.
Money(o) ==
    LET j == journals[o] IN
    CASE "reversal" \in j -> "returned"
      [] "payout" \in j /\ "reversal" \notin j -> "paid"
      [] "release" \in j /\ "payout" \notin j -> "released"
      [] j = {"reserve"} -> "reserved"
      [] OTHER -> "none"

Bank(o) ==
    CASE reversed[o] -> "reversed"
      [] transfer[o] = "Completed" /\ ~reversed[o] -> "moved"
      [] transfer[o] \in {"refused", "Failed"} -> "dead"
      [] transfer[o] = "none" /\ "release" \in journals[o] -> "dead"
      [] OTHER -> "open"

P == INSTANCE Payout WITH money <- [o \in Ops |-> Money(o)],
                          bank <- [o \in Ops |-> Bank(o)]

\* Worker, webhook inbox and administrator together keep the promise of
\* Payout at every step: release only what can no longer be transferred, pay
\* only what was, return only what the bank took back.
ImplementsPayout == P!PayoutSpec

-------------------------------------------------------------------------------
(***************************************************************************)
(* Liveness.  The scheduled job calls FinanceWorker.run and                *)
(* FinanceEvents.run over and over: a started run goes on to its next step *)
(* (WF per process), and every operation and row on a list is picked up    *)
(* again and again (SF, since the runs are busy with others in between).   *)
(* Safe Haven answers.  Faults are bounded by MaxFaults.                   *)
(***************************************************************************)
Fairness ==
    /\ \A p \in Procs : WF_vars(WorkerStep(p))
    /\ \A o \in Ops : /\ WF_vars(ExpireLease(o))
                      /\ WF_vars(BankTakes(o)) /\ WF_vars(BankSettles(o))
                      /\ SF_vars(\E p \in Procs : Claim(p, o))
                      /\ SF_vars(\E p \in Procs : PickUncertain(p, o))

FairSpec == Spec /\ Fairness

\* Whatever response is lost, a transfer the bank completed is booked, and the
\* reservation of one it reported as failed goes back to the wallet.
OutcomeIsBooked ==
    \A o \in Ops : /\ transfer[o] = "Completed" ~> "payout" \in journals[o]
                   /\ transfer[o] = "Failed" ~> "release" \in journals[o]

\* No reservation is left hanging unless the POST vanished or was refused
\* after its caller gave up: then the operation stays UNKNOWN for an
\* administrator ("Never repeat a money-moving POST").
ReservationEnds ==
    \A o \in Ops : status[o] = "QUEUED" ~>
        \/ journals[o] \cap {"release", "payout"} # {}
        \/ [](transfer[o] \in {"none", "refused"} /\ status[o] = "UNKNOWN")

\* docs/sudo-safehaven.md: GET /operations/:id retrieves "the original
\* outcome, including after a lost response".  A booked payout should be
\* reported as SUCCEEDED (or REVERSED).
OutcomeIsReported ==
    \A o \in Ops : "payout" \in journals[o] => status[o] \in {"SUCCEEDED", "REVERSED"}
===============================================================================
