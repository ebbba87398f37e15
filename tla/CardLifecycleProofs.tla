-------------------------- MODULE CardLifecycleProofs --------------------------
(***************************************************************************)
(* The safety of CardLifecycle for any set of operations and runs, any     *)
(* amounts and any number of faults.  The argument: as long as no run has  *)
(* outlasted its claim, an operation stays PROCESSING until the run that   *)
(* claimed it leaves it, so nobody else picks it up, and the lease names   *)
(* the operation of the run that writes to Sudo: two writers would be two  *)
(* runs on one operation.  What is said of the card, of the money and of   *)
(* the issuance does not rest on that: it holds through overruns too.      *)
(***************************************************************************)
EXTENDS CardLifecycle, FiniteSetTheorems, TLAPS

\* A run that is on an operation, and one that claimed it before.
Active(r)  == run[r].pc \notin {"idle", "fetched"}
Claimed(r) == run[r].pc \in LeasedPcs \cup {"claimed", "reclaimed", "created", "named"}

\* What a run is on, whether its claim is still good or not.
ClaimInv(r) ==
    LET o == run[r].op IN
    /\ Active(r) => op[o] # "none"
    /\ Active(r) /\ Kind[o] # "RETIRE" => op[o] # "QUEUED"
    /\ Active(r) /\ Kind[o] = "RETIRE" => Claimed(r)
    /\ run[r].pc \in {"created", "named", "booking", "lookup"} => Kind[o] = "ISSUE"
    /\ run[r].pc \in LeasedPcs => Kind[o] # "ISSUE"
    /\ run[r].pc \in {"reclaimed", "confirm"} => Kind[o] = "RETIRE"
    /\ run[r].pc = "matched" => Kind[o] \in Lifecycle
    /\ run[r].pc \in {"putting", "confirm", "finish"} /\ Kind[o] = "RETIRE" => Retired /\ card.ext
    /\ run[r].pc = "fetched" => card.ext

\* Sudo creates the card for the one run that claimed its issuance; what
\* else reads or writes it comes after.
SudoInv(r) ==
    LET o == run[r].op IN
    /\ run[r].pc = "claimed" /\ Kind[o] = "ISSUE" =>
         /\ sudo.status = "none" /\ op[o] \in {"PROCESSING", "UNKNOWN"}
         /\ \A q \in Runs : run[q].pc = "claimed" /\ run[q].op = o => q = r
    /\ run[r].pc \in {"created", "named", "booking"} => sudo.status # "none"
    /\ run[r].pc = "query" /\ Kind[o] = "ISSUE" => sudo.status # "none"
    /\ run[r].pc = "putting" => sudo.status # "none"

\* While no run has outlasted its claim: a claimed operation stays PROCESSING and
\* belongs to one run, and who writes to Sudo has the lease.
Exclusive(r) ==
    LET o == run[r].op IN
    /\ Active(r) => op[o] \notin {"none", "QUEUED", "FAILED"}
    /\ Claimed(r) => /\ op[o] = "PROCESSING"
                     /\ \A q \in Runs : Active(q) /\ run[q].op = o => q = r
LeaseInv(r) == run[r].pc \in LeasedPcs => lease = run[r].op

\* A retirement is never given up, and only a RESUME that came too late is superseded.
OutcomeInv(o) ==
    /\ Kind[o] = "RETIRE" => op[o] \notin {"FAILED", "SUPERSEDED"}
    /\ op[o] = "SUPERSEDED" => Kind[o] = "RESUME" /\ Reason

\* The one issuance of the card: what it reserved, and what the others rely on.
IssueInv(o) ==
    /\ Kind[o] = "ISSUE" /\ op[o] \in {"QUEUED", "PROCESSING", "UNKNOWN"} =>
         "issue" \notin journals /\ money.reserve = Allocation + Fee
    /\ Kind[o] = "ISSUE" /\ op[o] \in {"PENDING", "SUCCEEDED"} => "issue" \in journals
    /\ Kind[o] = "ISSUE" /\ op[o] \in {"QUEUED", "FAILED"} => sudo.status = "none"
    /\ Kind[o] = "ISSUE" /\ op[o] = "FAILED" => card.status = "CANCELLED"
    /\ Kind[o] = "ISSUE" /\ op[o] # "none" =>
         \A p \in Ops : Kind[p] = "ISSUE" /\ op[p] # "none" => p = o
    /\ Kind[o] \in Lifecycle /\ op[o] # "none" => "issue" \in journals
    /\ op[o] # "none" => card.status # "none"

CardInv ==
    /\ card.status = "none" => money.reserve = 0 /\ sudo.status = "none"
    /\ sudo.status = "none" =>
         "issue" \notin journals /\ ~card.ext /\ named = {} /\ sudo.late = {}
    /\ "none" \notin sudo.late
    /\ card.status # "none" => \E o \in Ops : Kind[o] = "ISSUE" /\ op[o] # "none"
    /\ card.status = "CANCELLED" =>
         Retired \/ \E o \in Ops : Kind[o] = "ISSUE" /\ op[o] = "FAILED"
    /\ card.retirement \in Final => money.held = 0

IInv == /\ TypeOK /\ CardInv
        /\ \A r \in Runs : ClaimInv(r) /\ SudoInv(r)
        /\ ~overran => \A r \in Runs : Exclusive(r) /\ LeaseInv(r)
        /\ \A o \in Ops : OutcomeInv(o) /\ IssueInv(o)

(***************************************************************************)
(* What the steps with many outcomes do.                                   *)
(***************************************************************************)
\* The allocation went back by journal j.
Emptied(j) ==
    /\ money' \in [Accounts -> Nat]
    /\ money'.funds = 0 /\ money'.held = money.held /\ money'.reserve = money.reserve
    /\ money'.spent = money.spent /\ money'.fees = money.fees
    /\ money'.wallet = money.wallet + money.funds
    /\ journals \subseteq journals' /\ journals' \subseteq journals \cup {j}

LEMMA PaysBackEmpties ==
    ASSUME TypeOK, NEW j \in {"retire", "close", "issuer-close"}, PaysBack(j)
    PROVE  Emptied(j)
<1>1. CASE money.funds = 0
  BY <1>1 DEF TypeOK, PaysBack, Emptied, Accounts
<1>2. CASE money.funds # 0
  <2>1. /\ journals' = journals \cup {j}
        /\ money' = [money EXCEPT !["funds"] = @ - money.funds, !["wallet"] = @ + money.funds]
    BY <1>2 DEF PaysBack, Pays
  <2> QED BY <2>1 DEF TypeOK, Emptied, Accounts
<1> QED BY <1>1, <1>2

\* The operation is left open: reconcile will look at it again.
LeftOpen(o) == op' = [op EXCEPT ![o] = IF @ = "PROCESSING" THEN "UNKNOWN" ELSE @]
\* So is a retirement, whatever has become of it meanwhile.
Reopened(o) == op' = [op EXCEPT ![o] = "UNKNOWN"]
Stays == UNCHANGED <<card, money, journals>>

\* The issuance is booked, unless it was, and says what Sudo's card is.
IssueBooked(o) ==
    /\ op[o] # "SUCCEEDED" /\ journals' = journals \cup {"issue"}
    /\ \/ "issue" \in journals /\ money' = money
       \/ /\ "issue" \notin journals
          /\ money' = [money EXCEPT !.reserve = @ - Allocation - Fee,
                                    !.funds = @ + Allocation, !.fees = @ + Fee]
    /\ \E s \in {"ACTIVE", "PAUSED"} :
          /\ s = "ACTIVE" => ~Retired
          /\ card' = [card EXCEPT !.ext = TRUE, !.status = s]
    /\ \E t \in {"SUCCEEDED", "PENDING"} : op' = [op EXCEPT ![o] = t]

IssueFinished(r, o) ==
    /\ run[r].pc = "booking" /\ Kind[o] = "ISSUE"
    /\ op[o] \notin {"none", "QUEUED", "FAILED"}
    /\ run' = [run EXCEPT ![r] = Idle]
    /\ UNCHANGED <<lease, named, due, hint, stuck, sudo, overran, faults>>
    /\ \/ LeftOpen(o) /\ Stays
       \/ op' = op /\ Stays
       \/ IssueBooked(o)

LEMMA FinishIssueEffect ==
    ASSUME IInv, NEW r \in Runs, NEW o \in Ops, o = run[r].op, FinishIssue(r)
    PROVE  IssueFinished(r, o)
<1> USE DEF IssueFinished, IssueBooked
<1>1. /\ run[r].pc = "booking" /\ Kind[o] = "ISSUE" /\ op[o] \notin {"none", "QUEUED", "FAILED"}
      /\ UNCHANGED <<lease, named, due, hint, stuck, sudo, overran, faults>>
  BY DEF FinishIssue, At, IInv, TypeOK, ClaimInv, SudoInv, IssueInv, Active
<1>2. CASE run[r].seen = "canceled"
  BY <1>1, <1>2 DEF FinishIssue, Uncertain, GivesUp, Lapsed, Doing, Stop, LeftOpen, Stays
<1>3. CASE run[r].seen # "canceled" /\ op[o] \in {"SUCCEEDED", "FAILED"}
  BY <1>1, <1>3 DEF FinishIssue, Stop, Stays
<1>4. CASE run[r].seen # "canceled" /\ op[o] \notin {"SUCCEEDED", "FAILED"}
  <2>1. /\ Stop(r) /\ BookIssue
        /\ card' = [card EXCEPT !.ext = TRUE, !.status =
                       IF run[r].seen = "active" /\ ~Retired THEN "ACTIVE" ELSE "PAUSED"]
        /\ SetOp(o, IF run[r].seen = "active" THEN "SUCCEEDED" ELSE "PENDING")
    BY <1>4 DEF FinishIssue
  <2>2. \/ "issue" \in journals /\ money' = money /\ journals' = journals \cup {"issue"}
        \/ /\ "issue" \notin journals /\ journals' = journals \cup {"issue"}
           /\ money' = [money EXCEPT !.reserve = @ - Allocation - Fee,
                                     !.funds = @ + Allocation, !.fees = @ + Fee]
    BY <2>1 DEF BookIssue, Issued
  <2> QED BY <1>1, <1>4, <2>1, <2>2 DEF Stop, SetOp
<1> QED BY <1>2, <1>3, <1>4

\* A RESUME that came too late; a card its owner closed; a card switched on or off.
Overdue(o) ==
    /\ Kind[o] = "RESUME" /\ (Reason \/ card.status = "CANCELLED")
    /\ op[o] # "SUCCEEDED" /\ op' = [op EXCEPT ![o] = "SUPERSEDED"] /\ Stays
ClosedByOwner(o) ==
    /\ Kind[o] = "CANCEL" /\ op[o] # "SUCCEEDED" /\ money.held = 0 /\ Emptied("close")
    /\ op' = [op EXCEPT ![o] = "SUCCEEDED"]
    /\ card' = [card EXCEPT !.status = "CANCELLED", !.retirement = "CLOSED"]
Switched(o) ==
    /\ Kind[o] \in {"PAUSE", "RESUME"} /\ op[o] # "SUCCEEDED"
    /\ Kind[o] = "RESUME" => ~Reason
    /\ op' = [op EXCEPT ![o] = "SUCCEEDED"]
    /\ card' = [card EXCEPT !.status = IF Kind[o] = "RESUME" THEN "ACTIVE" ELSE "PAUSED"]
    /\ UNCHANGED <<money, journals>>

LifecycleFinished(r, o) ==
    /\ run[r].pc \in {"finish", "matched"} /\ Kind[o] \in Lifecycle
    /\ op[o] \notin {"none", "QUEUED"}
    /\ run' = [run EXCEPT ![r] = Idle]
    /\ lease' = IF run[r].pc = "finish" /\ lease = o THEN "none" ELSE lease
    /\ UNCHANGED <<named, due, hint, stuck, sudo, overran, faults>>
    /\ \/ LeftOpen(o) /\ Stays
       \/ op' = op /\ Stays
       \/ Overdue(o) \/ ClosedByOwner(o) \/ Switched(o)

LEMMA FinishLifecycleEffect ==
    ASSUME IInv, NEW r \in Runs, NEW o \in Ops, o = run[r].op, FinishLifecycle(r)
    PROVE  LifecycleFinished(r, o)
<1> USE DEF LifecycleFinished, Overdue, ClosedByOwner, Switched
<1>1. /\ run[r].pc \in {"finish", "matched"} /\ Kind[o] \in Lifecycle
      /\ op[o] \notin {"none", "QUEUED"}
      /\ run' = [run EXCEPT ![r] = Idle]
      /\ lease' = IF run[r].pc = "finish" /\ lease = o THEN "none" ELSE lease
      /\ UNCHANGED <<named, due, hint, stuck, sudo, overran, faults>>
  BY DEF FinishLifecycle, At, IInv, ClaimInv, Active, Lifecycle, Release, Stop, Uncertain, GivesUp,
     Overwrites
<1>2. CASE FinishThrows(o)
  BY <1>1, <1>2 DEF FinishLifecycle, Uncertain, GivesUp, Lapsed, Doing, Lifecycle, LeftOpen, Stays
<1>3. CASE ~FinishThrows(o) /\ Done(o)
  BY <1>1, <1>3 DEF FinishLifecycle, FinishTx, Stays
<1>4. CASE ~FinishThrows(o) /\ ~Done(o) /\ Overtaken(Kind[o])
  BY <1>1, <1>4 DEF FinishLifecycle, FinishTx, Stays, Done, Overtaken, SetOp
<1>5. CASE ~FinishThrows(o) /\ ~Done(o) /\ ~Overtaken(Kind[o]) /\ Kind[o] = "CANCEL"
  <2>1. /\ PaysBack("close") /\ op' = [op EXCEPT ![o] = "SUCCEEDED"]
        /\ card' = [card EXCEPT !.status = "CANCELLED", !.retirement = "CLOSED"]
    BY <1>5 DEF FinishLifecycle, FinishTx, SetOp
  <2>2. money.held = 0
    BY <1>5 DEF FinishThrows, IInv, TypeOK, Accounts
  <2>3. Emptied("close")
    BY <2>1, PaysBackEmpties DEF IInv
  <2> QED BY <1>1, <1>5, <2>1, <2>2, <2>3 DEF Done
<1>6. CASE ~FinishThrows(o) /\ ~Done(o) /\ ~Overtaken(Kind[o]) /\ Kind[o] # "CANCEL"
  BY <1>1, <1>6 DEF FinishLifecycle, FinishTx, SetOp, Done, Overtaken, Lifecycle
<1> QED BY <1>2, <1>3, <1>4, <1>5, <1>6

\* Holds are still open; or the card is empty and its retirement over.
WaitsForHolds(o) ==
    /\ op' = [op EXCEPT ![o] = "PENDING"] /\ UNCHANGED <<money, journals>>
    /\ \E s \in {"CANCELLED", "PAUSED"} : card' = [card EXCEPT !.status = s]
RetiredNow(o) ==
    /\ money.held = 0 /\ Emptied("retire") /\ op' = [op EXCEPT ![o] = "SUCCEEDED"]
    /\ \E s \in {"CANCELLED", "PAUSED"}, t \in Final :
          card' = [card EXCEPT !.status = s, !.retirement = t]

RetirementFinished(r, o) ==
    /\ run[r].pc = "finish" /\ Kind[o] = "RETIRE" /\ op[o] # "none"
    /\ Retired /\ card.ext
    /\ run' = [run EXCEPT ![r] = Idle]
    /\ lease' = IF lease = o THEN "none" ELSE lease
    /\ UNCHANGED <<named, due, hint, stuck, sudo, overran, faults>>
    /\ \/ Reopened(o) /\ Stays
       \/ WaitsForHolds(o) \/ RetiredNow(o)

LEMMA FinishRetirementEffect ==
    ASSUME IInv, NEW r \in Runs, NEW o \in Ops, o = run[r].op, FinishRetirement(r)
    PROVE  RetirementFinished(r, o)
<1> USE DEF RetirementFinished, WaitsForHolds, RetiredNow
<1> DEFINE s == IF run[r].seen = "canceled" THEN "CANCELLED" ELSE "PAUSED"
           t == IF run[r].seen = "canceled" THEN "CLOSED" ELSE "RETIRED"
<1>1. /\ run[r].pc = "finish" /\ Kind[o] = "RETIRE" /\ op[o] # "none" /\ Retired /\ card.ext
  BY DEF FinishRetirement, At, IInv, ClaimInv, Active
<1>2. s \in {"CANCELLED", "PAUSED"} /\ t \in Final
  BY DEF Final
<1>3. CASE WaitsForSettlement
  BY <1>1, <1>2, <1>3 DEF FinishRetirement, SetOp, Leave, Stop, Release
<1>4. CASE ~WaitsForSettlement /\ CanPayBack("retire")
  <2>1. /\ PaysBack("retire") /\ SetOp(o, "SUCCEEDED") /\ Leave(r)
        /\ card' = [card EXCEPT !.status = s, !.retirement = t]
        /\ UNCHANGED <<named, due, hint, stuck, sudo, overran, faults>>
    BY <1>4 DEF FinishRetirement
  <2>2. money.held = 0
    BY <1>4 DEF WaitsForSettlement, IInv, TypeOK, Accounts
  <2>3. Emptied("retire")
    BY <2>1, PaysBackEmpties DEF IInv
  <2> HIDE DEF s, t
  <2> QED BY <1>1, <1>2, <2>1, <2>2, <2>3 DEF SetOp, Leave, Stop, Release
<1>5. CASE ~WaitsForSettlement /\ ~CanPayBack("retire")
  BY <1>1, <1>5 DEF FinishRetirement, LeaveUncertain, Uncertain, Overwrites, SetOp, Doing, Stop,
     Release, Reopened, Stays
<1> QED BY <1>3, <1>4, <1>5

\* A retired card that is on at Sudo goes back to be retired; a card the issuer
\* closed waits for its holds, or is closed here; else the status is copied.
SentBack ==
    /\ Retired /\ card' = [card EXCEPT !.retirement = "RETIRING"]
    /\ UNCHANGED <<money, journals>> /\ op' \in [Ops -> Statuses]
    /\ \A o \in Ops : \/ op'[o] = op[o]
                      \/ /\ Kind[o] = "RETIRE" /\ op[o] \in {"none", "SUCCEEDED"}
                         /\ op'[o] = "QUEUED"
MarkedByIssuer ==
    /\ op' = op /\ UNCHANGED <<money, journals>>
    /\ card' = [card EXCEPT !.status = "PAUSED",
                            !.retirement = IF @ = "none" THEN "RETIRING" ELSE @]
ClosedByIssuer ==
    /\ op' = op /\ money.held = 0 /\ Emptied("issuer-close")
    /\ card' = [card EXCEPT !.status = "CANCELLED", !.retirement = "CLOSED"]
Copied ==
    /\ op' = op /\ UNCHANGED <<money, journals>>
    /\ \E s \in {"ACTIVE", "PAUSED"} : /\ s = "ACTIVE" => ~Retired
                                       /\ card' = [card EXCEPT !.status = s]

EventApplied(r) ==
    /\ run[r].pc = "fetched" /\ card.ext
    /\ run' = [run EXCEPT ![r] = Idle]
    /\ UNCHANGED <<lease, named, due, stuck, sudo, overran, faults>> /\ hint' \in BOOLEAN
    /\ \/ op' = op /\ Stays
       \/ SentBack \/ MarkedByIssuer \/ ClosedByIssuer \/ Copied

LEMMA ApplyEventEffect ==
    ASSUME IInv, NEW r \in Runs, ApplyEvent(r)
    PROVE  EventApplied(r)
<1> USE DEF EventApplied, SentBack, MarkedByIssuer, ClosedByIssuer, Copied
<1>1. /\ run[r].pc = "fetched" /\ card.ext /\ run' = [run EXCEPT ![r] = Idle]
      /\ UNCHANGED <<lease, named, due, stuck, sudo, overran, faults>>
  BY DEF ApplyEvent, At, Stop, IInv, ClaimInv
<1>2. CASE BlocksRevival(r)
  <2> DEFINE again == [o \in Ops |-> IF Kind[o] = "RETIRE" /\ op[o] = "SUCCEEDED"
                                     THEN "QUEUED" ELSE op[o]]
  <2>1. /\ Retired /\ card' = [card EXCEPT !.retirement = "RETIRING"] /\ op' = Enqueued(again)
        /\ UNCHANGED <<money, journals, hint>>
    BY <1>2 DEF ApplyEvent, BlocksRevival, RetireAgain
  <2>2. \A o \in Ops : \/ again[o] = op[o]
                        \/ /\ Kind[o] = "RETIRE" /\ op[o] = "SUCCEEDED" /\ again[o] = "QUEUED"
    OBVIOUS
  <2>3. again \in [Ops -> Statuses]
    BY DEF IInv, TypeOK, Statuses
  <2> HIDE DEF again
  <2>4. CASE op' = again
    BY <1>1, <2>1, <2>2, <2>3, <2>4 DEF IInv, TypeOK
  <2>5. CASE op' # again
    <3>1. /\ op' = [again EXCEPT ![AutoRetire] = "QUEUED"] /\ Kind[AutoRetire] = "RETIRE"
          /\ again[AutoRetire] \in {"none", "FAILED", "SUPERSEDED"}
      BY <2>1, <2>5, OpsAssumption DEF Enqueued
    <3>2. op[AutoRetire] = "none"
      BY <2>2, <3>1, OpsAssumption DEF IInv, OutcomeInv
    <3> QED BY <1>1, <2>1, <2>2, <2>3, <3>1, <3>2, OpsAssumption DEF IInv, TypeOK, Statuses
  <2> QED BY <2>4, <2>5
<1>3. CASE ~BlocksRevival(r) /\ run[r].seen = "canceled" /\ money.held > 0
  BY <1>1, <1>3 DEF ApplyEvent, CloseByIssuer, Marked, IInv, TypeOK
<1>4. CASE ~BlocksRevival(r) /\ run[r].seen = "canceled" /\ ~(money.held > 0)
           /\ CanPayBack("issuer-close")
  <2>1. /\ PaysBack("issuer-close") /\ op' = op /\ hint' = hint
        /\ card' = [card EXCEPT !.status = "CANCELLED", !.retirement = "CLOSED"]
    BY <1>4 DEF ApplyEvent, CloseByIssuer
  <2>2. money.held = 0
    BY <1>4 DEF IInv, TypeOK, Accounts
  <2>3. Emptied("issuer-close")
    BY <2>1, PaysBackEmpties DEF IInv
  <2> QED BY <1>1, <2>1, <2>2, <2>3 DEF IInv, TypeOK
<1>5. CASE ~BlocksRevival(r) /\ run[r].seen = "canceled" /\ ~(money.held > 0)
           /\ ~CanPayBack("issuer-close")
  BY <1>1, <1>5 DEF ApplyEvent, CloseByIssuer, Stays
<1>6. CASE ~BlocksRevival(r) /\ run[r].seen # "canceled"
  <2>1. /\ card' = [card EXCEPT !.status = IF run[r].seen = "active" THEN "ACTIVE" ELSE "PAUSED"]
        /\ UNCHANGED <<op, money, journals, hint>>
    BY <1>6 DEF ApplyEvent
  <2> QED BY <1>1, <1>6, <2>1 DEF BlocksRevival, IInv, TypeOK
<1> QED BY <1>2, <1>3, <1>4, <1>5, <1>6

(***************************************************************************)
(* The invariant is inductive.                                             *)
(***************************************************************************)
\* Every step keeps the types.  Only booking an issuance needs more than the types.
LEMMA TypeStep == IInv /\ Next => TypeOK'
<1> SUFFICES ASSUME IInv, Next PROVE TypeOK'
  OBVIOUS
<1> TypeOK
  BY DEF IInv
<1> USE OpsAssumption, MoneyAssumption DEF TypeOK
<1>1. ASSUME NEW o \in Ops, ExecuteIssue(o) PROVE TypeOK'
  BY <1>1 DEF ExecuteIssue, Pays, SetOp, CardRow, Final, Statuses, Accounts
<1>2. ASSUME NEW o \in Ops, ExecuteCommand(o) PROVE TypeOK'
  BY <1>2 DEF ExecuteCommand, SetOp, Marked, Pending, Reason, Retired, CardRow, Final, Statuses
<1>3. ASSUME NEW o \in Ops, OperationLapses(o) PROVE TypeOK'
  BY <1>3 DEF OperationLapses, SetOp, Statuses
<1>4. ASSUME Allocate PROVE TypeOK'
  BY <1>4 DEF Allocate, Pays, Accounts
<1>5. ASSUME EnsureDue PROVE TypeOK'
  BY <1>5 DEF EnsureDue, Marked, Enqueued, Reason, Retired, CardRow, Final, Statuses
<1>6. ASSUME Purchase PROVE TypeOK'
  BY <1>6 DEF Purchase, Pays, Reason, Retired, Accounts
<1>7. ASSUME Settle PROVE TypeOK'
  <2>1. money' \in [Accounts -> Nat]
    <3>1. \E a \in {"spent", "funds"} :
             money.held >= 1 /\ money' = [money EXCEPT !.held = @ - 1, ![a] = @ + 1]
      BY <1>7 DEF Settle, Pays
    <3> QED BY <3>1 DEF Accounts
  <2> QED BY <1>7, <2>1 DEF Settle
<1>8. ASSUME RowFails PROVE TypeOK'
  BY <1>8 DEF RowFails
<1>9. ASSUME LatePut PROVE TypeOK'
  <2>1. \E s \in sudo.late : \/ sudo' = [sudo EXCEPT !.late = @ \ {s}]
                              \/ sudo' = [status |-> s, late |-> sudo.late \ {s}]
    BY <1>9 DEF LatePut
  <2>2. sudo' \in [status : Seen, late : SUBSET Seen]
    BY <2>1
  <2>3. hint' \in BOOLEAN
    BY <1>9 DEF LatePut, Reports
  <2> QED BY <1>9, <2>2, <2>3 DEF LatePut
<1>10. ASSUME LostPut PROVE TypeOK'
  BY <1>10 DEF LostPut, Seen
<1>11. ASSUME IssuerCloses PROVE TypeOK'
  BY <1>11 DEF IssuerCloses, Reports, Seen
<1>12. ASSUME DeadlinePasses PROVE TypeOK'
  BY <1>12 DEF DeadlinePasses
<1>13. ASSUME LeaseLapses PROVE TypeOK'
  BY <1>13 DEF LeaseLapses
<1>14. ASSUME NEW r \in Runs, Discover(r) PROVE TypeOK'
  <2>1. run' \in [Runs -> RunState]
    <3>1. run' = [run EXCEPT ![r] = Idle] \/ run' = [run EXCEPT ![r].pc = "query"]
      BY <1>14 DEF Discover, Stop, Goto
    <3> QED BY <3>1 DEF Idle, RunState, Pcs, LeasedPcs, Seen
  <2>2. named' \subseteq Ops
    BY <1>14 DEF Discover, RunState
  <2> QED BY <1>14, <2>1, <2>2 DEF Discover
<1>15. ASSUME NEW r \in Runs, Query(r) PROVE TypeOK'
  BY <1>15 DEF Query, At, Doing, See, Stop, Idle, Wanted, RunState, Pcs, LeasedPcs, Seen
<1>16. ASSUME NEW r \in Runs, StoreReference(r) PROVE TypeOK'
  BY <1>16 DEF StoreReference, At, Goto, RunState, Pcs, LeasedPcs, Seen
<1>17. ASSUME NEW r \in Runs, StoreCard(r) PROVE TypeOK'
  <2>1. card' \in CardRow
    BY <1>17 DEF StoreCard, At, Goto, CardRow, Final
  <2>2. run' \in [Runs -> RunState]
    BY <1>17 DEF StoreCard, At, Goto, RunState, Pcs, LeasedPcs, Seen
  <2> QED BY <1>17, <2>1, <2>2 DEF StoreCard
<1>18. ASSUME NEW r \in Runs, FinishIssue(r) PROVE TypeOK'
  <2>1. IssueFinished(r, run[r].op) /\ run[r].op \in Ops
    BY <1>18, FinishIssueEffect DEF RunState
  <2>2. card' \in CardRow
    BY <2>1 DEF IssueFinished, IssueBooked, Stays, CardRow, Final
  <2>3. op' \in [Ops -> Statuses]
    BY <2>1 DEF IssueFinished, IssueBooked, LeftOpen, Stays, Statuses
  <2>4. money' \in [Accounts -> Nat]
    <3>1. CASE IssueBooked(run[r].op) /\ "issue" \notin journals
      <4>1. op[run[r].op] \in {"PROCESSING", "UNKNOWN"}
        BY <2>1, <3>1 DEF IInv, IssueFinished, IssueBooked, IssueInv, OutcomeInv, Statuses
      <4>2. money.reserve = Allocation + Fee
        BY <2>1, <4>1 DEF IInv, IssueFinished, IssueInv
      <4>3. /\ money.reserve - Allocation - Fee = 0
            /\ money.funds + Allocation \in Nat /\ money.fees + Fee \in Nat
        BY <4>2 DEF Accounts
      <4>4. money' = [money EXCEPT !.reserve = 0, !.funds = money.funds + Allocation,
                                  !.fees = money.fees + Fee]
        BY <3>1, <4>3 DEF IssueBooked
      <4> QED BY <4>3, <4>4
    <3> QED BY <2>1, <3>1 DEF IssueFinished, IssueBooked, Stays
  <2>5. run' \in [Runs -> RunState]
    BY <2>1 DEF IssueFinished, IssueBooked, Idle, RunState, Pcs, LeasedPcs, Seen
  <2> QED BY <2>1, <2>2, <2>3, <2>4, <2>5 DEF IssueFinished, IssueBooked, Stays
<1>19. ASSUME NEW r \in Runs, TakeLease(r) PROVE TypeOK'
  BY <1>19 DEF TakeLease, At, Doing, Goto, GivesUp, Overwrites, Lapsed, SetOp, LeaseFree, Stop,
     Idle, Statuses, RunState, Pcs, LeasedPcs, Seen
<1>20. ASSUME NEW r \in Runs, Prepare(r) PROVE TypeOK'
  BY <1>20 DEF Prepare, At, Doing, Lifecycle, Reason, Retired, Marked, Enqueued, Leave, Stop,
     Release, Idle, Goto, CardRow, Final, Statuses, RunState, Pcs, LeasedPcs, Seen
<1>21. ASSUME NEW r \in Runs, RetireReads(r) PROVE TypeOK'
  <2>1. op' \in [Ops -> Statuses]
    BY <1>21 DEF RetireReads, Doing, LeaveUncertain, Uncertain, Overwrites, SetOp, Statuses
  <2>2. \/ run' = [run EXCEPT ![r] = Idle] \/ run' = [run EXCEPT ![r].pc = "putting"]
        \/ run' = [run EXCEPT ![r].pc = "finish", ![r].seen = sudo.status]
    BY <1>21 DEF RetireReads, Doing, LeaveUncertain, Uncertain, Overwrites, Stop, Goto, See
  <2>3. run' \in [Runs -> RunState]
    BY <2>2 DEF Idle, RunState, Pcs, LeasedPcs, Seen
  <2>4. lease' \in Ops \cup {"none"}
    BY <1>21 DEF RetireReads, LeaveUncertain, Release
  <2> QED BY <1>21, <2>1, <2>3, <2>4 DEF RetireReads
<1>22. ASSUME NEW r \in Runs, Put(r) PROVE TypeOK'
  <2>1. Wanted(Doing(r)) \in Seen
    BY DEF Wanted, Seen
  <2>2. sudo' = [sudo EXCEPT !.status = Wanted(Doing(r))] /\ hint' \in BOOLEAN
    BY <1>22 DEF Put, Reports
  <2>3. \E pc \in {"confirm", "finish"} : run' = [run EXCEPT ![r].pc = pc]
    BY <1>22 DEF Put, Goto
  <2>4. run' \in [Runs -> RunState]
    BY <2>3 DEF RunState, Pcs, LeasedPcs
  <2> QED BY <1>22, <2>1, <2>2, <2>4 DEF Put
<1>23. ASSUME NEW r \in Runs, PutRefused(r) PROVE TypeOK'
  <2>1. card' \in CardRow
    BY <1>23 DEF PutRefused, At, Doing, LeaveUncertain, Uncertain, GivesUp, Overwrites, Lapsed,
       SetOp, Release, Stop, Idle, Leave, Fail, Pays, CardRow, Final
  <2>2. op' \in [Ops -> Statuses]
    BY <1>23 DEF PutRefused, At, Doing, LeaveUncertain, Uncertain, GivesUp, Overwrites, Lapsed,
       SetOp, Release, Stop, Idle, Leave, Fail, Pays, Statuses
  <2>3. money' \in [Accounts -> Nat]
    BY <1>23 DEF PutRefused, At, Doing, LeaveUncertain, Uncertain, GivesUp, Overwrites, Lapsed,
       SetOp, Release, Stop, Idle, Leave, Fail, Pays, Accounts
  <2>4. run' \in [Runs -> RunState]
    BY <1>23 DEF PutRefused, At, Doing, LeaveUncertain, Uncertain, GivesUp, Overwrites, Lapsed,
       SetOp, Release, Stop, Idle, Leave, Fail, Pays, RunState, Pcs, LeasedPcs, Seen
  <2> QED BY <1>23, <2>1, <2>2, <2>3, <2>4 DEF PutRefused, Doing, LeaveUncertain, Uncertain,
     GivesUp, Overwrites, Lapsed, SetOp, Release, Leave, Fail, Pays
<1>24. ASSUME NEW r \in Runs, Confirm(r) PROVE TypeOK'
  BY <1>24 DEF Confirm, At, LeaveUncertain, Uncertain, GivesUp, Overwrites, Lapsed, SetOp, Doing,
     Release, Stop, Idle, See, Statuses, RunState, Pcs, LeasedPcs, Seen
<1>25. ASSUME NEW r \in Runs, FinishLifecycle(r) PROVE TypeOK'
  <2>1. LifecycleFinished(r, run[r].op) /\ run[r].op \in Ops
    BY <1>25, FinishLifecycleEffect DEF RunState
  <2>2. card' \in CardRow
    BY <2>1 DEF LifecycleFinished, Overdue, ClosedByOwner, Switched, Stays, CardRow, Final
  <2>3. op' \in [Ops -> Statuses]
    BY <2>1 DEF LifecycleFinished, Overdue, ClosedByOwner, Switched, LeftOpen, Stays, Statuses
  <2>4. money' \in [Accounts -> Nat]
    BY <2>1 DEF LifecycleFinished, Overdue, ClosedByOwner, Switched, Stays, Emptied, Accounts
  <2>5. run' \in [Runs -> RunState]
    BY <2>1 DEF LifecycleFinished, Overdue, ClosedByOwner, Switched, Idle, RunState, Pcs,
       LeasedPcs, Seen
  <2> QED BY <2>1, <2>2, <2>3, <2>4, <2>5 DEF LifecycleFinished, Overdue, ClosedByOwner, Switched,
     Emptied, Stays
<1>26. ASSUME NEW r \in Runs, FinishRetirement(r) PROVE TypeOK'
  <2>1. RetirementFinished(r, run[r].op) /\ run[r].op \in Ops
    BY <1>26, FinishRetirementEffect DEF RunState
  <2>2. card' \in CardRow
    BY <2>1 DEF RetirementFinished, WaitsForHolds, RetiredNow, Stays, CardRow, Final
  <2>3. op' \in [Ops -> Statuses]
    BY <2>1 DEF RetirementFinished, WaitsForHolds, RetiredNow, Reopened, Stays, Statuses
  <2>4. money' \in [Accounts -> Nat]
    BY <2>1 DEF RetirementFinished, WaitsForHolds, RetiredNow, Stays, Emptied, Accounts
  <2>5. run' \in [Runs -> RunState]
    BY <2>1 DEF RetirementFinished, WaitsForHolds, RetiredNow, Idle, RunState, Pcs, LeasedPcs, Seen
  <2> QED BY <2>1, <2>2, <2>3, <2>4, <2>5 DEF RetirementFinished, WaitsForHolds, RetiredNow,
     Emptied, Stays
<1>27. ASSUME NEW r \in Runs, FetchCard(r) PROVE TypeOK'
  <2>1. \/ run' = run
        \/ run' = [run EXCEPT ![r] = [pc |-> "fetched", op |-> AutoRetire, seen |-> sudo.status]]
    BY <1>27 DEF FetchCard, Idle
  <2>2. run' \in [Runs -> RunState]
    BY <2>1 DEF RunState, Pcs, LeasedPcs, Seen
  <2> QED BY <1>27, <2>2 DEF FetchCard
<1>28. ASSUME NEW r \in Runs, ApplyEvent(r) PROVE TypeOK'
  <2>1. EventApplied(r)
    BY <1>28, ApplyEventEffect
  <2>2. card' \in CardRow
    BY <2>1 DEF EventApplied, SentBack, MarkedByIssuer, ClosedByIssuer, Copied, Stays, CardRow,
       Final
  <2>3. op' \in [Ops -> Statuses]
    BY <2>1 DEF EventApplied, SentBack, MarkedByIssuer, ClosedByIssuer, Copied, Stays, Statuses
  <2>4. money' \in [Accounts -> Nat]
    BY <2>1 DEF EventApplied, SentBack, MarkedByIssuer, ClosedByIssuer, Copied, Stays, Emptied,
       Accounts
  <2>5. run' \in [Runs -> RunState]
    BY <2>1 DEF EventApplied, SentBack, MarkedByIssuer, ClosedByIssuer, Copied, Idle, RunState,
       Pcs, LeasedPcs, Seen
  <2> QED BY <2>1, <2>2, <2>3, <2>4, <2>5 DEF EventApplied, SentBack, MarkedByIssuer,
     ClosedByIssuer, Copied, Emptied, Stays
<1>29. ASSUME NEW r \in Runs, CreateCard(r) PROVE TypeOK'
  <2>1. run' \in [Runs -> RunState]
    <3>1. PICK s \in {"active", "inactive"} : run' = [run EXCEPT ![r].pc = "created", ![r].seen = s]
      BY <1>29 DEF CreateCard
    <3>2. run[r] \in RunState /\ "created" \in Pcs /\ s \in Seen
      BY <3>1 DEF Pcs, Seen
    <3>3. [run[r] EXCEPT !.pc = "created", !.seen = s] \in RunState
      BY <3>2 DEF RunState
    <3>4. run' = [run EXCEPT ![r] = [run[r] EXCEPT !.pc = "created", !.seen = s]]
      BY <3>1
    <3> QED BY <3>3, <3>4
  <2>2. sudo' \in [status : Seen, late : SUBSET Seen]
    BY <1>29 DEF CreateCard, At, Doing, Seen
  <2> QED BY <1>29, <2>1, <2>2 DEF CreateCard, Doing
<1>30. ASSUME NEW r \in Runs, IssueRefused(r) PROVE TypeOK'
  BY <1>30 DEF IssueRefused, At, Doing, Fail, SetOp, Pays, Stop, Idle, CardRow, Final, Statuses,
     Accounts, RunState, Pcs, LeasedPcs, Seen
<1>31. ASSUME NEW r \in Runs, PutTimesOut(r) PROVE TypeOK'
  BY <1>31 DEF PutTimesOut, At, Wanted, Doing, LeaveUncertain, Uncertain, GivesUp, Overwrites,
     Lapsed, SetOp, Stop, Idle, Release, Statuses, RunState, Pcs, LeasedPcs, Seen
<1>32. ASSUME NEW r \in Runs, TimesOut(r) PROVE TypeOK'
  <2>1. op' \in [Ops -> Statuses]
    BY <1>32 DEF TimesOut, At, LeasedPcs, LeaveUncertain, Uncertain, GivesUp, Overwrites, Lapsed,
       SetOp, Doing, Stop, Idle, Release, Statuses
  <2>2. run' \in [Runs -> RunState]
    BY <1>32 DEF TimesOut, At, LeasedPcs, LeaveUncertain, Uncertain, GivesUp, Overwrites, Lapsed,
       SetOp, Doing, Stop, Idle, Release, RunState, Pcs, Seen
  <2> QED BY <1>32, <2>1, <2>2 DEF TimesOut, LeasedPcs, LeaveUncertain, Uncertain, GivesUp,
     Overwrites, Lapsed, SetOp, Doing, Release
<1>33. ASSUME NEW r \in Runs, Crash(r) PROVE TypeOK'
  BY <1>33 DEF Crash, At, Stop, Idle, RunState, Pcs, LeasedPcs, Seen
<1>34. ASSUME NEW r \in Runs, Overruns(r) PROVE TypeOK'
  <2>1. op' \in [Ops -> Statuses] /\ lease' \in Ops \cup {"none"}
    BY <1>34 DEF Overruns, Lapsed, Statuses
  <2> QED BY <1>34, <2>1 DEF Overruns
<1>35. ASSUME NEW r \in Runs, NEW o \in Ops, Claim(r, o) PROVE TypeOK'
  BY <1>35 DEF Claim, At, SetOp, Idle, Statuses, RunState, Pcs, LeasedPcs, Seen
<1>36. ASSUME NEW r \in Runs, NEW o \in Ops, PickUncertain(r, o) PROVE TypeOK'
  <2>1. op' \in [Ops -> Statuses]
    BY <1>36 DEF PickUncertain, At, Listed, SetOp, Idle, Statuses
  <2>2. run' \in [Runs -> RunState]
    <3>1. \E pc \in {"reclaimed", "query", "lookup"} : run' = [run EXCEPT ![r] = [Idle EXCEPT !.pc = pc, !.op = o]]
      BY <1>36 DEF PickUncertain
    <3>2. PICK pc \in {"reclaimed", "query", "lookup"} : run' = [run EXCEPT ![r] = [Idle EXCEPT !.pc = pc, !.op = o]]
      BY <3>1
    <3>3. [Idle EXCEPT !.pc = pc, !.op = o] \in RunState
      BY DEF Idle, RunState, Pcs, LeasedPcs, Seen
    <3> QED BY <3>2, <3>3
  <2> QED BY <1>36, <2>1, <2>2 DEF PickUncertain, Listed, SetOp
<1> QED BY <1>1, <1>2, <1>3, <1>4, <1>5, <1>6, <1>7, <1>8, <1>9, <1>10, <1>11, <1>12, <1>13, <1>14,
   <1>15, <1>16, <1>17, <1>18, <1>19, <1>20, <1>21, <1>22, <1>23, <1>24, <1>25, <1>26, <1>27,
   <1>28, <1>29, <1>30, <1>31, <1>32, <1>33, <1>34, <1>35, <1>36 DEF Next, RunStep

\* Nothing makes an overrun undone.
LEMMA OverranStays == IInv /\ Next => (overran => overran')
<1> SUFFICES ASSUME IInv, Next PROVE overran => overran'
  OBVIOUS
<1> USE OpsAssumption, MoneyAssumption DEF IInv
<1>1. CASE \/ Allocate \/ EnsureDue \/ Purchase \/ Settle \/ RowFails \/ LatePut \/ LostPut
              \/ IssuerCloses \/ DeadlinePasses \/ LeaseLapses
           \/ \E o \in Ops : ExecuteIssue(o) \/ ExecuteCommand(o) \/ OperationLapses(o)
           \/ \E r \in Runs : Discover(r) \/ Query(r) \/ StoreReference(r) \/ StoreCard(r)
              \/ FinishIssue(r) \/ TakeLease(r) \/ Prepare(r) \/ RetireReads(r) \/ Put(r) \/
              PutRefused(r) \/ Confirm(r) \/ FinishLifecycle(r) \/ FinishRetirement(r) \/
              FetchCard(r) \/ ApplyEvent(r) \/ CreateCard(r) \/ IssueRefused(r) \/
              PutTimesOut(r) \/ TimesOut(r) \/ Crash(r)
           \/ \E r \in Runs, o \in Ops : Claim(r, o) \/ PickUncertain(r, o)
  <2>1. UNCHANGED <<overran>>
    BY <1>1 DEF ExecuteIssue, ExecuteCommand, OperationLapses, Allocate, EnsureDue, Purchase,
       Settle, RowFails, LatePut, LostPut, IssuerCloses, DeadlinePasses, LeaseLapses, Discover,
       Query, StoreReference, StoreCard, FinishIssue, TakeLease, Prepare, RetireReads, Put,
       PutRefused, Confirm, FinishLifecycle, FinishRetirement, FetchCard, ApplyEvent, CreateCard,
       IssueRefused, PutTimesOut, TimesOut, Crash, Claim, PickUncertain
  <2> QED BY <2>1
<1>2. ASSUME NEW r \in Runs, Overruns(r)
      PROVE  overran => overran'
  BY <1>2 DEF Overruns, Lapsed, LeasedPcs
<1> QED BY <1>1, <1>2 DEF Next, RunStep

\* A run takes the lease only when nobody has it, and gives back its own.
LEMMA LeaseStep == IInv /\ Next /\ ~overran' => \A q \in Runs : LeaseInv(q)'
<1> SUFFICES ASSUME IInv, Next, ~overran', NEW q \in Runs PROVE LeaseInv(q)'
  OBVIOUS
<1> USE OpsAssumption, MoneyAssumption DEF IInv
<1> ~overran
  BY OverranStays
<1>1. CASE \/ Allocate \/ EnsureDue \/ Purchase \/ Settle \/ RowFails \/ LatePut \/ LostPut
              \/ IssuerCloses \/ DeadlinePasses
           \/ \E o \in Ops : ExecuteIssue(o) \/ ExecuteCommand(o) \/ OperationLapses(o)
  <2>1. UNCHANGED <<lease, run>>
    BY <1>1 DEF ExecuteIssue, ExecuteCommand, OperationLapses, Allocate, EnsureDue, Purchase,
       Settle, RowFails, LatePut, LostPut, IssuerCloses, DeadlinePasses
  <2> QED BY <2>1 DEF LeaseInv, TypeOK, RunState, ClaimInv, Exclusive, Active, Claimed, LeasedPcs
<1>2. ASSUME LeaseLapses
      PROVE  LeaseInv(q)'
  BY <1>2 DEF LeaseLapses, LeaseInv, TypeOK, RunState, ClaimInv, Exclusive, Active, Claimed,
     LeasedPcs
<1>3. ASSUME NEW r \in Runs, Discover(r)
      PROVE  LeaseInv(q)'
  BY <1>3 DEF Discover, At, Goto, Stop, Idle, LeaseInv, TypeOK, RunState, ClaimInv, Exclusive,
     Active, Claimed, LeasedPcs
<1>4. ASSUME NEW r \in Runs, Query(r)
      PROVE  LeaseInv(q)'
  BY <1>4 DEF Query, At, Doing, See, Stop, Idle, Wanted, LeaseInv, TypeOK, RunState, ClaimInv,
     Exclusive, Active, Claimed, LeasedPcs
<1>5. ASSUME NEW r \in Runs, StoreReference(r)
      PROVE  LeaseInv(q)'
  BY <1>5 DEF StoreReference, At, Goto, LeaseInv, TypeOK, RunState, ClaimInv, Exclusive, Active,
     Claimed, LeasedPcs
<1>6. ASSUME NEW r \in Runs, StoreCard(r)
      PROVE  LeaseInv(q)'
  BY <1>6 DEF StoreCard, At, Goto, LeaseInv, TypeOK, RunState, ClaimInv, Exclusive, Active,
     Claimed, LeasedPcs
<1>7. ASSUME NEW r \in Runs, FinishIssue(r)
      PROVE  LeaseInv(q)'
  <2>1. IssueFinished(r, run[r].op) /\ run[r].op \in Ops
    BY <1>7, FinishIssueEffect DEF TypeOK, RunState
  <2> QED BY <2>1 DEF IssueFinished, LeaseInv, TypeOK, RunState, ClaimInv, Exclusive, Active,
     Claimed, LeasedPcs, Idle
<1>8. ASSUME NEW r \in Runs, TakeLease(r)
      PROVE  LeaseInv(q)'
  BY <1>8 DEF TakeLease, At, Doing, Goto, GivesUp, Overwrites, Lapsed, SetOp, LeaseFree, Stop,
     Idle, LeaseInv, TypeOK, RunState, ClaimInv, Exclusive, Active, Claimed, LeasedPcs
<1>9. ASSUME NEW r \in Runs, Prepare(r)
      PROVE  LeaseInv(q)'
  BY <1>9 DEF Prepare, At, Doing, Lifecycle, Reason, Retired, Marked, Enqueued, Leave, Stop,
     Release, Idle, Goto, LeaseInv, TypeOK, RunState, ClaimInv, Exclusive, Active, Claimed,
     LeasedPcs
<1>10. ASSUME NEW r \in Runs, RetireReads(r)
      PROVE  LeaseInv(q)'
  BY <1>10 DEF RetireReads, At, Doing, Retired, LeaveUncertain, Uncertain, GivesUp, Overwrites,
     Lapsed, SetOp, Release, Stop, Idle, Goto, See, LeaseInv, TypeOK, RunState, ClaimInv,
     Exclusive, Active, Claimed, LeasedPcs
<1>11. ASSUME NEW r \in Runs, Put(r)
      PROVE  LeaseInv(q)'
  BY <1>11 DEF Put, At, Doing, Wanted, Goto, Reports, LeaseInv, TypeOK, RunState, ClaimInv,
     Exclusive, Active, Claimed, LeasedPcs
<1>12. ASSUME NEW r \in Runs, PutRefused(r)
      PROVE  LeaseInv(q)'
  BY <1>12 DEF PutRefused, At, Doing, LeaveUncertain, Uncertain, GivesUp, Overwrites, Lapsed,
     SetOp, Release, Stop, Idle, Leave, Fail, Pays, LeaseInv, TypeOK, RunState, ClaimInv,
     Exclusive, Active, Claimed, LeasedPcs
<1>13. ASSUME NEW r \in Runs, Confirm(r)
      PROVE  LeaseInv(q)'
  BY <1>13 DEF Confirm, At, LeaveUncertain, Uncertain, GivesUp, Overwrites, Lapsed, SetOp, Doing,
     Release, Stop, Idle, See, LeaseInv, TypeOK, RunState, ClaimInv, Exclusive, Active, Claimed,
     LeasedPcs
<1>14. ASSUME NEW r \in Runs, FinishLifecycle(r)
      PROVE  LeaseInv(q)'
  <2>1. LifecycleFinished(r, run[r].op) /\ run[r].op \in Ops
    BY <1>14, FinishLifecycleEffect DEF TypeOK, RunState
  <2> QED BY <2>1 DEF LifecycleFinished, LeaseInv, TypeOK, RunState, ClaimInv, Exclusive, Active,
     Claimed, LeasedPcs, Idle
<1>15. ASSUME NEW r \in Runs, FinishRetirement(r)
      PROVE  LeaseInv(q)'
  <2>1. RetirementFinished(r, run[r].op) /\ run[r].op \in Ops
    BY <1>15, FinishRetirementEffect DEF TypeOK, RunState
  <2> QED BY <2>1 DEF RetirementFinished, LeaseInv, TypeOK, RunState, ClaimInv, Exclusive, Active,
     Claimed, LeasedPcs, Idle
<1>16. ASSUME NEW r \in Runs, FetchCard(r)
      PROVE  LeaseInv(q)'
  <2>1. /\ run[r].pc = "idle" /\ UNCHANGED <<lease, card>>
        /\ \/ run' = run
           \/ /\ card.ext
              /\ run' = [run EXCEPT ![r] = [pc |-> "fetched", op |-> AutoRetire, seen |-> sudo.status]]
    BY <1>16 DEF FetchCard, At, Idle
  <2> QED BY <2>1 DEF LeaseInv, TypeOK, RunState, ClaimInv, Exclusive, Active, Claimed, LeasedPcs
<1>17. ASSUME NEW r \in Runs, ApplyEvent(r)
      PROVE  LeaseInv(q)'
  <2>1. EventApplied(r)
    BY <1>17, ApplyEventEffect
  <2> QED BY <2>1 DEF EventApplied, LeaseInv, TypeOK, RunState, ClaimInv, Exclusive, Active,
     Claimed, LeasedPcs, Idle
<1>18. ASSUME NEW r \in Runs, CreateCard(r)
      PROVE  LeaseInv(q)'
  BY <1>18 DEF CreateCard, At, Doing, LeaseInv, TypeOK, RunState, ClaimInv, Exclusive, Active,
     Claimed, LeasedPcs
<1>19. ASSUME NEW r \in Runs, IssueRefused(r)
      PROVE  LeaseInv(q)'
  BY <1>19 DEF IssueRefused, At, Doing, Fail, SetOp, Pays, Stop, Idle, LeaseInv, TypeOK, RunState,
     ClaimInv, Exclusive, Active, Claimed, LeasedPcs
<1>20. ASSUME NEW r \in Runs, PutTimesOut(r)
      PROVE  LeaseInv(q)'
  BY <1>20 DEF PutTimesOut, At, Wanted, Doing, LeaveUncertain, Uncertain, GivesUp, Overwrites,
     Lapsed, SetOp, Stop, Idle, Release, LeaseInv, TypeOK, RunState, ClaimInv, Exclusive, Active,
     Claimed, LeasedPcs
<1>21. ASSUME NEW r \in Runs, TimesOut(r)
      PROVE  LeaseInv(q)'
  BY <1>21 DEF TimesOut, At, LeasedPcs, LeaveUncertain, Uncertain, GivesUp, Overwrites, Lapsed,
     SetOp, Doing, Stop, Idle, Release, LeaseInv, TypeOK, RunState, ClaimInv, Exclusive, Active,
     Claimed
<1>22. ASSUME NEW r \in Runs, Crash(r)
      PROVE  LeaseInv(q)'
  BY <1>22 DEF Crash, At, Stop, Idle, LeaseInv, TypeOK, RunState, ClaimInv, Exclusive, Active,
     Claimed, LeasedPcs
<1>23. ASSUME NEW r \in Runs, Overruns(r)
      PROVE  LeaseInv(q)'
  BY <1>23 DEF Overruns, Lapsed, LeasedPcs, LeaseInv, TypeOK, RunState, ClaimInv, Exclusive,
     Active, Claimed
<1>24. ASSUME NEW r \in Runs, NEW o \in Ops, Claim(r, o)
      PROVE  LeaseInv(q)'
  BY <1>24 DEF Claim, At, SetOp, Idle, LeaseInv, TypeOK, RunState, ClaimInv, Exclusive, Active,
     Claimed, LeasedPcs
<1>25. ASSUME NEW r \in Runs, NEW o \in Ops, PickUncertain(r, o)
      PROVE  LeaseInv(q)'
  <2>1. PICK pc \in {"reclaimed", "query", "lookup"} :
          /\ run' = [run EXCEPT ![r] = [Idle EXCEPT !.pc = pc, !.op = o]]
          /\ UNCHANGED <<card, lease>> /\ ~Active(r)
          /\ pc = "reclaimed" => Kind[o] = "RETIRE" /\ op' = [op EXCEPT ![o] = "PROCESSING"]
          /\ pc # "reclaimed" => Kind[o] # "RETIRE" /\ op' = op
          /\ pc = "lookup" => Kind[o] = "ISSUE"
          /\ op[o] \in {"UNKNOWN", "PENDING"}
          /\ pc = "query" /\ Kind[o] = "ISSUE" => o \in named
          /\ sudo' = sudo
    BY <1>25 DEF PickUncertain, At, Listed, SetOp, Active
  <2> QED BY <2>1 DEF LeaseInv, LeasedPcs, Idle, TypeOK, RunState
<1> QED BY <1>1, <1>2, <1>3, <1>4, <1>5, <1>6, <1>7, <1>8, <1>9, <1>10, <1>11, <1>12, <1>13, <1>14,
   <1>15, <1>16, <1>17, <1>18, <1>19, <1>20, <1>21, <1>22, <1>23, <1>24, <1>25 DEF Next, RunStep

\* What a run is on fits where it is.
LEMMA ClaimStep == IInv /\ Next => \A q \in Runs : ClaimInv(q)'
<1> SUFFICES ASSUME IInv, Next, NEW q \in Runs PROVE ClaimInv(q)'
  OBVIOUS
<1> USE OpsAssumption, MoneyAssumption DEF IInv
<1>1. CASE \/ Allocate \/ Purchase \/ Settle \/ RowFails \/ LatePut \/ LostPut \/
              IssuerCloses \/ DeadlinePasses \/ LeaseLapses
  <2>1. UNCHANGED <<run, op, card>>
    BY <1>1 DEF Allocate, Purchase, Settle, RowFails, LatePut, LostPut, IssuerCloses,
       DeadlinePasses, LeaseLapses
  <2> QED BY <2>1 DEF TypeOK, CardRow, Statuses, RunState, Pcs, Seen, ClaimInv, Claimed, Active,
     LeasedPcs, Lifecycle, Retired, Final, Idle
<1>2. ASSUME NEW o \in Ops, ExecuteIssue(o)
      PROVE  ClaimInv(q)'
  BY <1>2 DEF ExecuteIssue, Pays, SetOp, TypeOK, CardRow, Statuses, RunState, Pcs, Seen, ClaimInv,
     Claimed, Active, LeasedPcs, Lifecycle, Retired, Final, Idle
<1>3. ASSUME NEW o \in Ops, ExecuteCommand(o)
      PROVE  ClaimInv(q)'
  BY <1>3 DEF ExecuteCommand, SetOp, Marked, Pending, Reason, Retired, TypeOK, CardRow, Statuses,
     RunState, Pcs, Seen, ClaimInv, Claimed, Active, LeasedPcs, Lifecycle, Final, Idle
<1>4. ASSUME NEW o \in Ops, OperationLapses(o)
      PROVE  ClaimInv(q)'
  BY <1>4 DEF OperationLapses, SetOp, TypeOK, CardRow, Statuses, RunState, Pcs, Seen, ClaimInv,
     Claimed, Active, LeasedPcs, Lifecycle, Retired, Final, Idle
<1>5. ASSUME EnsureDue
      PROVE  ClaimInv(q)'
  BY <1>5 DEF EnsureDue, Marked, Enqueued, Reason, Retired, TypeOK, CardRow, Statuses, RunState,
     Pcs, Seen, ClaimInv, Claimed, Active, LeasedPcs, Lifecycle, Final, Idle
<1>6. ASSUME NEW r \in Runs, Discover(r)
      PROVE  ClaimInv(q)'
  BY <1>6 DEF Discover, At, Goto, Stop, Idle, TypeOK, CardRow, Statuses, RunState, Pcs, Seen,
     ClaimInv, Claimed, Active, LeasedPcs, Lifecycle, Retired, Final
<1>7. ASSUME NEW r \in Runs, Query(r)
      PROVE  ClaimInv(q)'
  BY <1>7 DEF Query, At, Doing, See, Stop, Idle, Wanted, TypeOK, CardRow, Statuses, RunState, Pcs,
     Seen, ClaimInv, Claimed, Active, LeasedPcs, Lifecycle, Retired, Final
<1>8. ASSUME NEW r \in Runs, StoreReference(r)
      PROVE  ClaimInv(q)'
  BY <1>8 DEF StoreReference, At, Goto, TypeOK, CardRow, Statuses, RunState, Pcs, Seen, ClaimInv,
     Claimed, Active, LeasedPcs, Lifecycle, Retired, Final, Idle
<1>9. ASSUME NEW r \in Runs, StoreCard(r)
      PROVE  ClaimInv(q)'
  BY <1>9 DEF StoreCard, At, Goto, TypeOK, CardRow, Statuses, RunState, Pcs, Seen, ClaimInv,
     Claimed, Active, LeasedPcs, Lifecycle, Retired, Final, Idle
<1>10. ASSUME NEW r \in Runs, FinishIssue(r)
      PROVE  ClaimInv(q)'
  <2>1. IssueFinished(r, run[r].op) /\ run[r].op \in Ops
    BY <1>10, FinishIssueEffect DEF TypeOK, RunState
  <2>2. CASE LeftOpen(run[r].op) /\ Stays
    BY <2>1, <2>2 DEF IssueFinished, LeftOpen, Stays, TypeOK, CardRow, Statuses, RunState, Pcs,
       Seen, ClaimInv, Claimed, Active, LeasedPcs, Lifecycle, Retired, Final, Idle
  <2>3. CASE op' = op /\ Stays
    BY <2>1, <2>3 DEF IssueFinished, Stays, TypeOK, CardRow, Statuses, RunState, Pcs, Seen,
       ClaimInv, Claimed, Active, LeasedPcs, Lifecycle, Retired, Final, Idle
  <2>4. CASE IssueBooked(run[r].op)
    BY <2>1, <2>4 DEF IssueFinished, IssueBooked, TypeOK, CardRow, Statuses, RunState, Pcs, Seen,
       ClaimInv, Claimed, Active, LeasedPcs, Lifecycle, Retired, Final, Idle
  <2> QED BY <2>1, <2>2, <2>3, <2>4 DEF IssueFinished
<1>11. ASSUME NEW r \in Runs, TakeLease(r)
      PROVE  ClaimInv(q)'
  BY <1>11 DEF TakeLease, At, Doing, Goto, GivesUp, Overwrites, Lapsed, SetOp, LeaseFree, Stop,
     Idle, TypeOK, CardRow, Statuses, RunState, Pcs, Seen, ClaimInv, Claimed, Active, LeasedPcs,
     Lifecycle, Retired, Final
<1>12. ASSUME NEW r \in Runs, Prepare(r)
      PROVE  ClaimInv(q)'
  BY <1>12 DEF Prepare, At, Doing, Lifecycle, Reason, Retired, Marked, Enqueued, Leave, Stop,
     Release, Idle, Goto, TypeOK, CardRow, Statuses, RunState, Pcs, Seen, ClaimInv, Claimed,
     Active, LeasedPcs, Final
<1>13. ASSUME NEW r \in Runs, RetireReads(r)
      PROVE  ClaimInv(q)'
  <2>1. /\ Claimed(r) /\ Active(r) /\ Kind[run[r].op] = "RETIRE" /\ op[run[r].op] # "none"
        /\ card' = card /\ sudo' = sudo /\ run'[r].op \in {run[r].op, AutoRetire}
        /\ run' = [run EXCEPT ![r] = run'[r]]
        /\ \/ run'[r] = Idle /\ op' = [op EXCEPT ![run[r].op] = "UNKNOWN"]
           \/ /\ run'[r].pc \in {"putting", "finish"} /\ run'[r].op = run[r].op
              /\ run'[r].pc = "putting" => sudo.status = "active"
              /\ op' = op /\ Retired /\ card.ext
    BY <1>13 DEF RetireReads, At, Doing, Retired, LeaveUncertain, Uncertain, Overwrites, SetOp,
       Release, Stop, Idle, Goto, See, ClaimInv, Claimed, Active, LeasedPcs, TypeOK, RunState
  <2>2. \A p \in Runs \ {r} : run'[p] = run[p]
    BY <2>1 DEF TypeOK
  <2>3. CASE q = r
    BY <2>1, <2>3 DEF TypeOK, CardRow, Statuses, RunState, Pcs, Seen, ClaimInv, Claimed, Active,
       LeasedPcs, Lifecycle, Retired, Final, Idle
  <2>4. CASE q # r
    BY <2>1, <2>2, <2>4 DEF TypeOK, CardRow, Statuses, RunState, Pcs, Seen, ClaimInv, Claimed,
       Active, LeasedPcs, Lifecycle, Retired, Final, Idle
  <2> QED BY <2>3, <2>4
<1>14. ASSUME NEW r \in Runs, Put(r)
      PROVE  ClaimInv(q)'
  BY <1>14 DEF Put, At, Doing, Wanted, Goto, Reports, TypeOK, CardRow, Statuses, RunState, Pcs,
     Seen, ClaimInv, Claimed, Active, LeasedPcs, Lifecycle, Retired, Final, Idle
<1>15. ASSUME NEW r \in Runs, PutRefused(r)
      PROVE  ClaimInv(q)'
  BY <1>15 DEF PutRefused, At, Doing, LeaveUncertain, Uncertain, GivesUp, Overwrites, Lapsed,
     SetOp, Release, Stop, Idle, Leave, Fail, Pays, TypeOK, CardRow, Statuses, RunState, Pcs, Seen,
     ClaimInv, Claimed, Active, LeasedPcs, Lifecycle, Retired, Final
<1>16. ASSUME NEW r \in Runs, Confirm(r)
      PROVE  ClaimInv(q)'
  BY <1>16 DEF Confirm, At, LeaveUncertain, Uncertain, GivesUp, Overwrites, Lapsed, SetOp, Doing,
     Release, Stop, Idle, See, TypeOK, CardRow, Statuses, RunState, Pcs, Seen, ClaimInv, Claimed,
     Active, LeasedPcs, Lifecycle, Retired, Final
<1>17. ASSUME NEW r \in Runs, FinishLifecycle(r)
      PROVE  ClaimInv(q)'
  <2>1. LifecycleFinished(r, run[r].op) /\ run[r].op \in Ops
    BY <1>17, FinishLifecycleEffect DEF TypeOK, RunState
  <2>2. CASE LeftOpen(run[r].op) /\ Stays
    BY <2>1, <2>2 DEF LifecycleFinished, LeftOpen, Stays, TypeOK, CardRow, Statuses, RunState, Pcs,
       Seen, ClaimInv, Claimed, Active, LeasedPcs, Lifecycle, Retired, Final, Idle
  <2>3. CASE op' = op /\ Stays
    BY <2>1, <2>3 DEF LifecycleFinished, Stays, TypeOK, CardRow, Statuses, RunState, Pcs, Seen,
       ClaimInv, Claimed, Active, LeasedPcs, Lifecycle, Retired, Final, Idle
  <2>4. CASE Overdue(run[r].op)
    BY <2>1, <2>4 DEF LifecycleFinished, Overdue, Stays, TypeOK, CardRow, Statuses, RunState, Pcs,
       Seen, ClaimInv, Claimed, Active, LeasedPcs, Lifecycle, Retired, Final, Idle
  <2>5. CASE ClosedByOwner(run[r].op)
    BY <2>1, <2>5 DEF LifecycleFinished, ClosedByOwner, Emptied, TypeOK, CardRow, Statuses,
       RunState, Pcs, Seen, ClaimInv, Claimed, Active, LeasedPcs, Lifecycle, Retired, Final, Idle
  <2>6. CASE Switched(run[r].op)
    BY <2>1, <2>6 DEF LifecycleFinished, Switched, TypeOK, CardRow, Statuses, RunState, Pcs, Seen,
       ClaimInv, Claimed, Active, LeasedPcs, Lifecycle, Retired, Final, Idle
  <2> QED BY <2>1, <2>2, <2>3, <2>4, <2>5, <2>6 DEF LifecycleFinished
<1>18. ASSUME NEW r \in Runs, FinishRetirement(r)
      PROVE  ClaimInv(q)'
  <2>1. RetirementFinished(r, run[r].op) /\ run[r].op \in Ops
    BY <1>18, FinishRetirementEffect DEF TypeOK, RunState
  <2>2. CASE Reopened(run[r].op) /\ Stays
    BY <2>1, <2>2 DEF RetirementFinished, Reopened, Stays, TypeOK, CardRow, Statuses, RunState,
       Pcs, Seen, ClaimInv, Claimed, Active, LeasedPcs, Lifecycle, Retired, Final, Idle
  <2>3. CASE WaitsForHolds(run[r].op)
    BY <2>1, <2>3 DEF RetirementFinished, WaitsForHolds, TypeOK, CardRow, Statuses, RunState, Pcs,
       Seen, ClaimInv, Claimed, Active, LeasedPcs, Lifecycle, Retired, Final, Idle
  <2>4. CASE RetiredNow(run[r].op)
    BY <2>1, <2>4 DEF RetirementFinished, RetiredNow, Emptied, TypeOK, CardRow, Statuses, RunState,
       Pcs, Seen, ClaimInv, Claimed, Active, LeasedPcs, Lifecycle, Retired, Final, Idle
  <2> QED BY <2>1, <2>2, <2>3, <2>4 DEF RetirementFinished
<1>19. ASSUME NEW r \in Runs, FetchCard(r)
      PROVE  ClaimInv(q)'
  <2>1. /\ run[r].pc = "idle" /\ UNCHANGED <<op, card>>
        /\ \/ run' = run
           \/ /\ card.ext
              /\ run' = [run EXCEPT ![r] = [pc |-> "fetched", op |-> AutoRetire, seen |-> sudo.status]]
    BY <1>19 DEF FetchCard, At, Idle
  <2> QED BY <2>1 DEF TypeOK, CardRow, Statuses, RunState, Pcs, Seen, ClaimInv, Claimed, Active,
     LeasedPcs, Lifecycle, Retired, Final, Idle
<1>20. ASSUME NEW r \in Runs, ApplyEvent(r)
      PROVE  ClaimInv(q)'
  <2>1. EventApplied(r)
    BY <1>20, ApplyEventEffect
  <2>2. CASE op' = op /\ Stays
    BY <2>1, <2>2 DEF EventApplied, Stays, TypeOK, CardRow, Statuses, RunState, Pcs, Seen,
       ClaimInv, Claimed, Active, LeasedPcs, Lifecycle, Retired, Final, Idle
  <2>3. CASE SentBack
    BY <2>1, <2>3 DEF EventApplied, SentBack, TypeOK, CardRow, Statuses, RunState, Pcs, Seen,
       ClaimInv, Claimed, Active, LeasedPcs, Lifecycle, Retired, Final, Idle
  <2>4. CASE MarkedByIssuer
    BY <2>1, <2>4 DEF EventApplied, MarkedByIssuer, TypeOK, CardRow, Statuses, RunState, Pcs, Seen,
       ClaimInv, Claimed, Active, LeasedPcs, Lifecycle, Retired, Final, Idle
  <2>5. CASE ClosedByIssuer
    BY <2>1, <2>5 DEF EventApplied, ClosedByIssuer, Emptied, TypeOK, CardRow, Statuses, RunState,
       Pcs, Seen, ClaimInv, Claimed, Active, LeasedPcs, Lifecycle, Retired, Final, Idle
  <2>6. CASE Copied
    BY <2>1, <2>6 DEF EventApplied, Copied, TypeOK, CardRow, Statuses, RunState, Pcs, Seen,
       ClaimInv, Claimed, Active, LeasedPcs, Lifecycle, Retired, Final, Idle
  <2> QED BY <2>1, <2>2, <2>3, <2>4, <2>5, <2>6 DEF EventApplied
<1>21. ASSUME NEW r \in Runs, CreateCard(r)
      PROVE  ClaimInv(q)'
  BY <1>21 DEF CreateCard, At, Doing, TypeOK, CardRow, Statuses, RunState, Pcs, Seen, ClaimInv,
     Claimed, Active, LeasedPcs, Lifecycle, Retired, Final, Idle
<1>22. ASSUME NEW r \in Runs, IssueRefused(r)
      PROVE  ClaimInv(q)'
  BY <1>22 DEF IssueRefused, At, Doing, Fail, SetOp, Pays, Stop, Idle, TypeOK, CardRow, Statuses,
     RunState, Pcs, Seen, ClaimInv, Claimed, Active, LeasedPcs, Lifecycle, Retired, Final
<1>23. ASSUME NEW r \in Runs, PutTimesOut(r)
      PROVE  ClaimInv(q)'
  BY <1>23 DEF PutTimesOut, At, Wanted, Doing, LeaveUncertain, Uncertain, GivesUp, Overwrites,
     Lapsed, SetOp, Stop, Idle, Release, TypeOK, CardRow, Statuses, RunState, Pcs, Seen, ClaimInv,
     Claimed, Active, LeasedPcs, Lifecycle, Retired, Final
<1>24. ASSUME NEW r \in Runs, TimesOut(r)
      PROVE  ClaimInv(q)'
  BY <1>24 DEF TimesOut, At, LeasedPcs, LeaveUncertain, Uncertain, GivesUp, Overwrites, Lapsed,
     SetOp, Doing, Stop, Idle, Release, TypeOK, CardRow, Statuses, RunState, Pcs, Seen, ClaimInv,
     Claimed, Active, Lifecycle, Retired, Final
<1>25. ASSUME NEW r \in Runs, Crash(r)
      PROVE  ClaimInv(q)'
  BY <1>25 DEF Crash, At, Stop, Idle, TypeOK, CardRow, Statuses, RunState, Pcs, Seen, ClaimInv,
     Claimed, Active, LeasedPcs, Lifecycle, Retired, Final
<1>26. ASSUME NEW r \in Runs, Overruns(r)
      PROVE  ClaimInv(q)'
  BY <1>26 DEF Overruns, Lapsed, LeasedPcs, TypeOK, CardRow, Statuses, RunState, Pcs, Seen,
     ClaimInv, Claimed, Active, Lifecycle, Retired, Final, Idle
<1>27. ASSUME NEW r \in Runs, NEW o \in Ops, Claim(r, o)
      PROVE  ClaimInv(q)'
  BY <1>27 DEF Claim, At, SetOp, Idle, TypeOK, CardRow, Statuses, RunState, Pcs, Seen, ClaimInv,
     Claimed, Active, LeasedPcs, Lifecycle, Retired, Final
<1>28. ASSUME NEW r \in Runs, NEW o \in Ops, PickUncertain(r, o)
      PROVE  ClaimInv(q)'
  <2>1. PICK pc \in {"reclaimed", "query", "lookup"} :
          /\ run' = [run EXCEPT ![r] = [Idle EXCEPT !.pc = pc, !.op = o]]
          /\ UNCHANGED <<card, lease>> /\ ~Active(r)
          /\ pc = "reclaimed" => Kind[o] = "RETIRE" /\ op' = [op EXCEPT ![o] = "PROCESSING"]
          /\ pc # "reclaimed" => Kind[o] # "RETIRE" /\ op' = op
          /\ pc = "lookup" => Kind[o] = "ISSUE"
          /\ op[o] \in {"UNKNOWN", "PENDING"}
          /\ pc = "query" /\ Kind[o] = "ISSUE" => o \in named
          /\ sudo' = sudo
    BY <1>28 DEF PickUncertain, At, Listed, SetOp, Active
  <2>2. run'[r] = [pc |-> pc, op |-> o, seen |-> "none"]
    BY <2>1 DEF Idle, TypeOK
  <2>3. \A p \in Runs \ {r} : run'[p] = run[p]
    BY <2>1 DEF TypeOK
  <2>4. CASE q = r
    BY <2>1, <2>2, <2>3, <2>4 DEF TypeOK, CardRow, Statuses, RunState, Pcs, Seen, ClaimInv,
       Claimed, Active, LeasedPcs, Lifecycle, Retired, Final, Idle
  <2>5. CASE q # r
    BY <2>1, <2>2, <2>3, <2>5 DEF TypeOK, CardRow, Statuses, RunState, Pcs, Seen, ClaimInv,
       Claimed, Active, LeasedPcs, Lifecycle, Retired, Final, Idle
  <2> QED BY <2>4, <2>5
<1> QED BY <1>1, <1>2, <1>3, <1>4, <1>5, <1>6, <1>7, <1>8, <1>9, <1>10, <1>11, <1>12, <1>13, <1>14,
   <1>15, <1>16, <1>17, <1>18, <1>19, <1>20, <1>21, <1>22, <1>23, <1>24, <1>25, <1>26, <1>27, <1>28
   DEF Next, RunStep

\* Sudo creates one card.
LEMMA SudoStep == IInv /\ Next => \A q \in Runs : SudoInv(q)'
<1> SUFFICES ASSUME IInv, Next, NEW q \in Runs PROVE SudoInv(q)'
  OBVIOUS
<1> USE OpsAssumption, MoneyAssumption DEF IInv
<1>1. CASE \/ Allocate \/ Purchase \/ Settle \/ RowFails \/ DeadlinePasses \/ LeaseLapses
  <2>1. UNCHANGED <<run, op, sudo>>
    BY <1>1 DEF Allocate, Purchase, Settle, RowFails, DeadlinePasses, LeaseLapses
  <2> QED BY <2>1 DEF TypeOK, CardRow, Statuses, RunState, Pcs, Seen, ClaimInv, SudoInv, IssueInv,
     CardInv, Claimed, Active, LeasedPcs, Lifecycle, Retired, Final, Idle
<1>2. ASSUME NEW o \in Ops, ExecuteIssue(o)
      PROVE  SudoInv(q)'
  BY <1>2 DEF ExecuteIssue, Pays, SetOp, TypeOK, CardRow, Statuses, RunState, Pcs, Seen, ClaimInv,
     SudoInv, IssueInv, CardInv, Claimed, Active, LeasedPcs, Lifecycle, Retired, Final, Idle
<1>3. ASSUME NEW o \in Ops, ExecuteCommand(o)
      PROVE  SudoInv(q)'
  BY <1>3 DEF ExecuteCommand, SetOp, Marked, Pending, Reason, Retired, TypeOK, CardRow, Statuses,
     RunState, Pcs, Seen, ClaimInv, SudoInv, IssueInv, CardInv, Claimed, Active, LeasedPcs,
     Lifecycle, Final, Idle
<1>4. ASSUME NEW o \in Ops, OperationLapses(o)
      PROVE  SudoInv(q)'
  BY <1>4 DEF OperationLapses, SetOp, TypeOK, CardRow, Statuses, RunState, Pcs, Seen, ClaimInv,
     SudoInv, IssueInv, CardInv, Claimed, Active, LeasedPcs, Lifecycle, Retired, Final, Idle
<1>5. ASSUME EnsureDue
      PROVE  SudoInv(q)'
  BY <1>5 DEF EnsureDue, Marked, Enqueued, Reason, Retired, TypeOK, CardRow, Statuses, RunState,
     Pcs, Seen, ClaimInv, SudoInv, IssueInv, CardInv, Claimed, Active, LeasedPcs, Lifecycle, Final,
     Idle
<1>6. ASSUME LatePut
      PROVE  SudoInv(q)'
  <2>1. /\ sudo.status # "none" /\ sudo'.status # "none" /\ UNCHANGED <<run, op>>
    BY <1>6 DEF LatePut, CardInv, TypeOK
  <2> QED BY <2>1 DEF SudoInv, TypeOK, RunState
<1>7. ASSUME LostPut
      PROVE  SudoInv(q)'
  BY <1>7 DEF LostPut, TypeOK, CardRow, Statuses, RunState, Pcs, Seen, ClaimInv, SudoInv, IssueInv,
     CardInv, Claimed, Active, LeasedPcs, Lifecycle, Retired, Final, Idle
<1>8. ASSUME IssuerCloses
      PROVE  SudoInv(q)'
  BY <1>8 DEF IssuerCloses, Reports, TypeOK, CardRow, Statuses, RunState, Pcs, Seen, ClaimInv,
     SudoInv, IssueInv, CardInv, Claimed, Active, LeasedPcs, Lifecycle, Retired, Final, Idle
<1>9. ASSUME NEW r \in Runs, Discover(r)
      PROVE  SudoInv(q)'
  BY <1>9 DEF Discover, At, Goto, Stop, Idle, TypeOK, CardRow, Statuses, RunState, Pcs, Seen,
     ClaimInv, SudoInv, IssueInv, CardInv, Claimed, Active, LeasedPcs, Lifecycle, Retired, Final
<1>10. ASSUME NEW r \in Runs, Query(r)
      PROVE  SudoInv(q)'
  BY <1>10 DEF Query, At, Doing, See, Stop, Idle, Wanted, TypeOK, CardRow, Statuses, RunState, Pcs,
     Seen, ClaimInv, SudoInv, IssueInv, CardInv, Claimed, Active, LeasedPcs, Lifecycle, Retired,
     Final
<1>11. ASSUME NEW r \in Runs, StoreReference(r)
      PROVE  SudoInv(q)'
  BY <1>11 DEF StoreReference, At, Goto, TypeOK, CardRow, Statuses, RunState, Pcs, Seen, ClaimInv,
     SudoInv, IssueInv, CardInv, Claimed, Active, LeasedPcs, Lifecycle, Retired, Final, Idle
<1>12. ASSUME NEW r \in Runs, StoreCard(r)
      PROVE  SudoInv(q)'
  BY <1>12 DEF StoreCard, At, Goto, TypeOK, CardRow, Statuses, RunState, Pcs, Seen, ClaimInv,
     SudoInv, IssueInv, CardInv, Claimed, Active, LeasedPcs, Lifecycle, Retired, Final, Idle
<1>13. ASSUME NEW r \in Runs, FinishIssue(r)
      PROVE  SudoInv(q)'
  <2>1. IssueFinished(r, run[r].op) /\ run[r].op \in Ops
    BY <1>13, FinishIssueEffect DEF TypeOK, RunState
  <2>2. CASE LeftOpen(run[r].op) /\ Stays
    BY <2>1, <2>2 DEF IssueFinished, LeftOpen, Stays, TypeOK, CardRow, Statuses, RunState, Pcs,
       Seen, ClaimInv, SudoInv, IssueInv, CardInv, Claimed, Active, LeasedPcs, Lifecycle, Retired,
       Final, Idle
  <2>3. CASE op' = op /\ Stays
    BY <2>1, <2>3 DEF IssueFinished, Stays, TypeOK, CardRow, Statuses, RunState, Pcs, Seen,
       ClaimInv, SudoInv, IssueInv, CardInv, Claimed, Active, LeasedPcs, Lifecycle, Retired, Final,
       Idle
  <2>4. CASE IssueBooked(run[r].op)
    BY <2>1, <2>4 DEF IssueFinished, IssueBooked, TypeOK, CardRow, Statuses, RunState, Pcs, Seen,
       ClaimInv, SudoInv, IssueInv, CardInv, Claimed, Active, LeasedPcs, Lifecycle, Retired, Final,
       Idle
  <2> QED BY <2>1, <2>2, <2>3, <2>4 DEF IssueFinished
<1>14. ASSUME NEW r \in Runs, TakeLease(r)
      PROVE  SudoInv(q)'
  BY <1>14 DEF TakeLease, At, Doing, Goto, GivesUp, Overwrites, Lapsed, SetOp, LeaseFree, Stop,
     Idle, TypeOK, CardRow, Statuses, RunState, Pcs, Seen, ClaimInv, SudoInv, IssueInv, CardInv,
     Claimed, Active, LeasedPcs, Lifecycle, Retired, Final
<1>15. ASSUME NEW r \in Runs, Prepare(r)
      PROVE  SudoInv(q)'
  BY <1>15 DEF Prepare, At, Doing, Lifecycle, Reason, Retired, Marked, Enqueued, Leave, Stop,
     Release, Idle, Goto, TypeOK, CardRow, Statuses, RunState, Pcs, Seen, ClaimInv, SudoInv,
     IssueInv, CardInv, Claimed, Active, LeasedPcs, Final
<1>16. ASSUME NEW r \in Runs, RetireReads(r)
      PROVE  SudoInv(q)'
  <2>1. /\ Claimed(r) /\ Active(r) /\ Kind[run[r].op] = "RETIRE" /\ op[run[r].op] # "none"
        /\ card' = card /\ sudo' = sudo /\ run'[r].op \in {run[r].op, AutoRetire}
        /\ run' = [run EXCEPT ![r] = run'[r]]
        /\ \/ run'[r] = Idle /\ op' = [op EXCEPT ![run[r].op] = "UNKNOWN"]
           \/ /\ run'[r].pc \in {"putting", "finish"} /\ run'[r].op = run[r].op
              /\ run'[r].pc = "putting" => sudo.status = "active"
              /\ op' = op /\ Retired /\ card.ext
    BY <1>16 DEF RetireReads, At, Doing, Retired, LeaveUncertain, Uncertain, Overwrites, SetOp,
       Release, Stop, Idle, Goto, See, ClaimInv, Claimed, Active, LeasedPcs, TypeOK, RunState
  <2>2. \A p \in Runs \ {r} : run'[p] = run[p]
    BY <2>1 DEF TypeOK
  <2>3. CASE q = r
    BY <2>1, <2>3 DEF SudoInv, TypeOK, RunState, Idle
  <2>4. CASE q # r
    BY <2>1, <2>2, <2>4 DEF SudoInv, TypeOK, RunState, Idle
  <2> QED BY <2>3, <2>4
<1>17. ASSUME NEW r \in Runs, Put(r)
      PROVE  SudoInv(q)'
  BY <1>17 DEF Put, At, Doing, Wanted, Goto, Reports, TypeOK, CardRow, Statuses, RunState, Pcs,
     Seen, ClaimInv, SudoInv, IssueInv, CardInv, Claimed, Active, LeasedPcs, Lifecycle, Retired,
     Final, Idle
<1>18. ASSUME NEW r \in Runs, PutRefused(r)
      PROVE  SudoInv(q)'
  BY <1>18 DEF PutRefused, At, Doing, LeaveUncertain, Uncertain, GivesUp, Overwrites, Lapsed,
     SetOp, Release, Stop, Idle, Leave, Fail, Pays, TypeOK, CardRow, Statuses, RunState, Pcs, Seen,
     ClaimInv, SudoInv, IssueInv, CardInv, Claimed, Active, LeasedPcs, Lifecycle, Retired, Final
<1>19. ASSUME NEW r \in Runs, Confirm(r)
      PROVE  SudoInv(q)'
  BY <1>19 DEF Confirm, At, LeaveUncertain, Uncertain, GivesUp, Overwrites, Lapsed, SetOp, Doing,
     Release, Stop, Idle, See, TypeOK, CardRow, Statuses, RunState, Pcs, Seen, ClaimInv, SudoInv,
     IssueInv, CardInv, Claimed, Active, LeasedPcs, Lifecycle, Retired, Final
<1>20. ASSUME NEW r \in Runs, FinishLifecycle(r)
      PROVE  SudoInv(q)'
  <2>1. LifecycleFinished(r, run[r].op) /\ run[r].op \in Ops
    BY <1>20, FinishLifecycleEffect DEF TypeOK, RunState
  <2>2. CASE LeftOpen(run[r].op) /\ Stays
    BY <2>1, <2>2 DEF LifecycleFinished, LeftOpen, Stays, TypeOK, CardRow, Statuses, RunState, Pcs,
       Seen, ClaimInv, SudoInv, IssueInv, CardInv, Claimed, Active, LeasedPcs, Lifecycle, Retired,
       Final, Idle
  <2>3. CASE op' = op /\ Stays
    BY <2>1, <2>3 DEF LifecycleFinished, Stays, TypeOK, CardRow, Statuses, RunState, Pcs, Seen,
       ClaimInv, SudoInv, IssueInv, CardInv, Claimed, Active, LeasedPcs, Lifecycle, Retired, Final,
       Idle
  <2>4. CASE Overdue(run[r].op)
    BY <2>1, <2>4 DEF LifecycleFinished, Overdue, Stays, TypeOK, CardRow, Statuses, RunState, Pcs,
       Seen, ClaimInv, SudoInv, IssueInv, CardInv, Claimed, Active, LeasedPcs, Lifecycle, Retired,
       Final, Idle
  <2>5. CASE ClosedByOwner(run[r].op)
    BY <2>1, <2>5 DEF LifecycleFinished, ClosedByOwner, Emptied, TypeOK, CardRow, Statuses,
       RunState, Pcs, Seen, ClaimInv, SudoInv, IssueInv, CardInv, Claimed, Active, LeasedPcs,
       Lifecycle, Retired, Final, Idle
  <2>6. CASE Switched(run[r].op)
    BY <2>1, <2>6 DEF LifecycleFinished, Switched, TypeOK, CardRow, Statuses, RunState, Pcs, Seen,
       ClaimInv, SudoInv, IssueInv, CardInv, Claimed, Active, LeasedPcs, Lifecycle, Retired, Final,
       Idle
  <2> QED BY <2>1, <2>2, <2>3, <2>4, <2>5, <2>6 DEF LifecycleFinished
<1>21. ASSUME NEW r \in Runs, FinishRetirement(r)
      PROVE  SudoInv(q)'
  <2>1. RetirementFinished(r, run[r].op) /\ run[r].op \in Ops
    BY <1>21, FinishRetirementEffect DEF TypeOK, RunState
  <2>2. CASE Reopened(run[r].op) /\ Stays
    BY <2>1, <2>2 DEF RetirementFinished, Reopened, Stays, TypeOK, CardRow, Statuses, RunState,
       Pcs, Seen, ClaimInv, SudoInv, IssueInv, CardInv, Claimed, Active, LeasedPcs, Lifecycle,
       Retired, Final, Idle
  <2>3. CASE WaitsForHolds(run[r].op)
    BY <2>1, <2>3 DEF RetirementFinished, WaitsForHolds, TypeOK, CardRow, Statuses, RunState, Pcs,
       Seen, ClaimInv, SudoInv, IssueInv, CardInv, Claimed, Active, LeasedPcs, Lifecycle, Retired,
       Final, Idle
  <2>4. CASE RetiredNow(run[r].op)
    BY <2>1, <2>4 DEF RetirementFinished, RetiredNow, Emptied, TypeOK, CardRow, Statuses, RunState,
       Pcs, Seen, ClaimInv, SudoInv, IssueInv, CardInv, Claimed, Active, LeasedPcs, Lifecycle,
       Retired, Final, Idle
  <2> QED BY <2>1, <2>2, <2>3, <2>4 DEF RetirementFinished
<1>22. ASSUME NEW r \in Runs, FetchCard(r)
      PROVE  SudoInv(q)'
  <2>1. /\ run[r].pc = "idle" /\ UNCHANGED <<op, sudo, card>>
        /\ \/ run' = run
           \/ /\ card.ext
              /\ run' = [run EXCEPT ![r] = [pc |-> "fetched", op |-> AutoRetire, seen |-> sudo.status]]
    BY <1>22 DEF FetchCard, At, Idle
  <2> QED BY <2>1 DEF TypeOK, CardRow, Statuses, RunState, Pcs, Seen, ClaimInv, SudoInv, IssueInv,
     CardInv, Claimed, Active, LeasedPcs, Lifecycle, Retired, Final, Idle
<1>23. ASSUME NEW r \in Runs, ApplyEvent(r)
      PROVE  SudoInv(q)'
  <2>1. EventApplied(r)
    BY <1>23, ApplyEventEffect
  <2>2. CASE op' = op /\ Stays
    BY <2>1, <2>2 DEF EventApplied, Stays, TypeOK, CardRow, Statuses, RunState, Pcs, Seen,
       ClaimInv, SudoInv, IssueInv, CardInv, Claimed, Active, LeasedPcs, Lifecycle, Retired, Final,
       Idle
  <2>3. CASE SentBack
    BY <2>1, <2>3 DEF EventApplied, SentBack, TypeOK, CardRow, Statuses, RunState, Pcs, Seen,
       ClaimInv, SudoInv, IssueInv, CardInv, Claimed, Active, LeasedPcs, Lifecycle, Retired, Final,
       Idle
  <2>4. CASE MarkedByIssuer
    BY <2>1, <2>4 DEF EventApplied, MarkedByIssuer, TypeOK, CardRow, Statuses, RunState, Pcs, Seen,
       ClaimInv, SudoInv, IssueInv, CardInv, Claimed, Active, LeasedPcs, Lifecycle, Retired, Final,
       Idle
  <2>5. CASE ClosedByIssuer
    BY <2>1, <2>5 DEF EventApplied, ClosedByIssuer, Emptied, TypeOK, CardRow, Statuses, RunState,
       Pcs, Seen, ClaimInv, SudoInv, IssueInv, CardInv, Claimed, Active, LeasedPcs, Lifecycle,
       Retired, Final, Idle
  <2>6. CASE Copied
    BY <2>1, <2>6 DEF EventApplied, Copied, TypeOK, CardRow, Statuses, RunState, Pcs, Seen,
       ClaimInv, SudoInv, IssueInv, CardInv, Claimed, Active, LeasedPcs, Lifecycle, Retired, Final,
       Idle
  <2> QED BY <2>1, <2>2, <2>3, <2>4, <2>5, <2>6 DEF EventApplied
<1>24. ASSUME NEW r \in Runs, CreateCard(r)
      PROVE  SudoInv(q)'
  BY <1>24 DEF CreateCard, At, Doing, TypeOK, CardRow, Statuses, RunState, Pcs, Seen, ClaimInv,
     SudoInv, IssueInv, CardInv, Claimed, Active, LeasedPcs, Lifecycle, Retired, Final, Idle
<1>25. ASSUME NEW r \in Runs, IssueRefused(r)
      PROVE  SudoInv(q)'
  BY <1>25 DEF IssueRefused, At, Doing, Fail, SetOp, Pays, Stop, Idle, TypeOK, CardRow, Statuses,
     RunState, Pcs, Seen, ClaimInv, SudoInv, IssueInv, CardInv, Claimed, Active, LeasedPcs,
     Lifecycle, Retired, Final
<1>26. ASSUME NEW r \in Runs, PutTimesOut(r)
      PROVE  SudoInv(q)'
  <2>1. /\ run' = [run EXCEPT ![r] = Idle] /\ Kind[run[r].op] # "ISSUE" /\ sudo'.status = sudo.status
    BY <1>26 DEF PutTimesOut, At, LeaveUncertain, Uncertain, GivesUp, Overwrites, Stop, ClaimInv,
       LeasedPcs, TypeOK
  <2>2. \A p \in Ops : op'[p] # op[p] => p = run[r].op
    BY <1>26 DEF PutTimesOut, LeaveUncertain, Uncertain, GivesUp, Overwrites, Lapsed, SetOp, TypeOK
  <2> QED BY <2>1, <2>2 DEF SudoInv, TypeOK, RunState, Idle
<1>27. ASSUME NEW r \in Runs, TimesOut(r)
      PROVE  SudoInv(q)'
  BY <1>27 DEF TimesOut, At, LeasedPcs, LeaveUncertain, Uncertain, GivesUp, Overwrites, Lapsed,
     SetOp, Doing, Stop, Idle, Release, TypeOK, CardRow, Statuses, RunState, Pcs, Seen, ClaimInv,
     SudoInv, IssueInv, CardInv, Claimed, Active, Lifecycle, Retired, Final
<1>28. ASSUME NEW r \in Runs, Crash(r)
      PROVE  SudoInv(q)'
  BY <1>28 DEF Crash, At, Stop, Idle, TypeOK, CardRow, Statuses, RunState, Pcs, Seen, ClaimInv,
     SudoInv, IssueInv, CardInv, Claimed, Active, LeasedPcs, Lifecycle, Retired, Final
<1>29. ASSUME NEW r \in Runs, Overruns(r)
      PROVE  SudoInv(q)'
  BY <1>29 DEF Overruns, Lapsed, LeasedPcs, TypeOK, CardRow, Statuses, RunState, Pcs, Seen,
     ClaimInv, SudoInv, IssueInv, CardInv, Claimed, Active, Lifecycle, Retired, Final, Idle
<1>30. ASSUME NEW r \in Runs, NEW o \in Ops, Claim(r, o)
      PROVE  SudoInv(q)'
  BY <1>30 DEF Claim, At, SetOp, Idle, TypeOK, CardRow, Statuses, RunState, Pcs, Seen, ClaimInv,
     SudoInv, IssueInv, CardInv, Claimed, Active, LeasedPcs, Lifecycle, Retired, Final
<1>31. ASSUME NEW r \in Runs, NEW o \in Ops, PickUncertain(r, o)
      PROVE  SudoInv(q)'
  <2>1. PICK pc \in {"reclaimed", "query", "lookup"} :
          /\ run' = [run EXCEPT ![r] = [Idle EXCEPT !.pc = pc, !.op = o]]
          /\ UNCHANGED <<card, lease>> /\ ~Active(r)
          /\ pc = "reclaimed" => Kind[o] = "RETIRE" /\ op' = [op EXCEPT ![o] = "PROCESSING"]
          /\ pc # "reclaimed" => Kind[o] # "RETIRE" /\ op' = op
          /\ pc = "lookup" => Kind[o] = "ISSUE"
          /\ op[o] \in {"UNKNOWN", "PENDING"}
          /\ pc = "query" /\ Kind[o] = "ISSUE" => o \in named
          /\ sudo' = sudo
    BY <1>31 DEF PickUncertain, At, Listed, SetOp, Active
  <2>2. run'[r] = [pc |-> pc, op |-> o, seen |-> "none"]
    BY <2>1 DEF Idle, TypeOK
  <2>3. \A p \in Runs \ {r} : run'[p] = run[p]
    BY <2>1 DEF TypeOK
  <2>4. CASE q = r
    BY <2>1, <2>2, <2>3, <2>4 DEF TypeOK, CardRow, Statuses, RunState, Pcs, Seen, ClaimInv,
       SudoInv, IssueInv, CardInv, Claimed, Active, LeasedPcs, Lifecycle, Retired, Final, Idle
  <2>5. CASE q # r
    BY <2>1, <2>2, <2>3, <2>5 DEF TypeOK, CardRow, Statuses, RunState, Pcs, Seen, ClaimInv,
       SudoInv, IssueInv, CardInv, Claimed, Active, LeasedPcs, Lifecycle, Retired, Final, Idle
  <2> QED BY <2>4, <2>5
<1> QED BY <1>1, <1>2, <1>3, <1>4, <1>5, <1>6, <1>7, <1>8, <1>9, <1>10, <1>11, <1>12, <1>13, <1>14,
   <1>15, <1>16, <1>17, <1>18, <1>19, <1>20, <1>21, <1>22, <1>23, <1>24, <1>25, <1>26, <1>27,
   <1>28, <1>29, <1>30, <1>31 DEF Next, RunStep

\* An operation that is being worked on stays with the run that claimed it.
LEMMA ExclusiveStep == IInv /\ Next /\ ~overran' => \A q \in Runs : Exclusive(q)'
<1> SUFFICES ASSUME IInv, Next, ~overran', NEW q \in Runs PROVE Exclusive(q)'
  OBVIOUS
<1> USE OpsAssumption, MoneyAssumption DEF IInv
<1> ~overran
  BY OverranStays
<1>1. CASE \/ Allocate \/ Purchase \/ Settle \/ RowFails \/ LatePut \/ LostPut \/
              IssuerCloses \/ DeadlinePasses \/ LeaseLapses
  <2>1. UNCHANGED <<run, op>>
    BY <1>1 DEF Allocate, Purchase, Settle, RowFails, LatePut, LostPut, IssuerCloses,
       DeadlinePasses, LeaseLapses
  <2> QED BY <2>1 DEF TypeOK, CardRow, Statuses, RunState, Pcs, Seen, ClaimInv, Exclusive, Claimed,
     Active, LeasedPcs, Lifecycle, Retired, Final, Idle
<1>2. ASSUME NEW o \in Ops, ExecuteIssue(o)
      PROVE  Exclusive(q)'
  BY <1>2 DEF ExecuteIssue, Pays, SetOp, TypeOK, CardRow, Statuses, RunState, Pcs, Seen, ClaimInv,
     Exclusive, Claimed, Active, LeasedPcs, Lifecycle, Retired, Final, Idle
<1>3. ASSUME NEW o \in Ops, ExecuteCommand(o)
      PROVE  Exclusive(q)'
  BY <1>3 DEF ExecuteCommand, SetOp, Marked, Pending, Reason, Retired, TypeOK, CardRow, Statuses,
     RunState, Pcs, Seen, ClaimInv, Exclusive, Claimed, Active, LeasedPcs, Lifecycle, Final, Idle
<1>4. ASSUME NEW o \in Ops, OperationLapses(o)
      PROVE  Exclusive(q)'
  BY <1>4 DEF OperationLapses, SetOp, TypeOK, CardRow, Statuses, RunState, Pcs, Seen, ClaimInv,
     Exclusive, Claimed, Active, LeasedPcs, Lifecycle, Retired, Final, Idle
<1>5. ASSUME EnsureDue
      PROVE  Exclusive(q)'
  BY <1>5 DEF EnsureDue, Marked, Enqueued, Reason, Retired, TypeOK, CardRow, Statuses, RunState,
     Pcs, Seen, ClaimInv, Exclusive, Claimed, Active, LeasedPcs, Lifecycle, Final, Idle
<1>6. ASSUME NEW r \in Runs, Discover(r)
      PROVE  Exclusive(q)'
  BY <1>6 DEF Discover, At, Goto, Stop, Idle, TypeOK, CardRow, Statuses, RunState, Pcs, Seen,
     ClaimInv, Exclusive, Claimed, Active, LeasedPcs, Lifecycle, Retired, Final
<1>7. ASSUME NEW r \in Runs, Query(r)
      PROVE  Exclusive(q)'
  BY <1>7 DEF Query, At, Doing, See, Stop, Idle, Wanted, TypeOK, CardRow, Statuses, RunState, Pcs,
     Seen, ClaimInv, Exclusive, Claimed, Active, LeasedPcs, Lifecycle, Retired, Final
<1>8. ASSUME NEW r \in Runs, StoreReference(r)
      PROVE  Exclusive(q)'
  BY <1>8 DEF StoreReference, At, Goto, TypeOK, CardRow, Statuses, RunState, Pcs, Seen, ClaimInv,
     Exclusive, Claimed, Active, LeasedPcs, Lifecycle, Retired, Final, Idle
<1>9. ASSUME NEW r \in Runs, StoreCard(r)
      PROVE  Exclusive(q)'
  BY <1>9 DEF StoreCard, At, Goto, TypeOK, CardRow, Statuses, RunState, Pcs, Seen, ClaimInv,
     Exclusive, Claimed, Active, LeasedPcs, Lifecycle, Retired, Final, Idle
<1>10. ASSUME NEW r \in Runs, FinishIssue(r)
      PROVE  Exclusive(q)'
  <2>1. IssueFinished(r, run[r].op) /\ run[r].op \in Ops
    BY <1>10, FinishIssueEffect DEF TypeOK, RunState
  <2>2. CASE LeftOpen(run[r].op) /\ Stays
    BY <2>1, <2>2 DEF IssueFinished, LeftOpen, Stays, TypeOK, CardRow, Statuses, RunState, Pcs,
       Seen, ClaimInv, Exclusive, Claimed, Active, LeasedPcs, Lifecycle, Retired, Final, Idle
  <2>3. CASE op' = op /\ Stays
    BY <2>1, <2>3 DEF IssueFinished, Stays, TypeOK, CardRow, Statuses, RunState, Pcs, Seen,
       ClaimInv, Exclusive, Claimed, Active, LeasedPcs, Lifecycle, Retired, Final, Idle
  <2>4. CASE IssueBooked(run[r].op)
    BY <2>1, <2>4 DEF IssueFinished, IssueBooked, TypeOK, CardRow, Statuses, RunState, Pcs, Seen,
       ClaimInv, Exclusive, Claimed, Active, LeasedPcs, Lifecycle, Retired, Final, Idle, IssueInv
  <2> QED BY <2>1, <2>2, <2>3, <2>4 DEF IssueFinished
<1>11. ASSUME NEW r \in Runs, TakeLease(r)
      PROVE  Exclusive(q)'
  BY <1>11 DEF TakeLease, At, Doing, Goto, GivesUp, Overwrites, Lapsed, SetOp, LeaseFree, Stop,
     Idle, TypeOK, CardRow, Statuses, RunState, Pcs, Seen, ClaimInv, Exclusive, Claimed, Active,
     LeasedPcs, Lifecycle, Retired, Final
<1>12. ASSUME NEW r \in Runs, Prepare(r)
      PROVE  Exclusive(q)'
  BY <1>12 DEF Prepare, At, Doing, Lifecycle, Reason, Retired, Marked, Enqueued, Leave, Stop,
     Release, Idle, Goto, TypeOK, CardRow, Statuses, RunState, Pcs, Seen, ClaimInv, Exclusive,
     Claimed, Active, LeasedPcs, Final
<1>13. ASSUME NEW r \in Runs, RetireReads(r)
      PROVE  Exclusive(q)'
  <2>1. /\ Claimed(r) /\ Active(r) /\ Kind[run[r].op] = "RETIRE" /\ op[run[r].op] # "none"
        /\ card' = card /\ sudo' = sudo /\ run'[r].op \in {run[r].op, AutoRetire}
        /\ run' = [run EXCEPT ![r] = run'[r]]
        /\ \/ run'[r] = Idle /\ op' = [op EXCEPT ![run[r].op] = "UNKNOWN"]
           \/ /\ run'[r].pc \in {"putting", "finish"} /\ run'[r].op = run[r].op
              /\ run'[r].pc = "putting" => sudo.status = "active"
              /\ op' = op /\ Retired /\ card.ext
    BY <1>13 DEF RetireReads, At, Doing, Retired, LeaveUncertain, Uncertain, Overwrites, SetOp,
       Release, Stop, Idle, Goto, See, ClaimInv, Claimed, Active, LeasedPcs, TypeOK, RunState
  <2>2. \A p \in Runs \ {r} : run'[p] = run[p]
    BY <2>1 DEF TypeOK
  <2>3. CASE q = r
    BY <2>1, <2>3 DEF TypeOK, CardRow, Statuses, RunState, Pcs, Seen, ClaimInv, Exclusive, Claimed,
       Active, LeasedPcs, Lifecycle, Retired, Final, Idle
  <2>4. CASE q # r
    BY <2>1, <2>2, <2>4 DEF TypeOK, CardRow, Statuses, RunState, Pcs, Seen, ClaimInv, Exclusive,
       Claimed, Active, LeasedPcs, Lifecycle, Retired, Final, Idle
  <2> QED BY <2>3, <2>4
<1>14. ASSUME NEW r \in Runs, Put(r)
      PROVE  Exclusive(q)'
  BY <1>14 DEF Put, At, Doing, Wanted, Goto, Reports, TypeOK, CardRow, Statuses, RunState, Pcs,
     Seen, ClaimInv, Exclusive, Claimed, Active, LeasedPcs, Lifecycle, Retired, Final, Idle
<1>15. ASSUME NEW r \in Runs, PutRefused(r)
      PROVE  Exclusive(q)'
  BY <1>15 DEF PutRefused, At, Doing, LeaveUncertain, Uncertain, GivesUp, Overwrites, Lapsed,
     SetOp, Release, Stop, Idle, Leave, Fail, Pays, TypeOK, CardRow, Statuses, RunState, Pcs, Seen,
     ClaimInv, Exclusive, Claimed, Active, LeasedPcs, Lifecycle, Retired, Final
<1>16. ASSUME NEW r \in Runs, Confirm(r)
      PROVE  Exclusive(q)'
  BY <1>16 DEF Confirm, At, LeaveUncertain, Uncertain, GivesUp, Overwrites, Lapsed, SetOp, Doing,
     Release, Stop, Idle, See, TypeOK, CardRow, Statuses, RunState, Pcs, Seen, ClaimInv, Exclusive,
     Claimed, Active, LeasedPcs, Lifecycle, Retired, Final
<1>17. ASSUME NEW r \in Runs, FinishLifecycle(r)
      PROVE  Exclusive(q)'
  <2>1. LifecycleFinished(r, run[r].op) /\ run[r].op \in Ops
    BY <1>17, FinishLifecycleEffect DEF TypeOK, RunState
  <2>2. CASE LeftOpen(run[r].op) /\ Stays
    BY <2>1, <2>2 DEF LifecycleFinished, LeftOpen, Stays, TypeOK, CardRow, Statuses, RunState, Pcs,
       Seen, ClaimInv, Exclusive, Claimed, Active, LeasedPcs, Lifecycle, Retired, Final, Idle
  <2>3. CASE op' = op /\ Stays
    BY <2>1, <2>3 DEF LifecycleFinished, Stays, TypeOK, CardRow, Statuses, RunState, Pcs, Seen,
       ClaimInv, Exclusive, Claimed, Active, LeasedPcs, Lifecycle, Retired, Final, Idle
  <2>4. CASE Overdue(run[r].op)
    BY <2>1, <2>4 DEF LifecycleFinished, Overdue, Stays, TypeOK, CardRow, Statuses, RunState, Pcs,
       Seen, ClaimInv, Exclusive, Claimed, Active, LeasedPcs, Lifecycle, Retired, Final, Idle
  <2>5. CASE ClosedByOwner(run[r].op)
    BY <2>1, <2>5 DEF LifecycleFinished, ClosedByOwner, Emptied, TypeOK, CardRow, Statuses,
       RunState, Pcs, Seen, ClaimInv, Exclusive, Claimed, Active, LeasedPcs, Lifecycle, Retired,
       Final, Idle
  <2>6. CASE Switched(run[r].op)
    BY <2>1, <2>6 DEF LifecycleFinished, Switched, TypeOK, CardRow, Statuses, RunState, Pcs, Seen,
       ClaimInv, Exclusive, Claimed, Active, LeasedPcs, Lifecycle, Retired, Final, Idle
  <2> QED BY <2>1, <2>2, <2>3, <2>4, <2>5, <2>6 DEF LifecycleFinished
<1>18. ASSUME NEW r \in Runs, FinishRetirement(r)
      PROVE  Exclusive(q)'
  <2>1. RetirementFinished(r, run[r].op) /\ run[r].op \in Ops
    BY <1>18, FinishRetirementEffect DEF TypeOK, RunState
  <2>2. CASE Reopened(run[r].op) /\ Stays
    BY <2>1, <2>2 DEF RetirementFinished, Reopened, Stays, TypeOK, CardRow, Statuses, RunState,
       Pcs, Seen, ClaimInv, Exclusive, Claimed, Active, LeasedPcs, Lifecycle, Retired, Final, Idle
  <2>3. CASE WaitsForHolds(run[r].op)
    BY <2>1, <2>3 DEF RetirementFinished, WaitsForHolds, TypeOK, CardRow, Statuses, RunState, Pcs,
       Seen, ClaimInv, Exclusive, Claimed, Active, LeasedPcs, Lifecycle, Retired, Final, Idle
  <2>4. CASE RetiredNow(run[r].op)
    BY <2>1, <2>4 DEF RetirementFinished, RetiredNow, Emptied, TypeOK, CardRow, Statuses, RunState,
       Pcs, Seen, ClaimInv, Exclusive, Claimed, Active, LeasedPcs, Lifecycle, Retired, Final, Idle
  <2> QED BY <2>1, <2>2, <2>3, <2>4 DEF RetirementFinished
<1>19. ASSUME NEW r \in Runs, FetchCard(r)
      PROVE  Exclusive(q)'
  <2>1. /\ run[r].pc = "idle" /\ UNCHANGED <<op, card>>
        /\ \/ run' = run
           \/ /\ card.ext
              /\ run' = [run EXCEPT ![r] = [pc |-> "fetched", op |-> AutoRetire, seen |-> sudo.status]]
    BY <1>19 DEF FetchCard, At, Idle
  <2> QED BY <2>1 DEF TypeOK, CardRow, Statuses, RunState, Pcs, Seen, ClaimInv, Exclusive, Claimed,
     Active, LeasedPcs, Lifecycle, Retired, Final, Idle
<1>20. ASSUME NEW r \in Runs, ApplyEvent(r)
      PROVE  Exclusive(q)'
  <2>1. EventApplied(r)
    BY <1>20, ApplyEventEffect
  <2>2. CASE op' = op /\ Stays
    BY <2>1, <2>2 DEF EventApplied, Stays, TypeOK, CardRow, Statuses, RunState, Pcs, Seen,
       ClaimInv, Exclusive, Claimed, Active, LeasedPcs, Lifecycle, Retired, Final, Idle
  <2>3. CASE SentBack
    BY <2>1, <2>3 DEF EventApplied, SentBack, TypeOK, CardRow, Statuses, RunState, Pcs, Seen,
       ClaimInv, Exclusive, Claimed, Active, LeasedPcs, Lifecycle, Retired, Final, Idle
  <2>4. CASE MarkedByIssuer
    BY <2>1, <2>4 DEF EventApplied, MarkedByIssuer, TypeOK, CardRow, Statuses, RunState, Pcs, Seen,
       ClaimInv, Exclusive, Claimed, Active, LeasedPcs, Lifecycle, Retired, Final, Idle
  <2>5. CASE ClosedByIssuer
    BY <2>1, <2>5 DEF EventApplied, ClosedByIssuer, Emptied, TypeOK, CardRow, Statuses, RunState,
       Pcs, Seen, ClaimInv, Exclusive, Claimed, Active, LeasedPcs, Lifecycle, Retired, Final, Idle
  <2>6. CASE Copied
    BY <2>1, <2>6 DEF EventApplied, Copied, TypeOK, CardRow, Statuses, RunState, Pcs, Seen,
       ClaimInv, Exclusive, Claimed, Active, LeasedPcs, Lifecycle, Retired, Final, Idle
  <2> QED BY <2>1, <2>2, <2>3, <2>4, <2>5, <2>6 DEF EventApplied
<1>21. ASSUME NEW r \in Runs, CreateCard(r)
      PROVE  Exclusive(q)'
  BY <1>21 DEF CreateCard, At, Doing, TypeOK, CardRow, Statuses, RunState, Pcs, Seen, ClaimInv,
     Exclusive, Claimed, Active, LeasedPcs, Lifecycle, Retired, Final, Idle
<1>22. ASSUME NEW r \in Runs, IssueRefused(r)
      PROVE  Exclusive(q)'
  BY <1>22 DEF IssueRefused, At, Doing, Fail, SetOp, Pays, Stop, Idle, TypeOK, CardRow, Statuses,
     RunState, Pcs, Seen, ClaimInv, Exclusive, Claimed, Active, LeasedPcs, Lifecycle, Retired,
     Final
<1>23. ASSUME NEW r \in Runs, PutTimesOut(r)
      PROVE  Exclusive(q)'
  BY <1>23 DEF PutTimesOut, At, Wanted, Doing, LeaveUncertain, Uncertain, GivesUp, Overwrites,
     Lapsed, SetOp, Stop, Idle, Release, TypeOK, CardRow, Statuses, RunState, Pcs, Seen, ClaimInv,
     Exclusive, Claimed, Active, LeasedPcs, Lifecycle, Retired, Final
<1>24. ASSUME NEW r \in Runs, TimesOut(r)
      PROVE  Exclusive(q)'
  BY <1>24 DEF TimesOut, At, LeasedPcs, LeaveUncertain, Uncertain, GivesUp, Overwrites, Lapsed,
     SetOp, Doing, Stop, Idle, Release, TypeOK, CardRow, Statuses, RunState, Pcs, Seen, ClaimInv,
     Exclusive, Claimed, Active, Lifecycle, Retired, Final
<1>25. ASSUME NEW r \in Runs, Crash(r)
      PROVE  Exclusive(q)'
  BY <1>25 DEF Crash, At, Stop, Idle, TypeOK, CardRow, Statuses, RunState, Pcs, Seen, ClaimInv,
     Exclusive, Claimed, Active, LeasedPcs, Lifecycle, Retired, Final
<1>26. ASSUME NEW r \in Runs, Overruns(r)
      PROVE  Exclusive(q)'
  BY <1>26 DEF Overruns, Lapsed, LeasedPcs, TypeOK, CardRow, Statuses, RunState, Pcs, Seen,
     ClaimInv, Exclusive, Claimed, Active, Lifecycle, Retired, Final, Idle
<1>27. ASSUME NEW r \in Runs, NEW o \in Ops, Claim(r, o)
      PROVE  Exclusive(q)'
  BY <1>27 DEF Claim, At, SetOp, Idle, TypeOK, CardRow, Statuses, RunState, Pcs, Seen, ClaimInv,
     Exclusive, Claimed, Active, LeasedPcs, Lifecycle, Retired, Final, IssueInv
<1>28. ASSUME NEW r \in Runs, NEW o \in Ops, PickUncertain(r, o)
      PROVE  Exclusive(q)'
  <2>1. PICK pc \in {"reclaimed", "query", "lookup"} :
          /\ run' = [run EXCEPT ![r] = [Idle EXCEPT !.pc = pc, !.op = o]]
          /\ UNCHANGED <<card, lease>> /\ ~Active(r)
          /\ pc = "reclaimed" => Kind[o] = "RETIRE" /\ op' = [op EXCEPT ![o] = "PROCESSING"]
          /\ pc # "reclaimed" => Kind[o] # "RETIRE" /\ op' = op
          /\ pc = "lookup" => Kind[o] = "ISSUE"
          /\ op[o] \in {"UNKNOWN", "PENDING"}
          /\ pc = "query" /\ Kind[o] = "ISSUE" => o \in named
          /\ sudo' = sudo
    BY <1>28 DEF PickUncertain, At, Listed, SetOp, Active
  <2>2. run'[r] = [pc |-> pc, op |-> o, seen |-> "none"]
    BY <2>1 DEF Idle, TypeOK
  <2>3. \A p \in Runs \ {r} : run'[p] = run[p]
    BY <2>1 DEF TypeOK
  <2>4. CASE q = r
    BY <2>1, <2>2, <2>3, <2>4 DEF TypeOK, CardRow, Statuses, RunState, Pcs, Seen, ClaimInv,
       Exclusive, Claimed, Active, LeasedPcs, Lifecycle, Retired, Final, Idle
  <2>5. CASE q # r
    BY <2>1, <2>2, <2>3, <2>5 DEF TypeOK, CardRow, Statuses, RunState, Pcs, Seen, ClaimInv,
       Exclusive, Claimed, Active, LeasedPcs, Lifecycle, Retired, Final, Idle
  <2> QED BY <2>4, <2>5
<1> QED BY <1>1, <1>2, <1>3, <1>4, <1>5, <1>6, <1>7, <1>8, <1>9, <1>10, <1>11, <1>12, <1>13, <1>14,
   <1>15, <1>16, <1>17, <1>18, <1>19, <1>20, <1>21, <1>22, <1>23, <1>24, <1>25, <1>26, <1>27, <1>28
   DEF Next, RunStep

\* What is superseded was overtaken by the retirement, which is never given up.
LEMMA OutcomeStep == IInv /\ Next => \A s \in Ops : OutcomeInv(s)'
<1> SUFFICES ASSUME IInv, Next, NEW s \in Ops PROVE OutcomeInv(s)'
  OBVIOUS
<1> USE OpsAssumption, MoneyAssumption DEF IInv
<1>1. CASE \/ Allocate \/ Purchase \/ Settle \/ RowFails \/ LatePut \/ LostPut \/
              IssuerCloses \/ LeaseLapses
           \/ \E r \in Runs : Discover(r) \/ Query(r) \/ StoreReference(r) \/ Put(r) \/
              FetchCard(r) \/ CreateCard(r) \/ Crash(r)
  <2>1. UNCHANGED <<op, card, due>>
    BY <1>1 DEF Allocate, Purchase, Settle, RowFails, LatePut, LostPut, IssuerCloses, LeaseLapses,
       Discover, Query, StoreReference, Put, FetchCard, CreateCard, Crash
  <2> QED BY <2>1 DEF TypeOK, Statuses, CardRow, Final, RunState, Claimed, Active, LeasedPcs,
     ClaimInv, SudoInv, OutcomeInv, IssueInv, CardInv, Lifecycle, Reason, Retired
<1>2. ASSUME NEW o \in Ops, ExecuteIssue(o)
      PROVE  OutcomeInv(s)'
  BY <1>2 DEF ExecuteIssue, Pays, SetOp, TypeOK, Statuses, CardRow, Final, RunState, Claimed,
     Active, LeasedPcs, ClaimInv, SudoInv, OutcomeInv, IssueInv, CardInv, Lifecycle, Reason,
     Retired
<1>3. ASSUME NEW o \in Ops, ExecuteCommand(o)
      PROVE  OutcomeInv(s)'
  BY <1>3 DEF ExecuteCommand, SetOp, Marked, Pending, Reason, Retired, TypeOK, Statuses, CardRow,
     Final, RunState, Claimed, Active, LeasedPcs, ClaimInv, SudoInv, OutcomeInv, IssueInv, CardInv,
     Lifecycle
<1>4. ASSUME NEW o \in Ops, OperationLapses(o)
      PROVE  OutcomeInv(s)'
  BY <1>4 DEF OperationLapses, SetOp, TypeOK, Statuses, CardRow, Final, RunState, Claimed, Active,
     LeasedPcs, ClaimInv, SudoInv, OutcomeInv, IssueInv, CardInv, Lifecycle, Reason, Retired
<1>5. ASSUME EnsureDue
      PROVE  OutcomeInv(s)'
  BY <1>5 DEF EnsureDue, Marked, Enqueued, Reason, Retired, TypeOK, Statuses, CardRow, Final,
     RunState, Claimed, Active, LeasedPcs, ClaimInv, SudoInv, OutcomeInv, IssueInv, CardInv,
     Lifecycle
<1>6. ASSUME DeadlinePasses
      PROVE  OutcomeInv(s)'
  BY <1>6 DEF DeadlinePasses, TypeOK, Statuses, CardRow, Final, RunState, Claimed, Active,
     LeasedPcs, ClaimInv, SudoInv, OutcomeInv, IssueInv, CardInv, Lifecycle, Reason, Retired
<1>7. ASSUME NEW r \in Runs, StoreCard(r)
      PROVE  OutcomeInv(s)'
  BY <1>7 DEF StoreCard, At, Goto, TypeOK, Statuses, CardRow, Final, RunState, Claimed, Active,
     LeasedPcs, ClaimInv, SudoInv, OutcomeInv, IssueInv, CardInv, Lifecycle, Reason, Retired
<1>8. ASSUME NEW r \in Runs, FinishIssue(r)
      PROVE  OutcomeInv(s)'
  <2>1. IssueFinished(r, run[r].op) /\ run[r].op \in Ops
    BY <1>8, FinishIssueEffect DEF TypeOK, RunState
  <2>2. CASE LeftOpen(run[r].op) /\ Stays
    BY <2>1, <2>2 DEF IssueFinished, LeftOpen, Stays, TypeOK, Statuses, CardRow, Final, RunState,
       Claimed, Active, LeasedPcs, ClaimInv, SudoInv, OutcomeInv, IssueInv, CardInv, Lifecycle,
       Reason, Retired, Idle
  <2>3. CASE op' = op /\ Stays
    BY <2>1, <2>3 DEF IssueFinished, Stays, TypeOK, Statuses, CardRow, Final, RunState, Claimed,
       Active, LeasedPcs, ClaimInv, SudoInv, OutcomeInv, IssueInv, CardInv, Lifecycle, Reason,
       Retired, Idle
  <2>4. CASE IssueBooked(run[r].op)
    BY <2>1, <2>4 DEF IssueFinished, IssueBooked, TypeOK, Statuses, CardRow, Final, RunState,
       Claimed, Active, LeasedPcs, ClaimInv, SudoInv, OutcomeInv, IssueInv, CardInv, Lifecycle,
       Reason, Retired, Idle
  <2> QED BY <2>1, <2>2, <2>3, <2>4 DEF IssueFinished
<1>9. ASSUME NEW r \in Runs, TakeLease(r)
      PROVE  OutcomeInv(s)'
  BY <1>9 DEF TakeLease, At, Doing, Goto, GivesUp, Overwrites, Lapsed, SetOp, LeaseFree, Stop,
     Idle, TypeOK, Statuses, CardRow, Final, RunState, Claimed, Active, LeasedPcs, ClaimInv,
     SudoInv, OutcomeInv, IssueInv, CardInv, Lifecycle, Reason, Retired
<1>10. ASSUME NEW r \in Runs, Prepare(r)
      PROVE  OutcomeInv(s)'
  BY <1>10 DEF Prepare, At, Doing, Lifecycle, Reason, Retired, Marked, Enqueued, Leave, Stop,
     Release, Idle, Goto, TypeOK, Statuses, CardRow, Final, RunState, Claimed, Active, LeasedPcs,
     ClaimInv, SudoInv, OutcomeInv, IssueInv, CardInv
<1>11. ASSUME NEW r \in Runs, RetireReads(r)
      PROVE  OutcomeInv(s)'
  BY <1>11 DEF RetireReads, At, Doing, Retired, LeaveUncertain, Uncertain, GivesUp, Overwrites,
     Lapsed, SetOp, Release, Stop, Idle, Goto, See, TypeOK, Statuses, CardRow, Final, RunState,
     Claimed, Active, LeasedPcs, ClaimInv, SudoInv, OutcomeInv, IssueInv, CardInv, Lifecycle,
     Reason
<1>12. ASSUME NEW r \in Runs, PutRefused(r)
      PROVE  OutcomeInv(s)'
  BY <1>12 DEF PutRefused, At, Doing, LeaveUncertain, Uncertain, GivesUp, Overwrites, Lapsed,
     SetOp, Release, Stop, Idle, Leave, Fail, Pays, TypeOK, Statuses, CardRow, Final, RunState,
     Claimed, Active, LeasedPcs, ClaimInv, SudoInv, OutcomeInv, IssueInv, CardInv, Lifecycle,
     Reason, Retired
<1>13. ASSUME NEW r \in Runs, Confirm(r)
      PROVE  OutcomeInv(s)'
  BY <1>13 DEF Confirm, At, LeaveUncertain, Uncertain, GivesUp, Overwrites, Lapsed, SetOp, Doing,
     Release, Stop, Idle, See, TypeOK, Statuses, CardRow, Final, RunState, Claimed, Active,
     LeasedPcs, ClaimInv, SudoInv, OutcomeInv, IssueInv, CardInv, Lifecycle, Reason, Retired
<1>14. ASSUME NEW r \in Runs, FinishLifecycle(r)
      PROVE  OutcomeInv(s)'
  <2>1. LifecycleFinished(r, run[r].op) /\ run[r].op \in Ops
    BY <1>14, FinishLifecycleEffect DEF TypeOK, RunState
  <2>2. CASE LeftOpen(run[r].op) /\ Stays
    BY <2>1, <2>2 DEF LifecycleFinished, LeftOpen, Stays, TypeOK, Statuses, CardRow, Final,
       RunState, Claimed, Active, LeasedPcs, ClaimInv, SudoInv, OutcomeInv, IssueInv, CardInv,
       Lifecycle, Reason, Retired, Idle
  <2>3. CASE op' = op /\ Stays
    BY <2>1, <2>3 DEF LifecycleFinished, Stays, TypeOK, Statuses, CardRow, Final, RunState,
       Claimed, Active, LeasedPcs, ClaimInv, SudoInv, OutcomeInv, IssueInv, CardInv, Lifecycle,
       Reason, Retired, Idle
  <2>4. CASE Overdue(run[r].op)
    BY <2>1, <2>4 DEF LifecycleFinished, Overdue, Stays, TypeOK, Statuses, CardRow, Final,
       RunState, Claimed, Active, LeasedPcs, ClaimInv, SudoInv, OutcomeInv, IssueInv, CardInv,
       Lifecycle, Reason, Retired, Idle
  <2>5. CASE ClosedByOwner(run[r].op)
    BY <2>1, <2>5 DEF LifecycleFinished, ClosedByOwner, Emptied, TypeOK, Statuses, CardRow, Final,
       RunState, Claimed, Active, LeasedPcs, ClaimInv, SudoInv, OutcomeInv, IssueInv, CardInv,
       Lifecycle, Reason, Retired, Idle
  <2>6. CASE Switched(run[r].op)
    BY <2>1, <2>6 DEF LifecycleFinished, Switched, TypeOK, Statuses, CardRow, Final, RunState,
       Claimed, Active, LeasedPcs, ClaimInv, SudoInv, OutcomeInv, IssueInv, CardInv, Lifecycle,
       Reason, Retired, Idle
  <2> QED BY <2>1, <2>2, <2>3, <2>4, <2>5, <2>6 DEF LifecycleFinished
<1>15. ASSUME NEW r \in Runs, FinishRetirement(r)
      PROVE  OutcomeInv(s)'
  <2>1. RetirementFinished(r, run[r].op) /\ run[r].op \in Ops
    BY <1>15, FinishRetirementEffect DEF TypeOK, RunState
  <2>2. CASE Reopened(run[r].op) /\ Stays
    BY <2>1, <2>2 DEF RetirementFinished, Reopened, Stays, TypeOK, Statuses, CardRow, Final,
       RunState, Claimed, Active, LeasedPcs, ClaimInv, SudoInv, OutcomeInv, IssueInv, CardInv,
       Lifecycle, Reason, Retired, Idle
  <2>3. CASE WaitsForHolds(run[r].op)
    BY <2>1, <2>3 DEF RetirementFinished, WaitsForHolds, TypeOK, Statuses, CardRow, Final,
       RunState, Claimed, Active, LeasedPcs, ClaimInv, SudoInv, OutcomeInv, IssueInv, CardInv,
       Lifecycle, Reason, Retired, Idle
  <2>4. CASE RetiredNow(run[r].op)
    BY <2>1, <2>4 DEF RetirementFinished, RetiredNow, Emptied, TypeOK, Statuses, CardRow, Final,
       RunState, Claimed, Active, LeasedPcs, ClaimInv, SudoInv, OutcomeInv, IssueInv, CardInv,
       Lifecycle, Reason, Retired, Idle
  <2> QED BY <2>1, <2>2, <2>3, <2>4 DEF RetirementFinished
<1>16. ASSUME NEW r \in Runs, ApplyEvent(r)
      PROVE  OutcomeInv(s)'
  <2>1. EventApplied(r)
    BY <1>16, ApplyEventEffect
  <2>2. CASE op' = op /\ Stays
    BY <2>1, <2>2 DEF EventApplied, Stays, TypeOK, Statuses, CardRow, Final, RunState, Claimed,
       Active, LeasedPcs, ClaimInv, SudoInv, OutcomeInv, IssueInv, CardInv, Lifecycle, Reason,
       Retired, Idle
  <2>3. CASE SentBack
    BY <2>1, <2>3 DEF EventApplied, SentBack, TypeOK, Statuses, CardRow, Final, RunState, Claimed,
       Active, LeasedPcs, ClaimInv, SudoInv, OutcomeInv, IssueInv, CardInv, Lifecycle, Reason,
       Retired, Idle
  <2>4. CASE MarkedByIssuer
    BY <2>1, <2>4 DEF EventApplied, MarkedByIssuer, TypeOK, Statuses, CardRow, Final, RunState,
       Claimed, Active, LeasedPcs, ClaimInv, SudoInv, OutcomeInv, IssueInv, CardInv, Lifecycle,
       Reason, Retired, Idle
  <2>5. CASE ClosedByIssuer
    BY <2>1, <2>5 DEF EventApplied, ClosedByIssuer, Emptied, TypeOK, Statuses, CardRow, Final,
       RunState, Claimed, Active, LeasedPcs, ClaimInv, SudoInv, OutcomeInv, IssueInv, CardInv,
       Lifecycle, Reason, Retired, Idle
  <2>6. CASE Copied
    BY <2>1, <2>6 DEF EventApplied, Copied, TypeOK, Statuses, CardRow, Final, RunState, Claimed,
       Active, LeasedPcs, ClaimInv, SudoInv, OutcomeInv, IssueInv, CardInv, Lifecycle, Reason,
       Retired, Idle
  <2> QED BY <2>1, <2>2, <2>3, <2>4, <2>5, <2>6 DEF EventApplied
<1>17. ASSUME NEW r \in Runs, IssueRefused(r)
      PROVE  OutcomeInv(s)'
  BY <1>17 DEF IssueRefused, At, Doing, Fail, SetOp, Pays, Stop, Idle, TypeOK, Statuses, CardRow,
     Final, RunState, Claimed, Active, LeasedPcs, ClaimInv, SudoInv, OutcomeInv, IssueInv, CardInv,
     Lifecycle, Reason, Retired
<1>18. ASSUME NEW r \in Runs, PutTimesOut(r)
      PROVE  OutcomeInv(s)'
  BY <1>18 DEF PutTimesOut, At, Wanted, Doing, LeaveUncertain, Uncertain, GivesUp, Overwrites,
     Lapsed, SetOp, Stop, Idle, Release, TypeOK, Statuses, CardRow, Final, RunState, Claimed,
     Active, LeasedPcs, ClaimInv, SudoInv, OutcomeInv, IssueInv, CardInv, Lifecycle, Reason,
     Retired
<1>19. ASSUME NEW r \in Runs, TimesOut(r)
      PROVE  OutcomeInv(s)'
  BY <1>19 DEF TimesOut, At, LeasedPcs, LeaveUncertain, Uncertain, GivesUp, Overwrites, Lapsed,
     SetOp, Doing, Stop, Idle, Release, TypeOK, Statuses, CardRow, Final, RunState, Claimed,
     Active, ClaimInv, SudoInv, OutcomeInv, IssueInv, CardInv, Lifecycle, Reason, Retired
<1>20. ASSUME NEW r \in Runs, Overruns(r)
      PROVE  OutcomeInv(s)'
  BY <1>20 DEF Overruns, Lapsed, LeasedPcs, TypeOK, Statuses, CardRow, Final, RunState, Claimed,
     Active, ClaimInv, SudoInv, OutcomeInv, IssueInv, CardInv, Lifecycle, Reason, Retired
<1>21. ASSUME NEW r \in Runs, NEW o \in Ops, Claim(r, o)
      PROVE  OutcomeInv(s)'
  BY <1>21 DEF Claim, At, SetOp, Idle, TypeOK, Statuses, CardRow, Final, RunState, Claimed, Active,
     LeasedPcs, ClaimInv, SudoInv, OutcomeInv, IssueInv, CardInv, Lifecycle, Reason, Retired
<1>22. ASSUME NEW r \in Runs, NEW o \in Ops, PickUncertain(r, o)
      PROVE  OutcomeInv(s)'
  BY <1>22 DEF PickUncertain, At, Listed, SetOp, Idle, TypeOK, Statuses, CardRow, Final, RunState,
     Claimed, Active, LeasedPcs, ClaimInv, SudoInv, OutcomeInv, IssueInv, CardInv, Lifecycle,
     Reason, Retired
<1> QED BY <1>1, <1>2, <1>3, <1>4, <1>5, <1>6, <1>7, <1>8, <1>9, <1>10, <1>11, <1>12, <1>13, <1>14,
   <1>15, <1>16, <1>17, <1>18, <1>19, <1>20, <1>21, <1>22 DEF Next, RunStep

\* The card is issued once, and its reservation is spent or given back once.
LEMMA IssueStep == IInv /\ Next => \A s \in Ops : IssueInv(s)'
<1> SUFFICES ASSUME IInv, Next, NEW s \in Ops PROVE IssueInv(s)'
  OBVIOUS
<1> USE OpsAssumption, MoneyAssumption DEF IInv
<1>1. CASE \/ RowFails \/ DeadlinePasses \/ LeaseLapses
           \/ \E r \in Runs : Discover(r) \/ Query(r) \/ StoreReference(r) \/ FetchCard(r)
              \/ Crash(r)
  <2>1. UNCHANGED <<op, card, journals, money, sudo>>
    BY <1>1 DEF RowFails, DeadlinePasses, LeaseLapses, Discover, Query, StoreReference, FetchCard,
       Crash
  <2> QED BY <2>1 DEF TypeOK, Statuses, Accounts, CardRow, RunState, Claimed, Active, LeasedPcs,
     ClaimInv, SudoInv, OutcomeInv, IssueInv, CardInv, Lifecycle, Reason, Retired
<1>2. ASSUME NEW o \in Ops, ExecuteIssue(o)
      PROVE  IssueInv(s)'
  <2>1. /\ Kind[o] = "ISSUE" /\ op[o] = "none" /\ card.status = "none"
        /\ \A p \in Ops : op[p] = "none"
        /\ op' = [op EXCEPT ![o] = "QUEUED"] /\ card'.status = "PAUSED"
        /\ journals' = journals /\ money'.reserve = money.reserve + Allocation + Fee
    BY <1>2 DEF ExecuteIssue, Pays, SetOp, IssueInv, TypeOK, CardRow, Accounts
  <2>2. money.reserve = 0 /\ "issue" \notin journals /\ sudo.status = "none" /\ sudo' = sudo
    BY <1>2, <2>1 DEF CardInv, ExecuteIssue
  <2> QED BY <2>1, <2>2 DEF IssueInv, TypeOK, Lifecycle
<1>3. ASSUME NEW o \in Ops, ExecuteCommand(o)
      PROVE  IssueInv(s)'
  BY <1>3 DEF ExecuteCommand, SetOp, Marked, Pending, Reason, Retired, TypeOK, Statuses, Accounts,
     CardRow, RunState, Claimed, Active, LeasedPcs, ClaimInv, SudoInv, OutcomeInv, IssueInv,
     CardInv, Lifecycle
<1>4. ASSUME NEW o \in Ops, OperationLapses(o)
      PROVE  IssueInv(s)'
  BY <1>4 DEF OperationLapses, SetOp, TypeOK, Statuses, Accounts, CardRow, RunState, Claimed,
     Active, LeasedPcs, ClaimInv, SudoInv, OutcomeInv, IssueInv, CardInv, Lifecycle, Reason,
     Retired
<1>5. ASSUME Allocate
      PROVE  IssueInv(s)'
  BY <1>5 DEF Allocate, Pays, TypeOK, Statuses, Accounts, CardRow, RunState, Claimed, Active,
     LeasedPcs, ClaimInv, SudoInv, OutcomeInv, IssueInv, CardInv, Lifecycle, Reason, Retired
<1>6. ASSUME EnsureDue
      PROVE  IssueInv(s)'
  BY <1>6 DEF EnsureDue, Marked, Enqueued, Reason, Retired, TypeOK, Statuses, Accounts, CardRow,
     RunState, Claimed, Active, LeasedPcs, ClaimInv, SudoInv, OutcomeInv, IssueInv, CardInv,
     Lifecycle
<1>7. ASSUME Purchase
      PROVE  IssueInv(s)'
  BY <1>7 DEF Purchase, Pays, Reason, Retired, TypeOK, Statuses, Accounts, CardRow, RunState,
     Claimed, Active, LeasedPcs, ClaimInv, SudoInv, OutcomeInv, IssueInv, CardInv, Lifecycle
<1>8. ASSUME Settle
      PROVE  IssueInv(s)'
  BY <1>8 DEF Settle, Pays, TypeOK, Statuses, Accounts, CardRow, RunState, Claimed, Active,
     LeasedPcs, ClaimInv, SudoInv, OutcomeInv, IssueInv, CardInv, Lifecycle, Reason, Retired
<1>9. ASSUME LatePut
      PROVE  IssueInv(s)'
  BY <1>9 DEF LatePut, Reports, TypeOK, Statuses, Accounts, CardRow, RunState, Claimed, Active,
     LeasedPcs, ClaimInv, SudoInv, OutcomeInv, IssueInv, CardInv, Lifecycle, Reason, Retired
<1>10. ASSUME LostPut
      PROVE  IssueInv(s)'
  BY <1>10 DEF LostPut, TypeOK, Statuses, Accounts, CardRow, RunState, Claimed, Active, LeasedPcs,
     ClaimInv, SudoInv, OutcomeInv, IssueInv, CardInv, Lifecycle, Reason, Retired
<1>11. ASSUME IssuerCloses
      PROVE  IssueInv(s)'
  BY <1>11 DEF IssuerCloses, Reports, TypeOK, Statuses, Accounts, CardRow, RunState, Claimed,
     Active, LeasedPcs, ClaimInv, SudoInv, OutcomeInv, IssueInv, CardInv, Lifecycle, Reason,
     Retired
<1>12. ASSUME NEW r \in Runs, StoreCard(r)
      PROVE  IssueInv(s)'
  BY <1>12 DEF StoreCard, At, Goto, TypeOK, Statuses, Accounts, CardRow, RunState, Claimed, Active,
     LeasedPcs, ClaimInv, SudoInv, OutcomeInv, IssueInv, CardInv, Lifecycle, Reason, Retired
<1>13. ASSUME NEW r \in Runs, FinishIssue(r)
      PROVE  IssueInv(s)'
  <2>1. IssueFinished(r, run[r].op) /\ run[r].op \in Ops
    BY <1>13, FinishIssueEffect DEF TypeOK, RunState
  <2>2. CASE LeftOpen(run[r].op) /\ Stays
    BY <2>1, <2>2 DEF IssueFinished, LeftOpen, Stays, TypeOK, Statuses, Accounts, CardRow,
       RunState, Claimed, Active, LeasedPcs, ClaimInv, SudoInv, OutcomeInv, IssueInv, CardInv,
       Lifecycle, Reason, Retired, Idle
  <2>3. CASE op' = op /\ Stays
    BY <2>1, <2>3 DEF IssueFinished, Stays, TypeOK, Statuses, Accounts, CardRow, RunState, Claimed,
       Active, LeasedPcs, ClaimInv, SudoInv, OutcomeInv, IssueInv, CardInv, Lifecycle, Reason,
       Retired, Idle
  <2>4. CASE IssueBooked(run[r].op)
    BY <2>1, <2>4 DEF IssueFinished, IssueBooked, TypeOK, Statuses, Accounts, CardRow, RunState,
       Claimed, Active, LeasedPcs, ClaimInv, SudoInv, OutcomeInv, IssueInv, CardInv, Lifecycle,
       Reason, Retired, Idle
  <2> QED BY <2>1, <2>2, <2>3, <2>4 DEF IssueFinished
<1>14. ASSUME NEW r \in Runs, TakeLease(r)
      PROVE  IssueInv(s)'
  BY <1>14 DEF TakeLease, At, Doing, Goto, GivesUp, Overwrites, Lapsed, SetOp, LeaseFree, Stop,
     Idle, TypeOK, Statuses, Accounts, CardRow, RunState, Claimed, Active, LeasedPcs, ClaimInv,
     SudoInv, OutcomeInv, IssueInv, CardInv, Lifecycle, Reason, Retired
<1>15. ASSUME NEW r \in Runs, Prepare(r)
      PROVE  IssueInv(s)'
  <2>1. /\ Kind[run[r].op] \in Lifecycle /\ op[run[r].op] # "none" /\ run[r].op \in Ops
        /\ UNCHANGED <<money, journals, sudo>> /\ card'.status = card.status
    BY <1>15 DEF Prepare, Doing, At, ClaimInv, Active, Marked, TypeOK, CardRow, RunState
  <2>2. \A p \in Ops : op'[p] # op[p] =>
          \/ p = run[r].op /\ op'[p] = "SUPERSEDED"
          \/ Kind[p] = "RETIRE" /\ op'[p] = "QUEUED"
    BY <1>15, <2>1 DEF Prepare, Enqueued, TypeOK
  <2>3. card.status # "none"
    BY <2>1 DEF IssueInv
  <2> QED BY <2>1, <2>2, <2>3 DEF IssueInv, TypeOK, Lifecycle
<1>16. ASSUME NEW r \in Runs, RetireReads(r)
      PROVE  IssueInv(s)'
  BY <1>16 DEF RetireReads, At, Doing, Retired, LeaveUncertain, Uncertain, GivesUp, Overwrites,
     Lapsed, SetOp, Release, Stop, Idle, Goto, See, TypeOK, Statuses, Accounts, CardRow, RunState,
     Claimed, Active, LeasedPcs, ClaimInv, SudoInv, OutcomeInv, IssueInv, CardInv, Lifecycle,
     Reason
<1>17. ASSUME NEW r \in Runs, Put(r)
      PROVE  IssueInv(s)'
  BY <1>17 DEF Put, At, Doing, Wanted, Goto, Reports, TypeOK, Statuses, Accounts, CardRow,
     RunState, Claimed, Active, LeasedPcs, ClaimInv, SudoInv, OutcomeInv, IssueInv, CardInv,
     Lifecycle, Reason, Retired
<1>18. ASSUME NEW r \in Runs, PutRefused(r)
      PROVE  IssueInv(s)'
  BY <1>18 DEF PutRefused, At, Doing, LeaveUncertain, Uncertain, GivesUp, Overwrites, Lapsed,
     SetOp, Release, Stop, Idle, Leave, Fail, Pays, TypeOK, Statuses, Accounts, CardRow, RunState,
     Claimed, Active, LeasedPcs, ClaimInv, SudoInv, OutcomeInv, IssueInv, CardInv, Lifecycle,
     Reason, Retired
<1>19. ASSUME NEW r \in Runs, Confirm(r)
      PROVE  IssueInv(s)'
  BY <1>19 DEF Confirm, At, LeaveUncertain, Uncertain, GivesUp, Overwrites, Lapsed, SetOp, Doing,
     Release, Stop, Idle, See, TypeOK, Statuses, Accounts, CardRow, RunState, Claimed, Active,
     LeasedPcs, ClaimInv, SudoInv, OutcomeInv, IssueInv, CardInv, Lifecycle, Reason, Retired
<1>20. ASSUME NEW r \in Runs, FinishLifecycle(r)
      PROVE  IssueInv(s)'
  <2>1. LifecycleFinished(r, run[r].op) /\ run[r].op \in Ops
    BY <1>20, FinishLifecycleEffect DEF TypeOK, RunState
  <2>2. CASE LeftOpen(run[r].op) /\ Stays
    BY <2>1, <2>2 DEF LifecycleFinished, LeftOpen, Stays, TypeOK, Statuses, Accounts, CardRow,
       RunState, Claimed, Active, LeasedPcs, ClaimInv, SudoInv, OutcomeInv, IssueInv, CardInv,
       Lifecycle, Reason, Retired, Idle
  <2>3. CASE op' = op /\ Stays
    BY <2>1, <2>3 DEF LifecycleFinished, Stays, TypeOK, Statuses, Accounts, CardRow, RunState,
       Claimed, Active, LeasedPcs, ClaimInv, SudoInv, OutcomeInv, IssueInv, CardInv, Lifecycle,
       Reason, Retired, Idle
  <2>4. CASE Overdue(run[r].op)
    BY <2>1, <2>4 DEF LifecycleFinished, Overdue, Stays, TypeOK, Statuses, Accounts, CardRow,
       RunState, Claimed, Active, LeasedPcs, ClaimInv, SudoInv, OutcomeInv, IssueInv, CardInv,
       Lifecycle, Reason, Retired, Idle
  <2>5. CASE ClosedByOwner(run[r].op)
    BY <2>1, <2>5 DEF LifecycleFinished, ClosedByOwner, Emptied, TypeOK, Statuses, Accounts,
       CardRow, RunState, Claimed, Active, LeasedPcs, ClaimInv, SudoInv, OutcomeInv, IssueInv,
       CardInv, Lifecycle, Reason, Retired, Idle
  <2>6. CASE Switched(run[r].op)
    BY <2>1, <2>6 DEF LifecycleFinished, Switched, TypeOK, Statuses, Accounts, CardRow, RunState,
       Claimed, Active, LeasedPcs, ClaimInv, SudoInv, OutcomeInv, IssueInv, CardInv, Lifecycle,
       Reason, Retired, Idle
  <2> QED BY <2>1, <2>2, <2>3, <2>4, <2>5, <2>6 DEF LifecycleFinished
<1>21. ASSUME NEW r \in Runs, FinishRetirement(r)
      PROVE  IssueInv(s)'
  <2>1. RetirementFinished(r, run[r].op) /\ run[r].op \in Ops
    BY <1>21, FinishRetirementEffect DEF TypeOK, RunState
  <2>2. CASE Reopened(run[r].op) /\ Stays
    BY <2>1, <2>2 DEF RetirementFinished, Reopened, Stays, TypeOK, Statuses, Accounts, CardRow,
       RunState, Claimed, Active, LeasedPcs, ClaimInv, SudoInv, OutcomeInv, IssueInv, CardInv,
       Lifecycle, Reason, Retired, Idle
  <2>3. CASE WaitsForHolds(run[r].op)
    BY <2>1, <2>3 DEF RetirementFinished, WaitsForHolds, TypeOK, Statuses, Accounts, CardRow,
       RunState, Claimed, Active, LeasedPcs, ClaimInv, SudoInv, OutcomeInv, IssueInv, CardInv,
       Lifecycle, Reason, Retired, Idle
  <2>4. CASE RetiredNow(run[r].op)
    <3>1. /\ op' = [op EXCEPT ![run[r].op] = "SUCCEEDED"] /\ Kind[run[r].op] = "RETIRE"
          /\ op[run[r].op] # "none" /\ card.ext /\ card'.status # "none" /\ sudo' = sudo
          /\ money'.reserve = money.reserve /\ ("issue" \in journals' <=> "issue" \in journals)
      BY <2>1, <2>4 DEF RetirementFinished, RetiredNow, Emptied, TypeOK, CardRow
    <3>2. sudo.status # "none"
      BY <3>1 DEF CardInv
    <3> QED BY <2>1, <3>1, <3>2 DEF IssueInv, TypeOK, Lifecycle
  <2> QED BY <2>1, <2>2, <2>3, <2>4 DEF RetirementFinished
<1>22. ASSUME NEW r \in Runs, ApplyEvent(r)
      PROVE  IssueInv(s)'
  <2>1. EventApplied(r)
    BY <1>22, ApplyEventEffect
  <2>2. CASE op' = op /\ Stays
    BY <2>1, <2>2 DEF EventApplied, Stays, TypeOK, Statuses, Accounts, CardRow, RunState, Claimed,
       Active, LeasedPcs, ClaimInv, SudoInv, OutcomeInv, IssueInv, CardInv, Lifecycle, Reason,
       Retired, Idle
  <2>3. CASE SentBack
    BY <2>1, <2>3 DEF EventApplied, SentBack, TypeOK, Statuses, Accounts, CardRow, RunState,
       Claimed, Active, LeasedPcs, ClaimInv, SudoInv, OutcomeInv, IssueInv, CardInv, Lifecycle,
       Reason, Retired, Idle
  <2>4. CASE MarkedByIssuer
    BY <2>1, <2>4 DEF EventApplied, MarkedByIssuer, TypeOK, Statuses, Accounts, CardRow, RunState,
       Claimed, Active, LeasedPcs, ClaimInv, SudoInv, OutcomeInv, IssueInv, CardInv, Lifecycle,
       Reason, Retired, Idle
  <2>5. CASE ClosedByIssuer
    BY <2>1, <2>5 DEF EventApplied, ClosedByIssuer, Emptied, TypeOK, Statuses, Accounts, CardRow,
       RunState, Claimed, Active, LeasedPcs, ClaimInv, SudoInv, OutcomeInv, IssueInv, CardInv,
       Lifecycle, Reason, Retired, Idle
  <2>6. CASE Copied
    BY <2>1, <2>6 DEF EventApplied, Copied, TypeOK, Statuses, Accounts, CardRow, RunState, Claimed,
       Active, LeasedPcs, ClaimInv, SudoInv, OutcomeInv, IssueInv, CardInv, Lifecycle, Reason,
       Retired, Idle
  <2> QED BY <2>1, <2>2, <2>3, <2>4, <2>5, <2>6 DEF EventApplied
<1>23. ASSUME NEW r \in Runs, CreateCard(r)
      PROVE  IssueInv(s)'
  BY <1>23 DEF CreateCard, At, Doing, TypeOK, Statuses, Accounts, CardRow, RunState, Claimed,
     Active, LeasedPcs, ClaimInv, SudoInv, OutcomeInv, IssueInv, CardInv, Lifecycle, Reason,
     Retired
<1>24. ASSUME NEW r \in Runs, IssueRefused(r)
      PROVE  IssueInv(s)'
  BY <1>24 DEF IssueRefused, At, Doing, Fail, SetOp, Pays, Stop, Idle, TypeOK, Statuses, Accounts,
     CardRow, RunState, Claimed, Active, LeasedPcs, ClaimInv, SudoInv, OutcomeInv, IssueInv,
     CardInv, Lifecycle, Reason, Retired
<1>25. ASSUME NEW r \in Runs, PutTimesOut(r)
      PROVE  IssueInv(s)'
  BY <1>25 DEF PutTimesOut, At, Wanted, Doing, LeaveUncertain, Uncertain, GivesUp, Overwrites,
     Lapsed, SetOp, Stop, Idle, Release, TypeOK, Statuses, Accounts, CardRow, RunState, Claimed,
     Active, LeasedPcs, ClaimInv, SudoInv, OutcomeInv, IssueInv, CardInv, Lifecycle, Reason,
     Retired
<1>26. ASSUME NEW r \in Runs, TimesOut(r)
      PROVE  IssueInv(s)'
  BY <1>26 DEF TimesOut, At, LeasedPcs, LeaveUncertain, Uncertain, GivesUp, Overwrites, Lapsed,
     SetOp, Doing, Stop, Idle, Release, TypeOK, Statuses, Accounts, CardRow, RunState, Claimed,
     Active, ClaimInv, SudoInv, OutcomeInv, IssueInv, CardInv, Lifecycle, Reason, Retired
<1>27. ASSUME NEW r \in Runs, Overruns(r)
      PROVE  IssueInv(s)'
  BY <1>27 DEF Overruns, Lapsed, LeasedPcs, TypeOK, Statuses, Accounts, CardRow, RunState, Claimed,
     Active, ClaimInv, SudoInv, OutcomeInv, IssueInv, CardInv, Lifecycle, Reason, Retired
<1>28. ASSUME NEW r \in Runs, NEW o \in Ops, Claim(r, o)
      PROVE  IssueInv(s)'
  BY <1>28 DEF Claim, At, SetOp, Idle, TypeOK, Statuses, Accounts, CardRow, RunState, Claimed,
     Active, LeasedPcs, ClaimInv, SudoInv, OutcomeInv, IssueInv, CardInv, Lifecycle, Reason,
     Retired
<1>29. ASSUME NEW r \in Runs, NEW o \in Ops, PickUncertain(r, o)
      PROVE  IssueInv(s)'
  BY <1>29 DEF PickUncertain, At, Listed, SetOp, Idle, TypeOK, Statuses, Accounts, CardRow,
     RunState, Claimed, Active, LeasedPcs, ClaimInv, SudoInv, OutcomeInv, IssueInv, CardInv,
     Lifecycle, Reason, Retired
<1> QED BY <1>1, <1>2, <1>3, <1>4, <1>5, <1>6, <1>7, <1>8, <1>9, <1>10, <1>11, <1>12, <1>13, <1>14,
   <1>15, <1>16, <1>17, <1>18, <1>19, <1>20, <1>21, <1>22, <1>23, <1>24, <1>25, <1>26, <1>27,
   <1>28, <1>29 DEF Next, RunStep

\* A closed card holds nothing, and only a failed issuance closes it otherwise.
LEMMA CardStep == IInv /\ Next => CardInv'
<1> SUFFICES ASSUME IInv, Next PROVE CardInv'
  OBVIOUS
<1> USE OpsAssumption, MoneyAssumption DEF IInv
<1>1. CASE \/ RowFails \/ DeadlinePasses \/ LeaseLapses
           \/ \E r \in Runs : Query(r) \/ FetchCard(r) \/ Crash(r)
  <2>1. UNCHANGED <<op, card, money, journals, sudo, named>>
    BY <1>1 DEF RowFails, DeadlinePasses, LeaseLapses, Query, FetchCard, Crash
  <2> QED BY <2>1 DEF TypeOK, CardRow, Statuses, Accounts, RunState, Claimed, Active, LeasedPcs,
     ClaimInv, SudoInv, OutcomeInv, IssueInv, CardInv, Lifecycle, Reason, Retired, Final
<1>2. ASSUME NEW o \in Ops, ExecuteIssue(o)
      PROVE  CardInv'
  BY <1>2 DEF ExecuteIssue, Pays, SetOp, TypeOK, CardRow, Statuses, Accounts, RunState, Claimed,
     Active, LeasedPcs, ClaimInv, SudoInv, OutcomeInv, IssueInv, CardInv, Lifecycle, Reason,
     Retired, Final
<1>3. ASSUME NEW o \in Ops, ExecuteCommand(o)
      PROVE  CardInv'
  BY <1>3 DEF ExecuteCommand, SetOp, Marked, Pending, Reason, Retired, TypeOK, CardRow, Statuses,
     Accounts, RunState, Claimed, Active, LeasedPcs, ClaimInv, SudoInv, OutcomeInv, IssueInv,
     CardInv, Lifecycle, Final
<1>4. ASSUME NEW o \in Ops, OperationLapses(o)
      PROVE  CardInv'
  BY <1>4 DEF OperationLapses, SetOp, TypeOK, CardRow, Statuses, Accounts, RunState, Claimed,
     Active, LeasedPcs, ClaimInv, SudoInv, OutcomeInv, IssueInv, CardInv, Lifecycle, Reason,
     Retired, Final
<1>5. ASSUME Allocate
      PROVE  CardInv'
  BY <1>5 DEF Allocate, Pays, TypeOK, CardRow, Statuses, Accounts, RunState, Claimed, Active,
     LeasedPcs, ClaimInv, SudoInv, OutcomeInv, IssueInv, CardInv, Lifecycle, Reason, Retired, Final
<1>6. ASSUME EnsureDue
      PROVE  CardInv'
  BY <1>6 DEF EnsureDue, Marked, Enqueued, Reason, Retired, TypeOK, CardRow, Statuses, Accounts,
     RunState, Claimed, Active, LeasedPcs, ClaimInv, SudoInv, OutcomeInv, IssueInv, CardInv,
     Lifecycle, Final
<1>7. ASSUME Purchase
      PROVE  CardInv'
  BY <1>7 DEF Purchase, Pays, Reason, Retired, TypeOK, CardRow, Statuses, Accounts, RunState,
     Claimed, Active, LeasedPcs, ClaimInv, SudoInv, OutcomeInv, IssueInv, CardInv, Lifecycle, Final
<1>8. ASSUME Settle
      PROVE  CardInv'
  BY <1>8 DEF Settle, Pays, TypeOK, CardRow, Statuses, Accounts, RunState, Claimed, Active,
     LeasedPcs, ClaimInv, SudoInv, OutcomeInv, IssueInv, CardInv, Lifecycle, Reason, Retired, Final
<1>9. ASSUME LatePut
      PROVE  CardInv'
  <2>1. /\ sudo.status # "none" /\ sudo'.status # "none" /\ "none" \notin sudo'.late
        /\ card.status # "none" /\ UNCHANGED <<op, card, money, journals, named>>
    BY <1>9 DEF LatePut, CardInv, TypeOK
  <2> QED BY <2>1 DEF CardInv, Retired
<1>10. ASSUME LostPut
      PROVE  CardInv'
  BY <1>10 DEF LostPut, TypeOK, CardRow, Statuses, Accounts, RunState, Claimed, Active, LeasedPcs,
     ClaimInv, SudoInv, OutcomeInv, IssueInv, CardInv, Lifecycle, Reason, Retired, Final
<1>11. ASSUME IssuerCloses
      PROVE  CardInv'
  BY <1>11 DEF IssuerCloses, Reports, TypeOK, CardRow, Statuses, Accounts, RunState, Claimed,
     Active, LeasedPcs, ClaimInv, SudoInv, OutcomeInv, IssueInv, CardInv, Lifecycle, Reason,
     Retired, Final
<1>12. ASSUME NEW r \in Runs, Discover(r)
      PROVE  CardInv'
  BY <1>12 DEF Discover, At, Goto, Stop, Idle, TypeOK, CardRow, Statuses, Accounts, RunState,
     Claimed, Active, LeasedPcs, ClaimInv, SudoInv, OutcomeInv, IssueInv, CardInv, Lifecycle,
     Reason, Retired, Final
<1>13. ASSUME NEW r \in Runs, StoreReference(r)
      PROVE  CardInv'
  BY <1>13 DEF StoreReference, At, Goto, TypeOK, CardRow, Statuses, Accounts, RunState, Claimed,
     Active, LeasedPcs, ClaimInv, SudoInv, OutcomeInv, IssueInv, CardInv, Lifecycle, Reason,
     Retired, Final
<1>14. ASSUME NEW r \in Runs, StoreCard(r)
      PROVE  CardInv'
  BY <1>14 DEF StoreCard, At, Goto, TypeOK, CardRow, Statuses, Accounts, RunState, Claimed, Active,
     LeasedPcs, ClaimInv, SudoInv, OutcomeInv, IssueInv, CardInv, Lifecycle, Reason, Retired, Final
<1>15. ASSUME NEW r \in Runs, FinishIssue(r)
      PROVE  CardInv'
  <2>1. IssueFinished(r, run[r].op) /\ run[r].op \in Ops
    BY <1>15, FinishIssueEffect DEF TypeOK, RunState
  <2>2. CASE LeftOpen(run[r].op) /\ Stays
    BY <2>1, <2>2 DEF IssueFinished, LeftOpen, Stays, TypeOK, CardRow, Statuses, Accounts,
       RunState, Claimed, Active, LeasedPcs, ClaimInv, SudoInv, OutcomeInv, IssueInv, CardInv,
       Lifecycle, Reason, Retired, Final, Idle
  <2>3. CASE op' = op /\ Stays
    BY <2>1, <2>3 DEF IssueFinished, Stays, TypeOK, CardRow, Statuses, Accounts, RunState, Claimed,
       Active, LeasedPcs, ClaimInv, SudoInv, OutcomeInv, IssueInv, CardInv, Lifecycle, Reason,
       Retired, Final, Idle
  <2>4. CASE IssueBooked(run[r].op)
    <3>1. /\ \E t \in {"SUCCEEDED", "PENDING"} : op' = [op EXCEPT ![run[r].op] = t]
          /\ Kind[run[r].op] = "ISSUE" /\ op[run[r].op] # "none" /\ money'.held = money.held
          /\ card'.status \in {"ACTIVE", "PAUSED"} /\ card'.retirement = card.retirement
          /\ sudo' = sudo
      BY <2>1, <2>4 DEF IssueFinished, IssueBooked, TypeOK, CardRow, Accounts
    <3>2. sudo.status # "none"
      BY <2>1 DEF IssueFinished, SudoInv
    <3> QED BY <2>1, <3>1, <3>2 DEF CardInv, TypeOK, Final
  <2> QED BY <2>1, <2>2, <2>3, <2>4 DEF IssueFinished
<1>16. ASSUME NEW r \in Runs, TakeLease(r)
      PROVE  CardInv'
  BY <1>16 DEF TakeLease, At, Doing, Goto, GivesUp, Overwrites, Lapsed, SetOp, LeaseFree, Stop,
     Idle, TypeOK, CardRow, Statuses, Accounts, RunState, Claimed, Active, LeasedPcs, ClaimInv,
     SudoInv, OutcomeInv, IssueInv, CardInv, Lifecycle, Reason, Retired, Final
<1>17. ASSUME NEW r \in Runs, Prepare(r)
      PROVE  CardInv'
  BY <1>17 DEF Prepare, At, Doing, Lifecycle, Reason, Retired, Marked, Enqueued, Leave, Stop,
     Release, Idle, Goto, TypeOK, CardRow, Statuses, Accounts, RunState, Claimed, Active,
     LeasedPcs, ClaimInv, SudoInv, OutcomeInv, IssueInv, CardInv, Final
<1>18. ASSUME NEW r \in Runs, RetireReads(r)
      PROVE  CardInv'
  BY <1>18 DEF RetireReads, At, Doing, Retired, LeaveUncertain, Uncertain, GivesUp, Overwrites,
     Lapsed, SetOp, Release, Stop, Idle, Goto, See, TypeOK, CardRow, Statuses, Accounts, RunState,
     Claimed, Active, LeasedPcs, ClaimInv, SudoInv, OutcomeInv, IssueInv, CardInv, Lifecycle,
     Reason, Final
<1>19. ASSUME NEW r \in Runs, Put(r)
      PROVE  CardInv'
  BY <1>19 DEF Put, At, Doing, Wanted, Goto, Reports, TypeOK, CardRow, Statuses, Accounts,
     RunState, Claimed, Active, LeasedPcs, ClaimInv, SudoInv, OutcomeInv, IssueInv, CardInv,
     Lifecycle, Reason, Retired, Final
<1>20. ASSUME NEW r \in Runs, PutRefused(r)
      PROVE  CardInv'
  BY <1>20 DEF PutRefused, At, Doing, LeaveUncertain, Uncertain, GivesUp, Overwrites, Lapsed,
     SetOp, Release, Stop, Idle, Leave, Fail, Pays, TypeOK, CardRow, Statuses, Accounts, RunState,
     Claimed, Active, LeasedPcs, ClaimInv, SudoInv, OutcomeInv, IssueInv, CardInv, Lifecycle,
     Reason, Retired, Final
<1>21. ASSUME NEW r \in Runs, Confirm(r)
      PROVE  CardInv'
  BY <1>21 DEF Confirm, At, LeaveUncertain, Uncertain, GivesUp, Overwrites, Lapsed, SetOp, Doing,
     Release, Stop, Idle, See, TypeOK, CardRow, Statuses, Accounts, RunState, Claimed, Active,
     LeasedPcs, ClaimInv, SudoInv, OutcomeInv, IssueInv, CardInv, Lifecycle, Reason, Retired, Final
<1>22. ASSUME NEW r \in Runs, FinishLifecycle(r)
      PROVE  CardInv'
  <2>1. LifecycleFinished(r, run[r].op) /\ run[r].op \in Ops
    BY <1>22, FinishLifecycleEffect DEF TypeOK, RunState
  <2>2. CASE LeftOpen(run[r].op) /\ Stays
    BY <2>1, <2>2 DEF LifecycleFinished, LeftOpen, Stays, TypeOK, CardRow, Statuses, Accounts,
       RunState, Claimed, Active, LeasedPcs, ClaimInv, SudoInv, OutcomeInv, IssueInv, CardInv,
       Lifecycle, Reason, Retired, Final, Idle
  <2>3. CASE op' = op /\ Stays
    BY <2>1, <2>3 DEF LifecycleFinished, Stays, TypeOK, CardRow, Statuses, Accounts, RunState,
       Claimed, Active, LeasedPcs, ClaimInv, SudoInv, OutcomeInv, IssueInv, CardInv, Lifecycle,
       Reason, Retired, Final, Idle
  <2>4. CASE Overdue(run[r].op)
    BY <2>1, <2>4 DEF LifecycleFinished, Overdue, Stays, TypeOK, CardRow, Statuses, Accounts,
       RunState, Claimed, Active, LeasedPcs, ClaimInv, SudoInv, OutcomeInv, IssueInv, CardInv,
       Lifecycle, Reason, Retired, Final, Idle
  <2>5. CASE ClosedByOwner(run[r].op)
    BY <2>1, <2>5 DEF LifecycleFinished, ClosedByOwner, Emptied, TypeOK, CardRow, Statuses,
       Accounts, RunState, Claimed, Active, LeasedPcs, ClaimInv, SudoInv, OutcomeInv, IssueInv,
       CardInv, Lifecycle, Reason, Retired, Final, Idle
  <2>6. CASE Switched(run[r].op)
    BY <2>1, <2>6 DEF LifecycleFinished, Switched, TypeOK, CardRow, Statuses, Accounts, RunState,
       Claimed, Active, LeasedPcs, ClaimInv, SudoInv, OutcomeInv, IssueInv, CardInv, Lifecycle,
       Reason, Retired, Final, Idle
  <2> QED BY <2>1, <2>2, <2>3, <2>4, <2>5, <2>6 DEF LifecycleFinished
<1>23. ASSUME NEW r \in Runs, FinishRetirement(r)
      PROVE  CardInv'
  <2>1. RetirementFinished(r, run[r].op) /\ run[r].op \in Ops
    BY <1>23, FinishRetirementEffect DEF TypeOK, RunState
  <2>2. CASE Reopened(run[r].op) /\ Stays
    BY <2>1, <2>2 DEF RetirementFinished, Reopened, Stays, TypeOK, CardRow, Statuses, Accounts,
       RunState, Claimed, Active, LeasedPcs, ClaimInv, SudoInv, OutcomeInv, IssueInv, CardInv,
       Lifecycle, Reason, Retired, Final, Idle
  <2>3. CASE WaitsForHolds(run[r].op)
    BY <2>1, <2>3 DEF RetirementFinished, WaitsForHolds, TypeOK, CardRow, Statuses, Accounts,
       RunState, Claimed, Active, LeasedPcs, ClaimInv, SudoInv, OutcomeInv, IssueInv, CardInv,
       Lifecycle, Reason, Retired, Final, Idle
  <2>4. CASE RetiredNow(run[r].op)
    BY <2>1, <2>4 DEF RetirementFinished, RetiredNow, Emptied, TypeOK, CardRow, Statuses, Accounts,
       RunState, Claimed, Active, LeasedPcs, ClaimInv, SudoInv, OutcomeInv, IssueInv, CardInv,
       Lifecycle, Reason, Retired, Final, Idle
  <2> QED BY <2>1, <2>2, <2>3, <2>4 DEF RetirementFinished
<1>24. ASSUME NEW r \in Runs, ApplyEvent(r)
      PROVE  CardInv'
  <2>1. EventApplied(r)
    BY <1>24, ApplyEventEffect
  <2>2. CASE op' = op /\ Stays
    BY <2>1, <2>2 DEF EventApplied, Stays, TypeOK, CardRow, Statuses, Accounts, RunState, Claimed,
       Active, LeasedPcs, ClaimInv, SudoInv, OutcomeInv, IssueInv, CardInv, Lifecycle, Reason,
       Retired, Final, Idle
  <2>3. CASE SentBack
    BY <2>1, <2>3 DEF EventApplied, SentBack, TypeOK, CardRow, Statuses, Accounts, RunState,
       Claimed, Active, LeasedPcs, ClaimInv, SudoInv, OutcomeInv, IssueInv, CardInv, Lifecycle,
       Reason, Retired, Final, Idle
  <2>4. CASE MarkedByIssuer
    BY <2>1, <2>4 DEF EventApplied, MarkedByIssuer, TypeOK, CardRow, Statuses, Accounts, RunState,
       Claimed, Active, LeasedPcs, ClaimInv, SudoInv, OutcomeInv, IssueInv, CardInv, Lifecycle,
       Reason, Retired, Final, Idle
  <2>5. CASE ClosedByIssuer
    BY <2>1, <2>5 DEF EventApplied, ClosedByIssuer, Emptied, TypeOK, CardRow, Statuses, Accounts,
       RunState, Claimed, Active, LeasedPcs, ClaimInv, SudoInv, OutcomeInv, IssueInv, CardInv,
       Lifecycle, Reason, Retired, Final, Idle
  <2>6. CASE Copied
    BY <2>1, <2>6 DEF EventApplied, Copied, TypeOK, CardRow, Statuses, Accounts, RunState, Claimed,
       Active, LeasedPcs, ClaimInv, SudoInv, OutcomeInv, IssueInv, CardInv, Lifecycle, Reason,
       Retired, Final, Idle
  <2> QED BY <2>1, <2>2, <2>3, <2>4, <2>5, <2>6 DEF EventApplied
<1>25. ASSUME NEW r \in Runs, CreateCard(r)
      PROVE  CardInv'
  BY <1>25 DEF CreateCard, At, Doing, TypeOK, CardRow, Statuses, Accounts, RunState, Claimed,
     Active, LeasedPcs, ClaimInv, SudoInv, OutcomeInv, IssueInv, CardInv, Lifecycle, Reason,
     Retired, Final
<1>26. ASSUME NEW r \in Runs, IssueRefused(r)
      PROVE  CardInv'
  <2>1. /\ Kind[run[r].op] = "ISSUE" /\ run[r].op \in Ops /\ op[run[r].op] \in {"PROCESSING", "UNKNOWN"}
        /\ UNCHANGED <<journals, named, sudo>>
    BY <1>26 DEF IssueRefused, At, Doing, SudoInv, TypeOK, RunState
  <2>2. /\ op' = [op EXCEPT ![run[r].op] = "FAILED"] /\ money'.held = money.held
        /\ card' = [card EXCEPT !.status = "CANCELLED"]
    BY <1>26, <2>1 DEF IssueRefused, Fail, SetOp, Pays, TypeOK, Accounts
  <2>3. card.status # "none"
    BY <2>1 DEF IssueInv
  <2> QED BY <2>1, <2>2, <2>3 DEF CardInv, TypeOK, CardRow, Retired
<1>27. ASSUME NEW r \in Runs, PutTimesOut(r)
      PROVE  CardInv'
  BY <1>27 DEF PutTimesOut, At, Wanted, Doing, LeaveUncertain, Uncertain, GivesUp, Overwrites,
     Lapsed, SetOp, Stop, Idle, Release, TypeOK, CardRow, Statuses, Accounts, RunState, Claimed,
     Active, LeasedPcs, ClaimInv, SudoInv, OutcomeInv, IssueInv, CardInv, Lifecycle, Reason,
     Retired, Final
<1>28. ASSUME NEW r \in Runs, TimesOut(r)
      PROVE  CardInv'
  BY <1>28 DEF TimesOut, At, LeasedPcs, LeaveUncertain, Uncertain, GivesUp, Overwrites, Lapsed,
     SetOp, Doing, Stop, Idle, Release, TypeOK, CardRow, Statuses, Accounts, RunState, Claimed,
     Active, ClaimInv, SudoInv, OutcomeInv, IssueInv, CardInv, Lifecycle, Reason, Retired, Final
<1>29. ASSUME NEW r \in Runs, Overruns(r)
      PROVE  CardInv'
  BY <1>29 DEF Overruns, Lapsed, LeasedPcs, TypeOK, CardRow, Statuses, Accounts, RunState, Claimed,
     Active, ClaimInv, SudoInv, OutcomeInv, IssueInv, CardInv, Lifecycle, Reason, Retired, Final
<1>30. ASSUME NEW r \in Runs, NEW o \in Ops, Claim(r, o)
      PROVE  CardInv'
  BY <1>30 DEF Claim, At, SetOp, Idle, TypeOK, CardRow, Statuses, Accounts, RunState, Claimed,
     Active, LeasedPcs, ClaimInv, SudoInv, OutcomeInv, IssueInv, CardInv, Lifecycle, Reason,
     Retired, Final
<1>31. ASSUME NEW r \in Runs, NEW o \in Ops, PickUncertain(r, o)
      PROVE  CardInv'
  BY <1>31 DEF PickUncertain, At, Listed, SetOp, Idle, TypeOK, CardRow, Statuses, Accounts,
     RunState, Claimed, Active, LeasedPcs, ClaimInv, SudoInv, OutcomeInv, IssueInv, CardInv,
     Lifecycle, Reason, Retired, Final
<1> QED BY <1>1, <1>2, <1>3, <1>4, <1>5, <1>6, <1>7, <1>8, <1>9, <1>10, <1>11, <1>12, <1>13, <1>14,
   <1>15, <1>16, <1>17, <1>18, <1>19, <1>20, <1>21, <1>22, <1>23, <1>24, <1>25, <1>26, <1>27,
   <1>28, <1>29, <1>30, <1>31 DEF Next, RunStep

LEMMA InitInv == Init => IInv
<1> SUFFICES ASSUME Init PROVE IInv
  OBVIOUS
<1> USE OpsAssumption, MoneyAssumption DEF Init
<1>1. TypeOK
  <2>1. Idle \in RunState
    BY DEF RunState, Idle, Pcs, Seen
  <2>2. card \in CardRow /\ sudo \in [status : Seen, late : SUBSET Seen]
    BY DEF CardRow, Seen
  <2>3. money \in [Accounts -> Nat]
    BY DEF Accounts
  <2>4. op \in [Ops -> Statuses] /\ run \in [Runs -> RunState] /\ faults \in 0..MaxFaults
    BY <2>1 DEF Statuses
  <2> QED BY <2>2, <2>3, <2>4 DEF TypeOK
<1>2. CardInv
  BY DEF CardInv, Final
<1>3. \A r \in Runs : ClaimInv(r) /\ SudoInv(r) /\ Exclusive(r) /\ LeaseInv(r)
  BY DEF ClaimInv, SudoInv, Exclusive, LeaseInv, Idle, Active, Claimed, LeasedPcs
<1>4. \A o \in Ops : OutcomeInv(o) /\ IssueInv(o)
  BY DEF OutcomeInv, IssueInv
<1> QED BY <1>1, <1>2, <1>3, <1>4 DEF IInv

LEMMA NextInv == IInv /\ [Next]_vars => IInv'
<1> SUFFICES ASSUME IInv, [Next]_vars PROVE IInv'
  OBVIOUS
<1>1. CASE Next
  BY <1>1, TypeStep, ClaimStep, SudoStep, ExclusiveStep, LeaseStep, OutcomeStep, IssueStep,
     CardStep DEF IInv
<1>2. CASE UNCHANGED vars
  BY <1>2 DEF vars, IInv, TypeOK, CardInv, ClaimInv, SudoInv, Exclusive, LeaseInv, OutcomeInv,
     IssueInv, Active, Claimed, Retired, Reason
<1> QED BY <1>1, <1>2

(***************************************************************************)
(* The theorems.                                                           *)
(***************************************************************************)
\* The inductive invariant holds in every reachable state, for any operations,
\* runs, amounts and faults.
THEOREM Invariant == Spec => []IInv
<1> QED BY InitInv, NextInv, PTL DEF Spec

\* Every variable keeps its type: no account of the ledger is ever negative.
THEOREM TypeCorrect == Spec => []TypeOK
<1>1. IInv => TypeOK
  BY DEF IInv
<1> QED BY <1>1, Invariant, PTL

\* "Serializes all provider lifecycle writes": never are two runs between taking and
\* giving back the lease, whatever crashed or timed out before, as long as no run
\* has outlasted its claim or its lease.
THEOREM Serialized == Spec => []WritesAreSerial
<1>1. ASSUME IInv, ~overran PROVE Cardinality({r \in Runs : run[r].pc \in LeasedPcs}) <= 1
  <2> DEFINE writers == {r \in Runs : run[r].pc \in LeasedPcs}
  <2>1. \A r, q \in writers : r = q
    <3>1. ASSUME NEW r \in writers, NEW q \in writers PROVE r = q
      <4>1. run[r].op = run[q].op
        BY <1>1 DEF IInv, LeaseInv
      <4>2. Claimed(r) /\ Active(q)
        BY DEF Claimed, Active, LeasedPcs
      <4> QED BY <1>1, <4>1, <4>2 DEF IInv, Exclusive
    <3> QED BY <3>1
  <2>2. writers = {} \/ \E r \in writers : writers = {r}
    BY <2>1
  <2> HIDE DEF writers
  <2>3. Cardinality(writers) \in {0, 1}
    BY <2>2, FS_EmptySet, FS_Singleton
  <2> QED BY <2>3 DEF writers
<1>2. IInv => WritesAreSerial
  BY <1>1 DEF WritesAreSerial
<1> QED BY <1>2, Invariant, PTL


\* What the action properties say of one step.
RetirementIsEmptied ==
    (/\ card'.retirement \in Final
     /\ journals' \ journals # Issued
     /\ card.retirement \in Final => money.funds = 0)
    => money'.funds = 0 /\ money'.held = 0
Sum(m) == m.wallet + m.reserve + m.funds + m.held + m.spent + m.fees
MoneyMoves == Sum(money') = Sum(money)
OutcomeStays(o) ==
    op[o] \in {"SUCCEEDED", "FAILED", "SUPERSEDED"} =>
        \/ op'[o] = op[o]
        \/ Kind[o] = "RETIRE" /\ op'[o] = "QUEUED"
        \/ overran /\ Kind[o] # "ISSUE"

\* A step that switches a card on looks at its retirement first.
LEMMA RevivalStep == IInv /\ Next => (Retired /\ card.status # "ACTIVE" => card'.status # "ACTIVE")
<1> SUFFICES ASSUME IInv, Next PROVE (Retired /\ card.status # "ACTIVE" => card'.status # "ACTIVE")
  OBVIOUS
<1> USE OpsAssumption, MoneyAssumption DEF IInv
<1>1. CASE \/ Allocate \/ Purchase \/ Settle \/ RowFails \/ LatePut \/ LostPut \/
              IssuerCloses \/ DeadlinePasses \/ LeaseLapses
           \/ \E o \in Ops : OperationLapses(o)
           \/ \E r \in Runs : Discover(r) \/ Query(r) \/ StoreReference(r) \/ TakeLease(r)
              \/ RetireReads(r) \/ Put(r) \/ Confirm(r) \/ FetchCard(r) \/ CreateCard(r) \/
              PutTimesOut(r) \/ TimesOut(r) \/ Crash(r) \/ Overruns(r)
           \/ \E r \in Runs, o \in Ops : Claim(r, o) \/ PickUncertain(r, o)
  <2>1. UNCHANGED <<card>>
    BY <1>1 DEF OperationLapses, Allocate, Purchase, Settle, RowFails, LatePut, LostPut,
       IssuerCloses, DeadlinePasses, LeaseLapses, Discover, Query, StoreReference, TakeLease,
       RetireReads, Put, Confirm, FetchCard, CreateCard, PutTimesOut, TimesOut, Crash, Overruns,
       Claim, PickUncertain
  <2> QED BY <2>1 DEF TypeOK, CardRow, Retired
<1>2. ASSUME NEW o \in Ops, ExecuteIssue(o)
      PROVE  (Retired /\ card.status # "ACTIVE" => card'.status # "ACTIVE")
  BY <1>2 DEF ExecuteIssue, Pays, SetOp, TypeOK, CardRow, Retired
<1>3. ASSUME NEW o \in Ops, ExecuteCommand(o)
      PROVE  (Retired /\ card.status # "ACTIVE" => card'.status # "ACTIVE")
  BY <1>3 DEF ExecuteCommand, SetOp, Marked, Pending, Reason, Retired, TypeOK, CardRow
<1>4. ASSUME EnsureDue
      PROVE  (Retired /\ card.status # "ACTIVE" => card'.status # "ACTIVE")
  BY <1>4 DEF EnsureDue, Marked, Enqueued, Reason, Retired, TypeOK, CardRow
<1>5. ASSUME NEW r \in Runs, StoreCard(r)
      PROVE  (Retired /\ card.status # "ACTIVE" => card'.status # "ACTIVE")
  BY <1>5 DEF StoreCard, At, Goto, TypeOK, CardRow, Retired
<1>6. ASSUME NEW r \in Runs, FinishIssue(r)
      PROVE  (Retired /\ card.status # "ACTIVE" => card'.status # "ACTIVE")
  <2>1. IssueFinished(r, run[r].op) /\ run[r].op \in Ops
    BY <1>6, FinishIssueEffect DEF TypeOK, RunState
  <2>2. CASE LeftOpen(run[r].op) /\ Stays
    BY <2>1, <2>2 DEF IssueFinished, LeftOpen, Stays, TypeOK, CardRow, Retired, Idle
  <2>3. CASE op' = op /\ Stays
    BY <2>1, <2>3 DEF IssueFinished, Stays, TypeOK, CardRow, Retired, Idle
  <2>4. CASE IssueBooked(run[r].op)
    BY <2>1, <2>4 DEF IssueFinished, IssueBooked, TypeOK, CardRow, Retired, Idle
  <2> QED BY <2>1, <2>2, <2>3, <2>4 DEF IssueFinished
<1>7. ASSUME NEW r \in Runs, Prepare(r)
      PROVE  (Retired /\ card.status # "ACTIVE" => card'.status # "ACTIVE")
  BY <1>7 DEF Prepare, At, Doing, Lifecycle, Reason, Retired, Marked, Enqueued, Leave, Stop,
     Release, Idle, Goto, TypeOK, CardRow
<1>8. ASSUME NEW r \in Runs, PutRefused(r)
      PROVE  (Retired /\ card.status # "ACTIVE" => card'.status # "ACTIVE")
  BY <1>8 DEF PutRefused, At, Doing, LeaveUncertain, Uncertain, GivesUp, Overwrites, Lapsed, SetOp,
     Release, Stop, Idle, Leave, Fail, Pays, TypeOK, CardRow, Retired
<1>9. ASSUME NEW r \in Runs, FinishLifecycle(r)
      PROVE  (Retired /\ card.status # "ACTIVE" => card'.status # "ACTIVE")
  <2>1. LifecycleFinished(r, run[r].op) /\ run[r].op \in Ops
    BY <1>9, FinishLifecycleEffect DEF TypeOK, RunState
  <2>2. CASE LeftOpen(run[r].op) /\ Stays
    BY <2>1, <2>2 DEF LifecycleFinished, LeftOpen, Stays, TypeOK, CardRow, Retired, Idle
  <2>3. CASE op' = op /\ Stays
    BY <2>1, <2>3 DEF LifecycleFinished, Stays, TypeOK, CardRow, Retired, Idle
  <2>4. CASE Overdue(run[r].op)
    BY <2>1, <2>4 DEF LifecycleFinished, Overdue, Stays, TypeOK, CardRow, Retired, Idle
  <2>5. CASE ClosedByOwner(run[r].op)
    BY <2>1, <2>5 DEF LifecycleFinished, ClosedByOwner, Emptied, TypeOK, CardRow, Retired, Idle
  <2>6. CASE Switched(run[r].op)
    <3>1. /\ card' = [card EXCEPT !.status = card'.status]
          /\ card'.status = "ACTIVE" => Kind[run[r].op] = "RESUME" /\ ~Reason
      BY <2>1, <2>6 DEF LifecycleFinished, Switched, TypeOK, CardRow
    <3> QED BY <3>1 DEF Reason
  <2> QED BY <2>1, <2>2, <2>3, <2>4, <2>5, <2>6 DEF LifecycleFinished
<1>10. ASSUME NEW r \in Runs, FinishRetirement(r)
      PROVE  (Retired /\ card.status # "ACTIVE" => card'.status # "ACTIVE")
  <2>1. RetirementFinished(r, run[r].op) /\ run[r].op \in Ops
    BY <1>10, FinishRetirementEffect DEF TypeOK, RunState
  <2>2. CASE Reopened(run[r].op) /\ Stays
    BY <2>1, <2>2 DEF RetirementFinished, Reopened, Stays, TypeOK, CardRow, Retired, Idle
  <2>3. CASE WaitsForHolds(run[r].op)
    BY <2>1, <2>3 DEF RetirementFinished, WaitsForHolds, TypeOK, CardRow, Retired, Idle
  <2>4. CASE RetiredNow(run[r].op)
    BY <2>1, <2>4 DEF RetirementFinished, RetiredNow, Emptied, TypeOK, CardRow, Retired, Idle
  <2> QED BY <2>1, <2>2, <2>3, <2>4 DEF RetirementFinished
<1>11. ASSUME NEW r \in Runs, ApplyEvent(r)
      PROVE  (Retired /\ card.status # "ACTIVE" => card'.status # "ACTIVE")
  <2>1. EventApplied(r)
    BY <1>11, ApplyEventEffect
  <2>2. CASE op' = op /\ Stays
    BY <2>1, <2>2 DEF EventApplied, Stays, TypeOK, CardRow, Retired, Idle
  <2>3. CASE SentBack
    BY <2>1, <2>3 DEF EventApplied, SentBack, TypeOK, CardRow, Retired, Idle
  <2>4. CASE MarkedByIssuer
    BY <2>1, <2>4 DEF EventApplied, MarkedByIssuer, TypeOK, CardRow, Retired, Idle
  <2>5. CASE ClosedByIssuer
    BY <2>1, <2>5 DEF EventApplied, ClosedByIssuer, Emptied, TypeOK, CardRow, Retired, Idle
  <2>6. CASE Copied
    BY <2>1, <2>6 DEF EventApplied, Copied, TypeOK, CardRow, Retired, Idle
  <2> QED BY <2>1, <2>2, <2>3, <2>4, <2>5, <2>6 DEF EventApplied
<1>12. ASSUME NEW r \in Runs, IssueRefused(r)
      PROVE  (Retired /\ card.status # "ACTIVE" => card'.status # "ACTIVE")
  BY <1>12 DEF IssueRefused, At, Doing, Fail, SetOp, Pays, Stop, Idle, TypeOK, CardRow, Retired
<1> QED BY <1>1, <1>2, <1>3, <1>4, <1>5, <1>6, <1>7, <1>8, <1>9, <1>10, <1>11, <1>12 DEF Next,
   RunStep

\* A step that ends a retirement empties the card; nothing fills it afterwards.
LEMMA EmptyingStep == IInv /\ Next => RetirementIsEmptied
<1> SUFFICES ASSUME IInv, Next PROVE RetirementIsEmptied
  OBVIOUS
<1> USE OpsAssumption, MoneyAssumption DEF IInv
<1>1. CASE \/ RowFails \/ LatePut \/ LostPut \/ IssuerCloses \/ DeadlinePasses \/
              LeaseLapses
           \/ \E o \in Ops : OperationLapses(o)
           \/ \E r \in Runs : Discover(r) \/ Query(r) \/ StoreReference(r) \/ TakeLease(r)
              \/ RetireReads(r) \/ Put(r) \/ Confirm(r) \/ FetchCard(r) \/ CreateCard(r) \/
              PutTimesOut(r) \/ TimesOut(r) \/ Crash(r) \/ Overruns(r)
           \/ \E r \in Runs, o \in Ops : Claim(r, o) \/ PickUncertain(r, o)
  <2>1. UNCHANGED <<card, money, journals>>
    BY <1>1 DEF OperationLapses, RowFails, LatePut, LostPut, IssuerCloses, DeadlinePasses,
       LeaseLapses, Discover, Query, StoreReference, TakeLease, RetireReads, Put, Confirm,
       FetchCard, CreateCard, PutTimesOut, TimesOut, Crash, Overruns, Claim, PickUncertain
  <2> QED BY <2>1 DEF RetirementIsEmptied, TypeOK, CardRow, Accounts, Final, Retired, CardInv,
     Issued
<1>2. ASSUME NEW o \in Ops, ExecuteIssue(o)
      PROVE  RetirementIsEmptied
  BY <1>2 DEF ExecuteIssue, Pays, SetOp, RetirementIsEmptied, TypeOK, CardRow, Accounts, Final,
     Retired, CardInv, Issued
<1>3. ASSUME NEW o \in Ops, ExecuteCommand(o)
      PROVE  RetirementIsEmptied
  BY <1>3 DEF ExecuteCommand, SetOp, Marked, Pending, Reason, Retired, RetirementIsEmptied, TypeOK,
     CardRow, Accounts, Final, CardInv, Issued
<1>4. ASSUME Allocate
      PROVE  RetirementIsEmptied
  BY <1>4 DEF Allocate, Pays, RetirementIsEmptied, TypeOK, CardRow, Accounts, Final, Retired,
     Reason, CardInv, Issued
<1>5. ASSUME EnsureDue
      PROVE  RetirementIsEmptied
  BY <1>5 DEF EnsureDue, Marked, Enqueued, Reason, Retired, RetirementIsEmptied, TypeOK, CardRow,
     Accounts, Final, CardInv, Issued
<1>6. ASSUME Purchase
      PROVE  RetirementIsEmptied
  BY <1>6 DEF Purchase, Pays, Reason, Retired, RetirementIsEmptied, TypeOK, CardRow, Accounts,
     Final, CardInv, Issued
<1>7. ASSUME Settle
      PROVE  RetirementIsEmptied
  BY <1>7 DEF Settle, Pays, RetirementIsEmptied, TypeOK, CardRow, Accounts, Final, Retired,
     CardInv, Issued
<1>8. ASSUME NEW r \in Runs, StoreCard(r)
      PROVE  RetirementIsEmptied
  BY <1>8 DEF StoreCard, At, Goto, RetirementIsEmptied, TypeOK, CardRow, Accounts, Final, Retired,
     CardInv, Issued
<1>9. ASSUME NEW r \in Runs, FinishIssue(r)
      PROVE  RetirementIsEmptied
  <2>1. IssueFinished(r, run[r].op) /\ run[r].op \in Ops
    BY <1>9, FinishIssueEffect DEF TypeOK, RunState
  <2>2. CASE LeftOpen(run[r].op) /\ Stays
    BY <2>1, <2>2 DEF IssueFinished, LeftOpen, Stays, RetirementIsEmptied, TypeOK, CardRow,
       Accounts, Final, Retired, CardInv, Issued, Idle
  <2>3. CASE op' = op /\ Stays
    BY <2>1, <2>3 DEF IssueFinished, Stays, RetirementIsEmptied, TypeOK, CardRow, Accounts, Final,
       Retired, CardInv, Issued, Idle
  <2>4. CASE IssueBooked(run[r].op)
    BY <2>1, <2>4 DEF IssueFinished, IssueBooked, RetirementIsEmptied, TypeOK, CardRow, Accounts,
       Final, Retired, CardInv, Issued, Idle
  <2> QED BY <2>1, <2>2, <2>3, <2>4 DEF IssueFinished
<1>10. ASSUME NEW r \in Runs, Prepare(r)
      PROVE  RetirementIsEmptied
  BY <1>10 DEF Prepare, At, Doing, Lifecycle, Reason, Retired, Marked, Enqueued, Leave, Stop,
     Release, Idle, Goto, RetirementIsEmptied, TypeOK, CardRow, Accounts, Final, CardInv, Issued
<1>11. ASSUME NEW r \in Runs, PutRefused(r)
      PROVE  RetirementIsEmptied
  BY <1>11 DEF PutRefused, At, Doing, LeaveUncertain, Uncertain, GivesUp, Overwrites, Lapsed,
     SetOp, Release, Stop, Idle, Leave, Fail, Pays, RetirementIsEmptied, TypeOK, CardRow, Accounts,
     Final, Retired, CardInv, Issued
<1>12. ASSUME NEW r \in Runs, FinishLifecycle(r)
      PROVE  RetirementIsEmptied
  <2>1. LifecycleFinished(r, run[r].op) /\ run[r].op \in Ops
    BY <1>12, FinishLifecycleEffect DEF TypeOK, RunState
  <2>2. CASE LeftOpen(run[r].op) /\ Stays
    BY <2>1, <2>2 DEF LifecycleFinished, LeftOpen, Stays, RetirementIsEmptied, TypeOK, CardRow,
       Accounts, Final, Retired, CardInv, Issued, Idle
  <2>3. CASE op' = op /\ Stays
    BY <2>1, <2>3 DEF LifecycleFinished, Stays, RetirementIsEmptied, TypeOK, CardRow, Accounts,
       Final, Retired, CardInv, Issued, Idle
  <2>4. CASE Overdue(run[r].op)
    BY <2>1, <2>4 DEF LifecycleFinished, Overdue, Stays, RetirementIsEmptied, TypeOK, CardRow,
       Accounts, Final, Retired, Reason, CardInv, Issued, Idle
  <2>5. CASE ClosedByOwner(run[r].op)
    BY <2>1, <2>5 DEF LifecycleFinished, ClosedByOwner, Emptied, RetirementIsEmptied, TypeOK,
       CardRow, Accounts, Final, Retired, CardInv, Issued, Idle
  <2>6. CASE Switched(run[r].op)
    BY <2>1, <2>6 DEF LifecycleFinished, Switched, RetirementIsEmptied, TypeOK, CardRow, Accounts,
       Final, Retired, Reason, CardInv, Issued, Idle
  <2> QED BY <2>1, <2>2, <2>3, <2>4, <2>5, <2>6 DEF LifecycleFinished
<1>13. ASSUME NEW r \in Runs, FinishRetirement(r)
      PROVE  RetirementIsEmptied
  <2>1. RetirementFinished(r, run[r].op) /\ run[r].op \in Ops
    BY <1>13, FinishRetirementEffect DEF TypeOK, RunState
  <2>2. CASE Reopened(run[r].op) /\ Stays
    BY <2>1, <2>2 DEF RetirementFinished, Reopened, Stays, RetirementIsEmptied, TypeOK, CardRow,
       Accounts, Final, Retired, CardInv, Issued, Idle
  <2>3. CASE WaitsForHolds(run[r].op)
    BY <2>1, <2>3 DEF RetirementFinished, WaitsForHolds, RetirementIsEmptied, TypeOK, CardRow,
       Accounts, Final, Retired, CardInv, Issued, Idle
  <2>4. CASE RetiredNow(run[r].op)
    BY <2>1, <2>4 DEF RetirementFinished, RetiredNow, Emptied, RetirementIsEmptied, TypeOK,
       CardRow, Accounts, Final, Retired, CardInv, Issued, Idle
  <2> QED BY <2>1, <2>2, <2>3, <2>4 DEF RetirementFinished
<1>14. ASSUME NEW r \in Runs, ApplyEvent(r)
      PROVE  RetirementIsEmptied
  <2>1. EventApplied(r)
    BY <1>14, ApplyEventEffect
  <2>2. CASE op' = op /\ Stays
    BY <2>1, <2>2 DEF EventApplied, Stays, RetirementIsEmptied, TypeOK, CardRow, Accounts, Final,
       Retired, CardInv, Issued, Idle
  <2>3. CASE SentBack
    BY <2>1, <2>3 DEF EventApplied, SentBack, RetirementIsEmptied, TypeOK, CardRow, Accounts,
       Final, Retired, CardInv, Issued, Idle
  <2>4. CASE MarkedByIssuer
    BY <2>1, <2>4 DEF EventApplied, MarkedByIssuer, RetirementIsEmptied, TypeOK, CardRow, Accounts,
       Final, Retired, CardInv, Issued, Idle
  <2>5. CASE ClosedByIssuer
    BY <2>1, <2>5 DEF EventApplied, ClosedByIssuer, Emptied, RetirementIsEmptied, TypeOK, CardRow,
       Accounts, Final, Retired, CardInv, Issued, Idle
  <2>6. CASE Copied
    BY <2>1, <2>6 DEF EventApplied, Copied, RetirementIsEmptied, TypeOK, CardRow, Accounts, Final,
       Retired, CardInv, Issued, Idle
  <2> QED BY <2>1, <2>2, <2>3, <2>4, <2>5, <2>6 DEF EventApplied
<1>15. ASSUME NEW r \in Runs, IssueRefused(r)
      PROVE  RetirementIsEmptied
  BY <1>15 DEF IssueRefused, At, Doing, Fail, SetOp, Pays, Stop, Idle, RetirementIsEmptied, TypeOK,
     CardRow, Accounts, Final, Retired, CardInv, Issued
<1> QED BY <1>1, <1>2, <1>3, <1>4, <1>5, <1>6, <1>7, <1>8, <1>9, <1>10, <1>11, <1>12, <1>13, <1>14,
   <1>15 DEF Next, RunStep

\* No step changes an outcome, but one that sends a retirement back.
LEMMA FinalStep == IInv /\ Next => \A s \in Ops : OutcomeStays(s)
<1> SUFFICES ASSUME IInv, Next, NEW s \in Ops PROVE OutcomeStays(s)
  OBVIOUS
<1> USE OpsAssumption, MoneyAssumption DEF IInv
<1>1. CASE \/ Allocate \/ Purchase \/ Settle \/ RowFails \/ LatePut \/ LostPut \/
              IssuerCloses \/ DeadlinePasses \/ LeaseLapses
           \/ \E r \in Runs : Discover(r) \/ Query(r) \/ StoreReference(r) \/ StoreCard(r)
              \/ Put(r) \/ FetchCard(r) \/ CreateCard(r) \/ Crash(r)
  <2>1. UNCHANGED <<op>>
    BY <1>1 DEF Allocate, Purchase, Settle, RowFails, LatePut, LostPut, IssuerCloses,
       DeadlinePasses, LeaseLapses, Discover, Query, StoreReference, StoreCard, Put, FetchCard,
       CreateCard, Crash
  <2> QED BY <2>1 DEF OutcomeStays, TypeOK, Statuses, RunState, ClaimInv, SudoInv, Exclusive,
     IssueInv, CardInv, Claimed, Active, LeasedPcs, OutcomeInv, Lifecycle, Reason, Retired
<1>2. ASSUME NEW o \in Ops, ExecuteIssue(o)
      PROVE  OutcomeStays(s)
  BY <1>2 DEF ExecuteIssue, Pays, SetOp, OutcomeStays, TypeOK, Statuses, RunState, ClaimInv,
     SudoInv, Exclusive, IssueInv, CardInv, Claimed, Active, LeasedPcs, OutcomeInv, Lifecycle,
     Reason, Retired
<1>3. ASSUME NEW o \in Ops, ExecuteCommand(o)
      PROVE  OutcomeStays(s)
  BY <1>3 DEF ExecuteCommand, SetOp, Marked, Pending, Reason, Retired, OutcomeStays, TypeOK,
     Statuses, RunState, ClaimInv, SudoInv, Exclusive, IssueInv, CardInv, Claimed, Active,
     LeasedPcs, OutcomeInv, Lifecycle
<1>4. ASSUME NEW o \in Ops, OperationLapses(o)
      PROVE  OutcomeStays(s)
  BY <1>4 DEF OperationLapses, SetOp, OutcomeStays, TypeOK, Statuses, RunState, ClaimInv, SudoInv,
     Exclusive, IssueInv, CardInv, Claimed, Active, LeasedPcs, OutcomeInv, Lifecycle, Reason,
     Retired
<1>5. ASSUME EnsureDue
      PROVE  OutcomeStays(s)
  BY <1>5 DEF EnsureDue, Marked, Enqueued, Reason, Retired, OutcomeStays, TypeOK, Statuses,
     RunState, ClaimInv, SudoInv, Exclusive, IssueInv, CardInv, Claimed, Active, LeasedPcs,
     OutcomeInv, Lifecycle
<1>6. ASSUME NEW r \in Runs, FinishIssue(r)
      PROVE  OutcomeStays(s)
  <2>1. IssueFinished(r, run[r].op) /\ run[r].op \in Ops
    BY <1>6, FinishIssueEffect DEF TypeOK, RunState
  <2>2. CASE LeftOpen(run[r].op) /\ Stays
    BY <2>1, <2>2 DEF IssueFinished, LeftOpen, Stays, OutcomeStays, TypeOK, Statuses, RunState,
       ClaimInv, SudoInv, Exclusive, IssueInv, CardInv, Claimed, Active, LeasedPcs, OutcomeInv,
       Lifecycle, Reason, Retired, Idle
  <2>3. CASE op' = op /\ Stays
    BY <2>1, <2>3 DEF IssueFinished, Stays, OutcomeStays, TypeOK, Statuses, RunState, ClaimInv,
       SudoInv, Exclusive, IssueInv, CardInv, Claimed, Active, LeasedPcs, OutcomeInv, Lifecycle,
       Reason, Retired, Idle
  <2>4. CASE IssueBooked(run[r].op)
    BY <2>1, <2>4 DEF IssueFinished, IssueBooked, OutcomeStays, TypeOK, Statuses, RunState,
       ClaimInv, SudoInv, Exclusive, IssueInv, CardInv, Claimed, Active, LeasedPcs, OutcomeInv,
       Lifecycle, Reason, Retired, Idle
  <2> QED BY <2>1, <2>2, <2>3, <2>4 DEF IssueFinished
<1>7. ASSUME NEW r \in Runs, TakeLease(r)
      PROVE  OutcomeStays(s)
  BY <1>7 DEF TakeLease, At, Doing, Goto, GivesUp, Overwrites, Lapsed, SetOp, LeaseFree, Stop,
     Idle, OutcomeStays, TypeOK, Statuses, RunState, ClaimInv, SudoInv, Exclusive, IssueInv,
     CardInv, Claimed, Active, LeasedPcs, OutcomeInv, Lifecycle, Reason, Retired
<1>8. ASSUME NEW r \in Runs, Prepare(r)
      PROVE  OutcomeStays(s)
  BY <1>8 DEF Prepare, At, Doing, Lifecycle, Reason, Retired, Marked, Enqueued, Leave, Stop,
     Release, Idle, Goto, OutcomeStays, TypeOK, Statuses, RunState, ClaimInv, SudoInv, Exclusive,
     IssueInv, CardInv, Claimed, Active, LeasedPcs, OutcomeInv
<1>9. ASSUME NEW r \in Runs, RetireReads(r)
      PROVE  OutcomeStays(s)
  BY <1>9 DEF RetireReads, At, Doing, Retired, LeaveUncertain, Uncertain, GivesUp, Overwrites,
     Lapsed, SetOp, Release, Stop, Idle, Goto, See, OutcomeStays, TypeOK, Statuses, RunState,
     ClaimInv, SudoInv, Exclusive, IssueInv, CardInv, Claimed, Active, LeasedPcs, OutcomeInv,
     Lifecycle, Reason
<1>10. ASSUME NEW r \in Runs, PutRefused(r)
      PROVE  OutcomeStays(s)
  BY <1>10 DEF PutRefused, At, Doing, LeaveUncertain, Uncertain, GivesUp, Overwrites, Lapsed,
     SetOp, Release, Stop, Idle, Leave, Fail, Pays, OutcomeStays, TypeOK, Statuses, RunState,
     ClaimInv, SudoInv, Exclusive, IssueInv, CardInv, Claimed, Active, LeasedPcs, OutcomeInv,
     Lifecycle, Reason, Retired
<1>11. ASSUME NEW r \in Runs, Confirm(r)
      PROVE  OutcomeStays(s)
  BY <1>11 DEF Confirm, At, LeaveUncertain, Uncertain, GivesUp, Overwrites, Lapsed, SetOp, Doing,
     Release, Stop, Idle, See, OutcomeStays, TypeOK, Statuses, RunState, ClaimInv, SudoInv,
     Exclusive, IssueInv, CardInv, Claimed, Active, LeasedPcs, OutcomeInv, Lifecycle, Reason,
     Retired
<1>12. ASSUME NEW r \in Runs, FinishLifecycle(r)
      PROVE  OutcomeStays(s)
  <2>1. LifecycleFinished(r, run[r].op) /\ run[r].op \in Ops
    BY <1>12, FinishLifecycleEffect DEF TypeOK, RunState
  <2>2. CASE LeftOpen(run[r].op) /\ Stays
    BY <2>1, <2>2 DEF LifecycleFinished, LeftOpen, Stays, OutcomeStays, TypeOK, Statuses, RunState,
       ClaimInv, SudoInv, Exclusive, IssueInv, CardInv, Claimed, Active, LeasedPcs, OutcomeInv,
       Lifecycle, Reason, Retired, Idle
  <2>3. CASE op' = op /\ Stays
    BY <2>1, <2>3 DEF LifecycleFinished, Stays, OutcomeStays, TypeOK, Statuses, RunState, ClaimInv,
       SudoInv, Exclusive, IssueInv, CardInv, Claimed, Active, LeasedPcs, OutcomeInv, Lifecycle,
       Reason, Retired, Idle
  <2>4. CASE Overdue(run[r].op)
    BY <2>1, <2>4 DEF LifecycleFinished, Overdue, Stays, OutcomeStays, TypeOK, Statuses, RunState,
       ClaimInv, SudoInv, Exclusive, IssueInv, CardInv, Claimed, Active, LeasedPcs, OutcomeInv,
       Lifecycle, Reason, Retired, Idle
  <2>5. CASE ClosedByOwner(run[r].op)
    BY <2>1, <2>5 DEF LifecycleFinished, ClosedByOwner, Emptied, OutcomeStays, TypeOK, Statuses,
       RunState, ClaimInv, SudoInv, Exclusive, IssueInv, CardInv, Claimed, Active, LeasedPcs,
       OutcomeInv, Lifecycle, Reason, Retired, Idle
  <2>6. CASE Switched(run[r].op)
    BY <2>1, <2>6 DEF LifecycleFinished, Switched, OutcomeStays, TypeOK, Statuses, RunState,
       ClaimInv, SudoInv, Exclusive, IssueInv, CardInv, Claimed, Active, LeasedPcs, OutcomeInv,
       Lifecycle, Reason, Retired, Idle
  <2> QED BY <2>1, <2>2, <2>3, <2>4, <2>5, <2>6 DEF LifecycleFinished
<1>13. ASSUME NEW r \in Runs, FinishRetirement(r)
      PROVE  OutcomeStays(s)
  <2>1. RetirementFinished(r, run[r].op) /\ run[r].op \in Ops
    BY <1>13, FinishRetirementEffect DEF TypeOK, RunState
  <2>2. CASE Reopened(run[r].op) /\ Stays
    BY <2>1, <2>2 DEF RetirementFinished, Reopened, Stays, OutcomeStays, TypeOK, Statuses,
       RunState, ClaimInv, SudoInv, Exclusive, IssueInv, CardInv, Claimed, Active, LeasedPcs,
       OutcomeInv, Lifecycle, Reason, Retired, Idle
  <2>3. CASE WaitsForHolds(run[r].op)
    BY <2>1, <2>3 DEF RetirementFinished, WaitsForHolds, OutcomeStays, TypeOK, Statuses, RunState,
       ClaimInv, SudoInv, Exclusive, IssueInv, CardInv, Claimed, Active, LeasedPcs, OutcomeInv,
       Lifecycle, Reason, Retired, Idle
  <2>4. CASE RetiredNow(run[r].op)
    <3>1. overran \/ op[run[r].op] = "PROCESSING"
      BY <2>1 DEF RetirementFinished, Exclusive, Claimed, LeasedPcs
    <3>2. op' = [op EXCEPT ![run[r].op] = "SUCCEEDED"] /\ Kind[run[r].op] = "RETIRE"
      BY <2>1, <2>4 DEF RetirementFinished, RetiredNow
    <3> QED BY <3>1, <3>2 DEF OutcomeStays, TypeOK
  <2> QED BY <2>1, <2>2, <2>3, <2>4 DEF RetirementFinished
<1>14. ASSUME NEW r \in Runs, ApplyEvent(r)
      PROVE  OutcomeStays(s)
  <2>1. EventApplied(r)
    BY <1>14, ApplyEventEffect
  <2>2. CASE op' = op /\ Stays
    BY <2>1, <2>2 DEF EventApplied, Stays, OutcomeStays, TypeOK, Statuses, RunState, ClaimInv,
       SudoInv, Exclusive, IssueInv, CardInv, Claimed, Active, LeasedPcs, OutcomeInv, Lifecycle,
       Reason, Retired, Idle
  <2>3. CASE SentBack
    BY <2>1, <2>3 DEF EventApplied, SentBack, OutcomeStays, TypeOK, Statuses, RunState, ClaimInv,
       SudoInv, Exclusive, IssueInv, CardInv, Claimed, Active, LeasedPcs, OutcomeInv, Lifecycle,
       Reason, Retired, Idle
  <2>4. CASE MarkedByIssuer
    BY <2>1, <2>4 DEF EventApplied, MarkedByIssuer, OutcomeStays, TypeOK, Statuses, RunState,
       ClaimInv, SudoInv, Exclusive, IssueInv, CardInv, Claimed, Active, LeasedPcs, OutcomeInv,
       Lifecycle, Reason, Retired, Idle
  <2>5. CASE ClosedByIssuer
    BY <2>1, <2>5 DEF EventApplied, ClosedByIssuer, Emptied, OutcomeStays, TypeOK, Statuses,
       RunState, ClaimInv, SudoInv, Exclusive, IssueInv, CardInv, Claimed, Active, LeasedPcs,
       OutcomeInv, Lifecycle, Reason, Retired, Idle
  <2>6. CASE Copied
    BY <2>1, <2>6 DEF EventApplied, Copied, OutcomeStays, TypeOK, Statuses, RunState, ClaimInv,
       SudoInv, Exclusive, IssueInv, CardInv, Claimed, Active, LeasedPcs, OutcomeInv, Lifecycle,
       Reason, Retired, Idle
  <2> QED BY <2>1, <2>2, <2>3, <2>4, <2>5, <2>6 DEF EventApplied
<1>15. ASSUME NEW r \in Runs, IssueRefused(r)
      PROVE  OutcomeStays(s)
  BY <1>15 DEF IssueRefused, At, Doing, Fail, SetOp, Pays, Stop, Idle, OutcomeStays, TypeOK,
     Statuses, RunState, ClaimInv, SudoInv, Exclusive, IssueInv, CardInv, Claimed, Active,
     LeasedPcs, OutcomeInv, Lifecycle, Reason, Retired
<1>16. ASSUME NEW r \in Runs, PutTimesOut(r)
      PROVE  OutcomeStays(s)
  BY <1>16 DEF PutTimesOut, At, Wanted, Doing, LeaveUncertain, Uncertain, GivesUp, Overwrites,
     Lapsed, SetOp, Stop, Idle, Release, OutcomeStays, TypeOK, Statuses, RunState, ClaimInv,
     SudoInv, Exclusive, IssueInv, CardInv, Claimed, Active, LeasedPcs, OutcomeInv, Lifecycle,
     Reason, Retired
<1>17. ASSUME NEW r \in Runs, TimesOut(r)
      PROVE  OutcomeStays(s)
  BY <1>17 DEF TimesOut, At, LeasedPcs, LeaveUncertain, Uncertain, GivesUp, Overwrites, Lapsed,
     SetOp, Doing, Stop, Idle, Release, OutcomeStays, TypeOK, Statuses, RunState, ClaimInv,
     SudoInv, Exclusive, IssueInv, CardInv, Claimed, Active, OutcomeInv, Lifecycle, Reason, Retired
<1>18. ASSUME NEW r \in Runs, Overruns(r)
      PROVE  OutcomeStays(s)
  BY <1>18 DEF Overruns, Lapsed, LeasedPcs, OutcomeStays, TypeOK, Statuses, RunState, ClaimInv,
     SudoInv, Exclusive, IssueInv, CardInv, Claimed, Active, OutcomeInv, Lifecycle, Reason, Retired
<1>19. ASSUME NEW r \in Runs, NEW o \in Ops, Claim(r, o)
      PROVE  OutcomeStays(s)
  BY <1>19 DEF Claim, At, SetOp, Idle, OutcomeStays, TypeOK, Statuses, RunState, ClaimInv, SudoInv,
     Exclusive, IssueInv, CardInv, Claimed, Active, LeasedPcs, OutcomeInv, Lifecycle, Reason,
     Retired
<1>20. ASSUME NEW r \in Runs, NEW o \in Ops, PickUncertain(r, o)
      PROVE  OutcomeStays(s)
  BY <1>20 DEF PickUncertain, At, Listed, SetOp, Idle, OutcomeStays, TypeOK, Statuses, RunState,
     ClaimInv, SudoInv, Exclusive, IssueInv, CardInv, Claimed, Active, LeasedPcs, OutcomeInv,
     Lifecycle, Reason, Retired
<1> QED BY <1>1, <1>2, <1>3, <1>4, <1>5, <1>6, <1>7, <1>8, <1>9, <1>10, <1>11, <1>12, <1>13, <1>14,
   <1>15, <1>16, <1>17, <1>18, <1>19, <1>20 DEF Next, RunStep

\* Each posting moves what it takes.
LEMMA MoneyStep == IInv /\ Next => MoneyMoves
<1> SUFFICES ASSUME IInv, Next PROVE MoneyMoves
  OBVIOUS
<1> USE OpsAssumption, MoneyAssumption DEF IInv
<1>1. CASE \/ EnsureDue \/ RowFails \/ LatePut \/ LostPut \/ IssuerCloses \/ DeadlinePasses
              \/ LeaseLapses
           \/ \E o \in Ops : ExecuteCommand(o) \/ OperationLapses(o)
           \/ \E r \in Runs : Discover(r) \/ Query(r) \/ StoreReference(r) \/ StoreCard(r)
              \/ TakeLease(r) \/ Prepare(r) \/ RetireReads(r) \/ Put(r) \/ Confirm(r) \/
              FetchCard(r) \/ CreateCard(r) \/ PutTimesOut(r) \/ TimesOut(r) \/ Crash(r) \/
              Overruns(r)
           \/ \E r \in Runs, o \in Ops : Claim(r, o) \/ PickUncertain(r, o)
  <2>1. UNCHANGED <<money>>
    BY <1>1 DEF ExecuteCommand, OperationLapses, EnsureDue, RowFails, LatePut, LostPut,
       IssuerCloses, DeadlinePasses, LeaseLapses, Discover, Query, StoreReference, StoreCard,
       TakeLease, Prepare, RetireReads, Put, Confirm, FetchCard, CreateCard, PutTimesOut, TimesOut,
       Crash, Overruns, Claim, PickUncertain
  <2> QED BY <2>1 DEF MoneyMoves, TypeOK, Accounts, Stays, Sum
<1>2. ASSUME NEW o \in Ops, ExecuteIssue(o)
      PROVE  MoneyMoves
  BY <1>2 DEF ExecuteIssue, Pays, SetOp, MoneyMoves, TypeOK, Accounts, Stays, Sum
<1>3. ASSUME Allocate
      PROVE  MoneyMoves
  BY <1>3 DEF Allocate, Pays, MoneyMoves, TypeOK, Accounts, Stays, Sum
<1>4. ASSUME Purchase
      PROVE  MoneyMoves
  BY <1>4 DEF Purchase, Pays, Reason, Retired, MoneyMoves, TypeOK, Accounts, Stays, Sum
<1>5. ASSUME Settle
      PROVE  MoneyMoves
  BY <1>5 DEF Settle, Pays, MoneyMoves, TypeOK, Accounts, Stays, Sum
<1>6. ASSUME NEW r \in Runs, FinishIssue(r)
      PROVE  MoneyMoves
  <2>1. IssueFinished(r, run[r].op) /\ run[r].op \in Ops
    BY <1>6, FinishIssueEffect DEF TypeOK, RunState
  <2>2. CASE LeftOpen(run[r].op) /\ Stays
    BY <2>1, <2>2 DEF IssueFinished, LeftOpen, Stays, MoneyMoves, TypeOK, Accounts, Sum, Idle
  <2>3. CASE op' = op /\ Stays
    BY <2>1, <2>3 DEF IssueFinished, Stays, MoneyMoves, TypeOK, Accounts, Sum, Idle
  <2>4. CASE IssueBooked(run[r].op)
    <3>1. \A a \in Accounts : money[a] \in Nat
      BY DEF TypeOK
    <3>2. \/ money' = money
          \/ /\ money'.reserve = money.reserve - Allocation - Fee
             /\ money'.funds = money.funds + Allocation /\ money'.fees = money.fees + Fee
             /\ UNCHANGED <<money.wallet, money.held, money.spent>>
      BY <2>4 DEF IssueBooked, TypeOK, Accounts
    <3> QED BY <3>1, <3>2 DEF MoneyMoves, Sum, Accounts
  <2> QED BY <2>1, <2>2, <2>3, <2>4 DEF IssueFinished
<1>7. ASSUME NEW r \in Runs, PutRefused(r)
      PROVE  MoneyMoves
  BY <1>7 DEF PutRefused, At, Doing, LeaveUncertain, Uncertain, GivesUp, Overwrites, Lapsed, SetOp,
     Release, Stop, Idle, Leave, Fail, Pays, MoneyMoves, TypeOK, Accounts, Stays, Sum
<1>8. ASSUME NEW r \in Runs, FinishLifecycle(r)
      PROVE  MoneyMoves
  <2>1. LifecycleFinished(r, run[r].op) /\ run[r].op \in Ops
    BY <1>8, FinishLifecycleEffect DEF TypeOK, RunState
  <2>2. CASE LeftOpen(run[r].op) /\ Stays
    BY <2>1, <2>2 DEF LifecycleFinished, LeftOpen, Stays, MoneyMoves, TypeOK, Accounts, Sum, Idle
  <2>3. CASE op' = op /\ Stays
    BY <2>1, <2>3 DEF LifecycleFinished, Stays, MoneyMoves, TypeOK, Accounts, Sum, Idle
  <2>4. CASE Overdue(run[r].op)
    BY <2>1, <2>4 DEF LifecycleFinished, Overdue, Stays, MoneyMoves, TypeOK, Accounts, Sum, Idle
  <2>5. CASE ClosedByOwner(run[r].op)
    BY <2>1, <2>5 DEF LifecycleFinished, ClosedByOwner, Emptied, MoneyMoves, TypeOK, Accounts,
       Stays, Sum, Idle
  <2>6. CASE Switched(run[r].op)
    BY <2>1, <2>6 DEF LifecycleFinished, Switched, MoneyMoves, TypeOK, Accounts, Stays, Sum, Idle
  <2> QED BY <2>1, <2>2, <2>3, <2>4, <2>5, <2>6 DEF LifecycleFinished
<1>9. ASSUME NEW r \in Runs, FinishRetirement(r)
      PROVE  MoneyMoves
  <2>1. RetirementFinished(r, run[r].op) /\ run[r].op \in Ops
    BY <1>9, FinishRetirementEffect DEF TypeOK, RunState
  <2>2. CASE Reopened(run[r].op) /\ Stays
    BY <2>1, <2>2 DEF RetirementFinished, Reopened, Stays, MoneyMoves, TypeOK, Accounts, Sum, Idle
  <2>3. CASE WaitsForHolds(run[r].op)
    BY <2>1, <2>3 DEF RetirementFinished, WaitsForHolds, MoneyMoves, TypeOK, Accounts, Stays, Sum,
       Idle
  <2>4. CASE RetiredNow(run[r].op)
    <3>1. \A a \in Accounts : money[a] \in Nat
      BY DEF TypeOK
    <3>2. Emptied("retire")
      BY <2>4 DEF RetiredNow
    <3> QED BY <3>1, <3>2 DEF Emptied, MoneyMoves, Sum, Accounts
  <2> QED BY <2>1, <2>2, <2>3, <2>4 DEF RetirementFinished
<1>10. ASSUME NEW r \in Runs, ApplyEvent(r)
      PROVE  MoneyMoves
  <2>1. EventApplied(r)
    BY <1>10, ApplyEventEffect
  <2>2. CASE op' = op /\ Stays
    BY <2>1, <2>2 DEF EventApplied, Stays, MoneyMoves, TypeOK, Accounts, Sum, Idle
  <2>3. CASE SentBack
    BY <2>1, <2>3 DEF EventApplied, SentBack, MoneyMoves, TypeOK, Accounts, Stays, Sum, Idle
  <2>4. CASE MarkedByIssuer
    BY <2>1, <2>4 DEF EventApplied, MarkedByIssuer, MoneyMoves, TypeOK, Accounts, Stays, Sum, Idle
  <2>5. CASE ClosedByIssuer
    BY <2>1, <2>5 DEF EventApplied, ClosedByIssuer, Emptied, MoneyMoves, TypeOK, Accounts, Stays,
       Sum, Idle
  <2>6. CASE Copied
    BY <2>1, <2>6 DEF EventApplied, Copied, MoneyMoves, TypeOK, Accounts, Stays, Sum, Idle
  <2> QED BY <2>1, <2>2, <2>3, <2>4, <2>5, <2>6 DEF EventApplied
<1>11. ASSUME NEW r \in Runs, IssueRefused(r)
      PROVE  MoneyMoves
  BY <1>11 DEF IssueRefused, At, Doing, Fail, SetOp, Pays, Stop, Idle, MoneyMoves, TypeOK,
     Accounts, Stays, Sum
<1> QED BY <1>1, <1>2, <1>3, <1>4, <1>5, <1>6, <1>7, <1>8, <1>9, <1>10, <1>11 DEF Next, RunStep

\* "Stale resumes and callbacks cannot restore usage": a retired card that is off
\* here never becomes usable again.
THEOREM StaysRetired == Spec => NeverRevived
<1>1. IInv /\ Next => (Retired /\ card.status # "ACTIVE" => card'.status # "ACTIVE")
  BY RevivalStep
<1>2. IInv /\ [Next]_vars => [Retired /\ card.status # "ACTIVE" => card'.status # "ACTIVE"]_vars
  BY <1>1
<1> QED BY <1>2, Invariant, PTL DEF Spec, NeverRevived

\* Whoever ends the retirement of a card, the worker, its owner or the issuer, the
\* step leaves nothing on the card and waits for its holds.
THEOREM RetirementLeavesNothing == Spec => RetirementEmpties
<1>1. IInv /\ Next =>
        ((/\ card'.retirement \in Final
          /\ journals' \ journals # Issued
          /\ card.retirement \in Final => money.funds = 0)
         => money'.funds = 0 /\ money'.held = 0)
  BY EmptyingStep DEF RetirementIsEmptied
<1>2. IInv /\ [Next]_vars =>
        [(/\ card'.retirement \in Final
          /\ journals' \ journals # Issued
          /\ card.retirement \in Final => money.funds = 0)
         => money'.funds = 0 /\ money'.held = 0]_vars
  BY <1>1
<1> QED BY <1>2, Invariant, PTL DEF Spec, RetirementEmpties

\* An outcome the owner was told is final, in whatever order runs, callbacks,
\* timeouts and crashes meet: a retirement that Sudo undid is carried out again, and
\* that of a command whose run has outlasted its claim may be written over.
THEOREM OutcomesAreFinal == Spec => OutcomeIsFinal
<1>1. IInv /\ Next =>
        \A o \in Ops : op[o] \in {"SUCCEEDED", "FAILED", "SUPERSEDED"} =>
          \/ op'[o] = op[o]
          \/ Kind[o] = "RETIRE" /\ op'[o] = "QUEUED"
          \/ overran /\ Kind[o] # "ISSUE"
  BY FinalStep DEF OutcomeStays
<1>2. IInv /\ [Next]_vars =>
        [\A o \in Ops : op[o] \in {"SUCCEEDED", "FAILED", "SUPERSEDED"} =>
          \/ op'[o] = op[o]
          \/ Kind[o] = "RETIRE" /\ op'[o] = "QUEUED"
          \/ overran /\ Kind[o] # "ISSUE"]_vars
  BY <1>1
<1> QED BY <1>2, Invariant, PTL DEF Spec, OutcomeIsFinal

\* Booking an issuance, giving up on it and returning an allocation by any of its
\* three journals neither makes nor loses money.
THEOREM MoneyConserved == Spec => []MoneyIsConserved
<1>1. Init => MoneyIsConserved
  BY MoneyAssumption DEF Init, MoneyIsConserved
<1>2. IInv /\ MoneyIsConserved /\ [Next]_vars => MoneyIsConserved'
  BY MoneyStep DEF vars, MoneyIsConserved, MoneyMoves, Sum
<1> QED BY <1>1, <1>2, Invariant, PTL DEF Spec
===============================================================================
