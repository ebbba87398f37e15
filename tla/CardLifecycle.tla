----------------------------- MODULE CardLifecycle -----------------------------
(***************************************************************************)
(* The life of one virtual card: its issuance, PAUSE, RESUME and CANCEL at *)
(* Sudo, its permanent retirement, and the card.updated webhooks, when     *)
(* FinanceWorker and FinanceEvents run several times at once, calls time   *)
(* out and take effect late, and servers stop between two awaits.          *)
(*                                                                         *)
(* A transaction under the owner's row lock is one step.  The card's       *)
(* provider lease orders the runs that write to Sudo.  Purchases are the   *)
(* counter money.held: CardAuthorizations has them in full.                *)
(***************************************************************************)
EXTENDS Integers, FiniteSets

CONSTANTS
    Ops,          \* FinanceOperation rows of the card
    Kind,         \* Kind[o]: ISSUE, PAUSE, RESUME, CANCEL or RETIRE
    AutoRetire,   \* the RETIRE operation with the key retire_<card>
    Runs,         \* concurrent runs of the finance jobs
    Allocation,   \* what ISSUE moves to the card
    Fee,          \* the issuance fee
    Deposit,      \* the wallet at the start
    MaxFaults     \* timeouts, crashes, failed rows and runs that outlast a lease

ASSUME OpsAssumption ==
    /\ Kind \in [Ops -> {"ISSUE", "PAUSE", "RESUME", "CANCEL", "RETIRE"}]
    /\ AutoRetire \in Ops /\ Kind[AutoRetire] = "RETIRE" /\ "none" \notin Ops
ASSUME MoneyAssumption ==
    /\ Allocation \in Nat /\ Fee \in Nat /\ Deposit \in Nat
    /\ MaxFaults \in Nat

VARIABLES
    card,     \* cards row: status, ext (externalReferenceId is set), retirement
    lease,    \* cards.providerLeaseOwner while it is valid, or "none"
    op,       \* op[o]: FinanceOperation.status, "none" without a row
    named,    \* ISSUE operations with a providerReference
    money,    \* ledger accounts: wallet, reserve, funds, held, spent, fees
    journals, \* references of the journals issue: retire: close: issuer-close:
    due,      \* the card's deadline has passed
    run,      \* run[r]: what a run of the jobs is doing
    hint,     \* a card.updated row is RECEIVED or RETRY
    stuck,    \* a transaction's row names the card and is RETRY or REVIEW
    sudo,     \* Sudo: the card's status and the PUTs still under way
    overran,  \* some run went on after its claim or its lease had run out
    faults

vars == <<card, lease, op, named, money, journals, due, run, hint, stuck, sudo,
          overran, faults>>

Issued == {"issue"}
Final == {"RETIRED", "CLOSED"}
Idle == [pc |-> "idle", op |-> AutoRetire, seen |-> "none"]
LeasedPcs == {"leased", "putting", "confirm", "finish"}
Pcs == LeasedPcs \cup {"idle", "claimed", "reclaimed", "created", "named", "booking",
                       "lookup", "query", "matched", "fetched"}

CardRow  == [status : {"none", "ACTIVE", "PAUSED", "CANCELLED"}, ext : BOOLEAN,
             retirement : {"none", "RETIRING"} \cup Final]
Statuses == {"none", "QUEUED", "PROCESSING", "UNKNOWN", "PENDING",
             "SUCCEEDED", "FAILED", "SUPERSEDED"}
Accounts == {"wallet", "reserve", "funds", "held", "spent", "fees"}
Seen     == {"none", "active", "inactive", "canceled"}
RunState == [pc : Pcs, op : Ops, seen : Seen]

TypeOK ==
    /\ card \in CardRow /\ op \in [Ops -> Statuses] /\ named \subseteq Ops
    /\ lease \in Ops \cup {"none"}
    /\ money \in [Accounts -> Nat]
    /\ journals \subseteq {"issue", "retire", "close", "issuer-close"}
    /\ due \in BOOLEAN /\ hint \in BOOLEAN /\ overran \in BOOLEAN
    /\ stuck \in BOOLEAN /\ faults \in 0..MaxFaults
    /\ run \in [Runs -> RunState]
    /\ sudo \in [status : Seen, late : SUBSET Seen]

Init ==
    /\ card = [status |-> "none", ext |-> FALSE, retirement |-> "none"]
    /\ lease = "none" /\ op = [o \in Ops |-> "none"] /\ named = {}
    /\ money = [wallet |-> Deposit, reserve |-> 0, funds |-> 0, held |-> 0,
                spent |-> 0, fees |-> 0]
    /\ journals = {} /\ due = FALSE /\ hint = FALSE /\ overran = FALSE /\ faults = 0
    /\ stuck = FALSE
    /\ run = [r \in Runs |-> Idle]
    /\ sudo = [status |-> "none", late |-> {}]

(***************************************************************************)
(* What several handlers share.                                            *)
(***************************************************************************)
Retired == card.retirement # "none"
\* FinancePolicy.snapshot gives a reason: retired already, or overdue.
Reason == Retired \/ due

\* Customer accounts must cover what is taken from them.
Pays(from, to, amount) ==
    /\ money[from] >= amount
    /\ money' = [money EXCEPT ![from] = @ - amount, ![to] = @ + amount]

\* The allocation goes back to the wallet in a journal of its own.
PaysBack(journal) ==
    IF money.funds = 0 THEN UNCHANGED <<money, journals>>
    ELSE /\ journal \notin journals /\ journals' = journals \cup {journal}
         /\ Pays("funds", "wallet", money.funds)
CanPayBack(journal) == money.funds = 0 \/ journal \notin journals

\* FinanceRetirement.mark without its operation; the status stays as it is.
Marked(c) == IF c.retirement = "none" THEN [c EXCEPT !.retirement = "RETIRING"] ELSE c

\* One RETIRE operation is enough, unless all of them failed.
Enqueued(ops) ==
    IF \E o \in Ops : Kind[o] = "RETIRE" /\ ops[o] \notin {"none", "FAILED", "SUPERSEDED"}
    THEN ops ELSE [ops EXCEPT ![AutoRetire] = "QUEUED"]

SetOp(o, s) == op' = [op EXCEPT ![o] = s]
Goto(r, pc) == run' = [run EXCEPT ![r].pc = pc]
See(r, pc)  == run' = [run EXCEPT ![r].pc = pc, ![r].seen = sudo.status]
Stop(r)     == run' = [run EXCEPT ![r] = Idle]
At(r, pc)   == run[r].pc = pc
Doing(r)    == Kind[run[r].op]
Lifecycle   == {"PAUSE", "RESUME", "CANCEL"}
Wanted(k)   == CASE k = "RESUME" -> "active" [] k = "CANCEL" -> "canceled"
                 [] OTHER -> "inactive"

Release(r) == lease' = IF lease = run[r].op THEN "none" ELSE lease

Lapsed(o) == [op EXCEPT ![o] = IF @ = "PROCESSING" THEN "UNKNOWN" ELSE @]

\* Any other error.  FinanceWorker.process looks at what it claimed; the catch of a
\* retirement, and reconcile's, write over whatever the operation has become.
GivesUp(r)    == op' = Lapsed(run[r].op) /\ Stop(r)
Overwrites(r) == SetOp(run[r].op, "UNKNOWN") /\ Stop(r)
Uncertain(r)  == IF Doing(r) = "RETIRE" THEN Overwrites(r) ELSE GivesUp(r)

(***************************************************************************)
(* FinanceWorker.fail: a definitive refusal.                               *)
(***************************************************************************)
Fail(o) ==
    IF op[o] \in {"FAILED", "SUCCEEDED"} THEN UNCHANGED <<op, card, money>>
    ELSE /\ SetOp(o, "FAILED")
         /\ IF Kind[o] = "ISSUE"
            THEN /\ Pays("reserve", "wallet", Allocation + Fee)
                 /\ card' = [card EXCEPT !.status = "CANCELLED"]
            ELSE UNCHANGED <<card, money>>

(***************************************************************************)
(* FinanceService.execute.                                                 *)
(***************************************************************************)
Pending == \E o \in Ops : op[o] \in {"QUEUED", "PROCESSING", "UNKNOWN"}

ExecuteIssue(o) ==
    /\ Kind[o] = "ISSUE" /\ op[o] = "none" /\ card.status = "none"
    /\ Pays("wallet", "reserve", Allocation + Fee)
    /\ card' = [card EXCEPT !.status = "PAUSED"]
    /\ SetOp(o, "QUEUED")
    /\ UNCHANGED <<lease, named, journals, due, run, hint, stuck, sudo, overran, faults>>

\* A command on an open card without another pending action; a retired or
\* overdue card accepts RETIRE and CANCEL only, and both mark it at once.
ExecuteCommand(o) ==
    /\ Kind[o] # "ISSUE" /\ o # AutoRetire /\ op[o] = "none"
    /\ card.status \notin {"none", "CANCELLED"}
    /\ Reason => Kind[o] \in {"RETIRE", "CANCEL"}
    /\ Kind[o] = "CANCEL" => money.held = 0
    /\ ~Pending
    /\ card' = IF Kind[o] \in {"RETIRE", "CANCEL"} THEN Marked(card) ELSE card
    /\ SetOp(o, "QUEUED")
    /\ UNCHANGED <<lease, named, money, journals, due, run, hint, stuck, sudo, overran, faults>>

\* ALLOCATE, at once; a unit at a time.
Allocate ==
    /\ card.status \notin {"none", "CANCELLED"} /\ card.ext /\ ~Reason /\ ~Pending
    /\ Pays("wallet", "funds", 1)
    /\ UNCHANGED <<card, lease, op, named, journals, due, run, hint, stuck, sudo, overran, faults>>

(***************************************************************************)
(* FinanceRetirement.scan and ensureDue.                                   *)
(***************************************************************************)
EnsureDue ==
    /\ card.status \notin {"none", "CANCELLED"} /\ Reason
    /\ card' = Marked(card) /\ op' = Enqueued(op)
    /\ card' # card \/ op' # op
    /\ UNCHANGED <<lease, named, money, journals, due, run, hint, stuck, sudo, overran, faults>>

(***************************************************************************)
(* FinanceWorker: picking an operation.                                    *)
(***************************************************************************)
Claim(r, o) ==
    /\ At(r, "idle") /\ op[o] = "QUEUED"
    /\ SetOp(o, "PROCESSING")
    /\ run' = [run EXCEPT ![r] = [Idle EXCEPT !.pc = "claimed", !.op = o]]
    /\ UNCHANGED <<card, lease, named, money, journals, due, hint, stuck, sudo, overran, faults>>

\* Mutant: what waits for a settlement is not on the list.
ListedUnknown(o) == op[o] = "UNKNOWN"
Listed(o) == op[o] \in {"UNKNOWN", "PENDING"}

\* reconcile: a retirement is claimed again; the others are only read.
PickUncertain(r, o) ==
    /\ At(r, "idle") /\ Listed(o)
    /\ CASE Kind[o] = "RETIRE" ->
              /\ SetOp(o, "PROCESSING")
              /\ run' = [run EXCEPT ![r] = [Idle EXCEPT !.pc = "reclaimed", !.op = o]]
         [] Kind[o] = "ISSUE" ->
              /\ run' = [run EXCEPT ![r] = [Idle EXCEPT !.op = o,
                           !.pc = IF o \in named THEN "query" ELSE "lookup"]]
              /\ UNCHANGED op
         [] OTHER ->
              /\ card.ext
              /\ run' = [run EXCEPT ![r] = [Idle EXCEPT !.pc = "query", !.op = o]]
              /\ UNCHANGED op
    /\ UNCHANGED <<card, lease, named, money, journals, due, hint, stuck, sudo, overran, faults>>

\* discover: the card is found by the operation it carries.
Discover(r) ==
    /\ At(r, "lookup")
    /\ IF sudo.status = "none" THEN Stop(r) /\ UNCHANGED named
       ELSE Goto(r, "query") /\ named' = named \cup {run[r].op}
    /\ UNCHANGED <<card, lease, op, money, journals, due, hint, stuck, sudo, overran, faults>>

Query(r) ==
    /\ At(r, "query")
    /\ IF Doing(r) = "ISSUE" THEN See(r, "booking")
       ELSE IF sudo.status = Wanted(Doing(r)) THEN See(r, "matched")
       ELSE Stop(r)
    /\ UNCHANGED <<card, lease, op, named, money, journals, due, hint, stuck, sudo, overran, faults>>

(***************************************************************************)
(* ISSUE.                                                                  *)
(***************************************************************************)
\* The funding source is not what it should be, or Sudo refuses the card.
IssueRefused(r) ==
    /\ At(r, "claimed") /\ Doing(r) = "ISSUE"
    /\ Fail(run[r].op)
    /\ Stop(r)
    /\ UNCHANGED <<lease, named, journals, due, hint, stuck, sudo, overran, faults>>

CreateCard(r) ==
    /\ At(r, "claimed") /\ Doing(r) = "ISSUE"
    /\ \E s \in {"active", "inactive"} :
          /\ sudo' = [sudo EXCEPT !.status = s]
          /\ run' = [run EXCEPT ![r].pc = "created", ![r].seen = s]
    /\ UNCHANGED <<card, lease, op, named, money, journals, due, hint, stuck, overran, faults>>

StoreReference(r) ==
    /\ At(r, "created") /\ Goto(r, "named") /\ named' = named \cup {run[r].op}
    /\ UNCHANGED <<card, lease, op, money, journals, due, hint, stuck, sudo, overran, faults>>

StoreCard(r) ==
    /\ At(r, "named") /\ Goto(r, "booking") /\ card' = [card EXCEPT !.ext = TRUE]
    /\ UNCHANGED <<lease, op, named, money, journals, due, hint, stuck, sudo, overran, faults>>

BookIssue ==
    IF "issue" \in journals THEN UNCHANGED <<money, journals>>
    ELSE /\ money' = [money EXCEPT !.reserve = @ - Allocation - Fee,
                                   !.funds = @ + Allocation, !.fees = @ + Fee]
         /\ journals' = journals \cup Issued

\* finishIssue, from the POST's answer or from a later GET.
FinishIssue(r) ==
    LET o == run[r].op IN
    /\ At(r, "booking")
    /\ IF run[r].seen = "canceled"
       THEN Uncertain(r) /\ UNCHANGED <<card, money, journals>>
       ELSE /\ Stop(r)
            /\ IF op[o] \in {"SUCCEEDED", "FAILED"} THEN UNCHANGED <<op, card, money, journals>>
               ELSE /\ BookIssue
                    /\ card' = [card EXCEPT !.ext = TRUE, !.status =
                         IF run[r].seen = "active" /\ ~Retired THEN "ACTIVE" ELSE "PAUSED"]
                    /\ SetOp(o, IF run[r].seen = "active" THEN "SUCCEEDED" ELSE "PENDING")
    /\ UNCHANGED <<lease, named, due, hint, stuck, sudo, overran, faults>>

(***************************************************************************)
(* The provider lease, and the writes it orders.                           *)
(***************************************************************************)
\* Mutant: a provider write does not wait for the lease.
LeaseFreeAlways == TRUE
LeaseFree == lease = "none"

TakeLease(r) ==
    /\ At(r, "reclaimed") \/ (At(r, "claimed") /\ Doing(r) # "ISSUE")
    /\ IF LeaseFree
       THEN lease' = run[r].op /\ Goto(r, "leased") /\ UNCHANGED op
       ELSE /\ IF At(r, "claimed") THEN GivesUp(r) ELSE Overwrites(r)
            /\ UNCHANGED lease
    /\ UNCHANGED <<card, named, money, journals, due, hint, stuck, sudo, overran, faults>>

\* A run that has the lease ends, and gives it back.
Leave(r) == Stop(r) /\ Release(r)
LeaveUncertain(r) == Uncertain(r) /\ Release(r)

\* lifecycleLeased: a RESUME is superseded by retirement, else Sudo is asked.
Prepare(r) ==
    /\ At(r, "leased") /\ Doing(r) \in Lifecycle
    /\ IF Doing(r) = "RESUME" /\ (Reason \/ card.status = "CANCELLED")
       THEN /\ card' = IF card.status = "CANCELLED" THEN card ELSE Marked(card)
            /\ op' = [(IF card.status = "CANCELLED" THEN op ELSE Enqueued(op))
                         EXCEPT ![run[r].op] = "SUPERSEDED"]
            /\ Leave(r)
       ELSE Goto(r, "putting") /\ UNCHANGED <<card, op, lease>>
    /\ UNCHANGED <<named, money, journals, due, hint, stuck, sudo, overran, faults>>

\* FinanceRetirement.process reads Sudo's truth first.
RetireReads(r) ==
    /\ At(r, "leased") /\ Doing(r) = "RETIRE"
    /\ IF ~Retired \/ ~card.ext THEN LeaveUncertain(r)
       ELSE /\ IF sudo.status = "active" THEN Goto(r, "putting") ELSE See(r, "finish")
            /\ UNCHANGED <<op, lease>>
    /\ UNCHANGED <<card, named, money, journals, due, hint, stuck, sudo, overran, faults>>

\* Sudo reports the change by card.updated, or the webhook is lost; one that comes
\* late is a row that is not picked yet.
Reports == hint' \in {hint, TRUE}

\* PUT /cards/:id; a canceled card stays canceled.
Put(r) ==
    LET s == Wanted(Doing(r)) IN
    /\ At(r, "putting") /\ sudo.status # "canceled"
    /\ sudo' = [sudo EXCEPT !.status = s]
    /\ IF sudo.status = s THEN UNCHANGED hint ELSE Reports
    /\ Goto(r, IF Doing(r) = "RETIRE" THEN "confirm" ELSE "finish")
    /\ UNCHANGED <<card, lease, op, named, money, journals, due, stuck, overran, faults>>

\* Sudo refuses it: fail for a command, UNKNOWN for a retirement.
PutRefused(r) ==
    /\ At(r, "putting")
    /\ sudo.status = "canceled" \/ Doing(r) = "CANCEL"
    /\ IF Doing(r) = "RETIRE" THEN LeaveUncertain(r) /\ UNCHANGED <<card, money>>
       ELSE Fail(run[r].op) /\ Leave(r)
    /\ UNCHANGED <<named, journals, due, hint, stuck, sudo, overran, faults>>

\* No answer in eight seconds: the PUT may still take effect.
PutTimesOut(r) ==
    /\ At(r, "putting") /\ faults < MaxFaults /\ faults' = faults + 1
    /\ sudo' = [sudo EXCEPT !.late = @ \cup {Wanted(Doing(r))}]
    /\ LeaveUncertain(r)
    /\ UNCHANGED <<card, named, money, journals, due, hint, stuck, overran>>

Confirm(r) ==
    /\ At(r, "confirm")
    /\ IF sudo.status = "active" THEN LeaveUncertain(r)
       ELSE See(r, "finish") /\ UNCHANGED <<op, lease>>
    /\ UNCHANGED <<card, named, money, journals, due, hint, stuck, sudo, overran, faults>>

(***************************************************************************)
(* finishLifecycle.                                                        *)
(***************************************************************************)
\* Mutant: a RESUME that Sudo has carried out is not looked at again.
OvertakenNever(k) == FALSE
Overtaken(k) == k = "RESUME" /\ (Reason \/ card.status = "CANCELLED")

\* Mutant: the outcome another run wrote meanwhile is not read.
DoneNever(o) == FALSE
Done(o) == op[o] = "SUCCEEDED"

FinishTx(o) ==
    IF Done(o) THEN UNCHANGED <<op, card, money, journals>>
    ELSE IF Overtaken(Kind[o])
    THEN SetOp(o, "SUPERSEDED") /\ UNCHANGED <<card, money, journals>>
    ELSE /\ SetOp(o, "SUCCEEDED")
         /\ CASE Kind[o] = "CANCEL" ->
                   /\ PaysBack("close")
                   /\ card' = [card EXCEPT !.status = "CANCELLED", !.retirement = "CLOSED"]
              [] OTHER ->
                   /\ card' = [card EXCEPT !.status =
                                 IF Kind[o] = "RESUME" THEN "ACTIVE" ELSE "PAUSED"]
                   /\ UNCHANGED <<money, journals>>
FinishThrows(o) == ~Done(o) /\ Kind[o] = "CANCEL"
                   /\ (money.held > 0 \/ ~CanPayBack("close"))

\* By the run that has the lease, or by reconcile, which does not take it.
FinishLifecycle(r) ==
    LET o == run[r].op IN
    /\ At(r, "finish") \/ At(r, "matched")
    /\ Kind[o] \in Lifecycle
    /\ IF FinishThrows(o) THEN Uncertain(r) /\ UNCHANGED <<card, money, journals>>
       ELSE FinishTx(o) /\ Stop(r)
    /\ IF At(r, "finish") THEN Release(r) ELSE UNCHANGED lease
    /\ UNCHANGED <<named, due, hint, stuck, sudo, overran, faults>>

(***************************************************************************)
(* The transaction of FinanceRetirement.process.                           *)
(***************************************************************************)
\* Mutant: the allocation goes back while purchases are still pending.
WaitsForNothing == FALSE
\* Held purchases, and transactions of the card whose rows are not PROCESSED.
WaitsForSettlement == money.held > 0 \/ stuck

FinishRetirement(r) ==
    LET o == run[r].op
        canceled == run[r].seen = "canceled"
    IN
    /\ At(r, "finish") /\ Kind[o] = "RETIRE"
    /\ CASE WaitsForSettlement ->
              /\ card' = [card EXCEPT !.status = IF canceled THEN "CANCELLED" ELSE "PAUSED"]
              /\ SetOp(o, "PENDING") /\ Leave(r)
              /\ UNCHANGED <<money, journals>>
         [] ~WaitsForSettlement /\ CanPayBack("retire") ->
              /\ card' = [card EXCEPT !.status = IF canceled THEN "CANCELLED" ELSE "PAUSED",
                                      !.retirement = IF canceled THEN "CLOSED" ELSE "RETIRED"]
              /\ PaysBack("retire")
              /\ SetOp(o, "SUCCEEDED") /\ Leave(r)
         [] OTHER -> LeaveUncertain(r) /\ UNCHANGED <<card, money, journals>>
    /\ UNCHANGED <<named, due, hint, stuck, sudo, overran, faults>>

(***************************************************************************)
(* FinanceEvents: card.updated and card.terminated.                        *)
(***************************************************************************)
\* A row that is not PROCESSED is picked, by several runs at once too, and the
\* provider's card fetched before the owner's lock is taken.  A card that is not
\* stored here leaves the row in REVIEW; a GET that fails leaves it to be tried again.
Unprocessed == hint \/ \E r \in Runs : At(r, "fetched")
FetchCard(r) ==
    /\ At(r, "idle") /\ Unprocessed
    /\ IF card.ext
       THEN run' = [run EXCEPT ![r] = [Idle EXCEPT !.pc = "fetched", !.seen = sudo.status]]
       ELSE UNCHANGED run
    /\ hint' = FALSE
    /\ UNCHANGED <<card, lease, op, named, money, journals, due, stuck, sudo, overran, faults>>

\* Mutant: a callback of an active card is written whatever the card is here.
BlocksRevivalNever(r) == FALSE
\* A retired card that Sudo says is active goes back to be retired.
BlocksRevival(r) == Retired /\ run[r].seen = "active"

RetireAgain ==
    LET again == [o \in Ops |-> IF Kind[o] = "RETIRE" /\ op[o] = "SUCCEEDED"
                                THEN "QUEUED" ELSE op[o]]
    IN /\ card' = [card EXCEPT !.retirement = "RETIRING"]
       /\ op' = Enqueued(again)
       /\ UNCHANGED <<money, journals, hint>>

CloseByIssuer ==
    IF money.held > 0
    THEN /\ card' = [Marked(card) EXCEPT !.status = "PAUSED"]
         /\ hint' = TRUE
         /\ UNCHANGED <<op, money, journals>>
    ELSE IF CanPayBack("issuer-close")
    THEN /\ PaysBack("issuer-close")
         /\ card' = [card EXCEPT !.status = "CANCELLED", !.retirement = "CLOSED"]
         /\ UNCHANGED <<op, hint>>
    ELSE hint' = TRUE /\ UNCHANGED <<card, op, money, journals>>

ApplyEvent(r) ==
    /\ At(r, "fetched")
    /\ CASE BlocksRevival(r) -> RetireAgain
         [] run[r].seen = "canceled" -> CloseByIssuer
         [] OTHER -> /\ card' = [card EXCEPT !.status =
                                   IF run[r].seen = "active" THEN "ACTIVE" ELSE "PAUSED"]
                     /\ UNCHANGED <<op, money, journals, hint>>
    /\ Stop(r)
    /\ UNCHANGED <<lease, named, due, stuck, sudo, overran, faults>>

(***************************************************************************)
(* Purchases, Sudo, time and failures.                                     *)
(***************************************************************************)
\* The gateway approves a purchase of 1 on an active card that is not due.
Purchase ==
    /\ card.status = "ACTIVE" /\ ~Reason /\ sudo.status = "active"
    /\ Pays("funds", "held", 1)
    /\ UNCHANGED <<card, lease, op, named, journals, due, run, hint, stuck, sudo, overran, faults>>
\* A capture, a decline or a reversal; at once, or when its row is tried again.
Settle ==
    /\ Pays("held", "spent", 1) \/ Pays("held", "funds", 1)
    /\ stuck' \in {stuck, FALSE}
    /\ UNCHANGED <<card, lease, op, named, journals, due, run, hint, sudo, overran, faults>>
\* sudoEvent writes the card on the row of a transaction, and then cannot book it:
\* RETRY while the authorization is missing or too small, REVIEW without one.
RowFails ==
    /\ card.ext /\ faults < MaxFaults /\ faults' = faults + 1
    /\ stuck' = TRUE
    /\ UNCHANGED <<card, lease, op, named, money, journals, due, run, hint, sudo, overran>>

LatePut ==
    /\ \E s \in sudo.late :
          IF sudo.status \in {"canceled", s}
          THEN sudo' = [sudo EXCEPT !.late = @ \ {s}] /\ UNCHANGED hint
          ELSE sudo' = [status |-> s, late |-> sudo.late \ {s}] /\ Reports
    /\ UNCHANGED <<card, lease, op, named, money, journals, due, run, stuck, overran, faults>>
\* The request never arrived.
LostPut ==
    /\ \E s \in sudo.late : sudo' = [sudo EXCEPT !.late = @ \ {s}]
    /\ UNCHANGED <<card, lease, op, named, money, journals, due, run, hint, stuck, overran, faults>>
IssuerCloses ==
    /\ sudo.status \in {"active", "inactive"} /\ card.ext
    /\ sudo' = [sudo EXCEPT !.status = "canceled"] /\ Reports
    /\ UNCHANGED <<card, lease, op, named, money, journals, due, run, stuck, overran, faults>>

DeadlinePasses ==
    /\ card.status # "none" /\ ~due /\ due' = TRUE
    /\ UNCHANGED <<card, lease, op, named, money, journals, run, hint, stuck, sudo, overran, faults>>

\* A GET or a POST times out: the operation is tried again.
TimesOut(r) ==
    /\ run[r].pc \in {"created", "leased", "confirm", "query", "lookup"}
    /\ faults < MaxFaults /\ faults' = faults + 1
    /\ IF run[r].pc \in LeasedPcs THEN LeaveUncertain(r)
       ELSE IF At(r, "created") THEN Uncertain(r) /\ UNCHANGED lease
       ELSE Stop(r) /\ UNCHANGED <<op, lease>>
    /\ UNCHANGED <<card, named, money, journals, due, hint, stuck, sudo, overran>>

\* The server stops: rows keep their status, the lease its owner.
Crash(r) ==
    /\ ~At(r, "idle") /\ faults < MaxFaults /\ faults' = faults + 1
    /\ hint' = (hint \/ At(r, "fetched"))
    /\ Stop(r)
    /\ UNCHANGED <<card, lease, op, named, money, journals, due, stuck, sudo, overran>>

\* A run goes on although more than sixty seconds have passed: its claim is given
\* up by the next job, and its lease, which began a little later, may have run out.
Overruns(r) ==
    /\ run[r].pc \in LeasedPcs \cup {"claimed", "reclaimed", "created", "named"}
    /\ faults < MaxFaults /\ faults' = faults + 1 /\ overran' = TRUE
    /\ op[run[r].op] = "PROCESSING" /\ op' = Lapsed(run[r].op)
    /\ lease' \in {lease, IF lease = run[r].op THEN "none" ELSE lease}
    /\ UNCHANGED <<card, named, money, journals, due, run, hint, stuck, sudo>>

\* After sixty seconds a claim, or a lease, that a stopped run left is given up.
OperationLapses(o) ==
    /\ op[o] = "PROCESSING"
    /\ \A r \in Runs : run[r].pc \in {"idle", "fetched"} \/ run[r].op # o
    /\ SetOp(o, "UNKNOWN")
    /\ UNCHANGED <<card, lease, named, money, journals, due, run, hint, stuck, sudo, overran, faults>>
LeaseLapses ==
    /\ lease # "none" /\ \A r \in Runs : run[r].pc \in LeasedPcs => run[r].op # lease
    /\ lease' = "none"
    /\ UNCHANGED <<card, op, named, money, journals, due, run, hint, stuck, sudo, overran, faults>>

RunStep(r) ==
    \/ Discover(r) \/ Query(r) \/ StoreReference(r) \/ StoreCard(r) \/ FinishIssue(r)
    \/ TakeLease(r) \/ Prepare(r) \/ RetireReads(r) \/ Put(r) \/ PutRefused(r) \/ Confirm(r)
    \/ FinishLifecycle(r) \/ FinishRetirement(r) \/ ApplyEvent(r)
    \/ CreateCard(r) \/ IssueRefused(r)

Next ==
    \/ \E o \in Ops : ExecuteIssue(o) \/ ExecuteCommand(o) \/ OperationLapses(o)
    \/ Allocate \/ EnsureDue \/ Purchase \/ Settle \/ RowFails
    \/ LatePut \/ LostPut \/ IssuerCloses \/ DeadlinePasses \/ LeaseLapses
    \/ \E r \in Runs : \/ RunStep(r) \/ PutTimesOut(r) \/ TimesOut(r) \/ Crash(r) \/ Overruns(r)
                       \/ FetchCard(r)
                       \/ \E o \in Ops : Claim(r, o) \/ PickUncertain(r, o)

\* The jobs are called every minute; a run goes on unless it is stopped; a held
\* purchase and a late request end some time.
\* Nothing makes Sudo's webhook arrive, or an administrator retry a row.
Fairness ==
    /\ \A r \in Runs : /\ WF_vars(RunStep(r))
                       /\ SF_vars(FetchCard(r))
                       /\ \A o \in Ops : SF_vars(Claim(r, o) \/ PickUncertain(r, o))
    /\ WF_vars(EnsureDue) /\ WF_vars(LeaseLapses) /\ WF_vars(Settle) /\ WF_vars(LatePut \/ LostPut)
    /\ \A o \in Ops : WF_vars(OperationLapses(o))

Spec == Init /\ [][Next]_vars
FairSpec == Spec /\ Fairness

(***************************************************************************)
(* Safety.                                                                 *)
(***************************************************************************)
\* Booking an issuance, giving up on it and returning an allocation by any of
\* its three journals neither makes nor loses money.
MoneyIsConserved ==
    money.wallet + money.reserve + money.funds + money.held + money.spent + money.fees = Deposit

\* "Serializes all provider lifecycle writes": no two runs are between taking
\* and releasing the lease, whatever crashed or timed out, as long as no run has
\* outlasted its claim or its lease.
WritesAreSerial ==
    ~overran => Cardinality({r \in Runs : run[r].pc \in LeasedPcs}) <= 1

\* "Stale resumes and callbacks cannot restore usage": a retired card that is
\* not usable here never becomes usable again.
NeverRevived == [][Retired /\ card.status # "ACTIVE" => card'.status # "ACTIVE"]_vars

\* The step that ends a retirement leaves nothing on the card and waits for its
\* holds, and nothing fills the card again but its own issuance, booked late.
RetirementEmpties ==
    [][(/\ card'.retirement \in Final
        /\ journals' \ journals # Issued
        /\ card.retirement \in Final => money.funds = 0)
       => money'.funds = 0 /\ money'.held = 0]_vars

\* An outcome the owner was told is final, except that a retirement Sudo undid
\* is carried out again, and that of a command whose run outlasted its claim may be
\* written over: the retirement's catch, for one, does not look at it.
OutcomeIsFinal ==
    [][\A o \in Ops : op[o] \in {"SUCCEEDED", "FAILED", "SUPERSEDED"} =>
          \/ op'[o] = op[o]
          \/ Kind[o] = "RETIRE" /\ op'[o] = "QUEUED"
          \/ overran /\ Kind[o] # "ISSUE"]_vars

\* docs/sudo-safehaven.md: normal retirement "returns the remaining allocation
\* exactly once".
RetiredIsEmpty == card.retirement = "RETIRED" => money.funds = 0

(***************************************************************************)
(* Liveness.                                                               *)
(***************************************************************************)
\* "confirms provider inactive, waits for holds and unresolved captures, and
\* returns the remaining allocation": the retirement of an issued card ends, through
\* crashes, timeouts, lapsed leases and refused cancellations, unless it waits for a
\* transaction that cannot be booked.
RetirementEnds ==
    (card.retirement = "RETIRING" /\ card.ext) ~> (card.retirement \in Final \/ stuck)

\* A retired card that a late RESUME has switched on at Sudo is switched off again
\* once Sudo has reported it, whatever transactions are unresolved meanwhile.
RevivalIsUndone == (Retired /\ card.ext /\ hint) ~> sudo.status # "active"
===============================================================================
