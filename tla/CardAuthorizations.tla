--------------------------- MODULE CardAuthorizations ---------------------------
(***************************************************************************)
(* The money of one virtual card.  Sudo asks for authorizations over the   *)
(* gateway callback; an approved one puts the amount on a hold.  Captures, *)
(* refunds, reversals and declines arrive later as webhooks: receive       *)
(* stores a hint, and FinanceEvents.run fetches the transaction and books  *)
(* it.  The last allowed purchase, or the deadline, retires the card, and  *)
(* the retirement returns what is left to the wallet.                      *)
(*                                                                         *)
(* Every transaction takes the owner's row lock, so it is one step; what   *)
(* happens between a fetch and its transaction is not protected.  Each     *)
(* member of Runs is one concurrent run of FinanceEvents.run.              *)
(***************************************************************************)
EXTENDS Integers, FiniteSets, Sums

CONSTANTS
    Auths,          \* authorization requests (Sudo's ids)
    Merchants,
    Txns,           \* Sudo's transactions and declines, one webhook each
    Runs,           \* concurrent event runs
    Amount,         \* Amount[a]: requested, fees included
    Merchant,       \* Merchant[a]
    Verification,   \* requests that are card verifications, not purchases
    Permitted,      \* requests the merchant, category and account checks pass
    Kind,           \* Kind[t]: "capture", "refund" or "declined"
    Auth,           \* Auth[t]: the authorization t belongs to
    Value,          \* Value[t]: its amount (0 for a decline)
    Rules,          \* the rules a SELF_DESTRUCT card may have
    Lot,            \* what one ALLOCATE or RETURN command moves
    Deposit         \* the wallet at the start

ASSUME RequestAssumption ==
    /\ IsFiniteSet(Auths) /\ Amount \in [Auths -> Nat] /\ Merchant \in [Auths -> Merchants]
    /\ Verification \subseteq Auths /\ Permitted \subseteq Auths
    /\ {a \in Auths : Amount[a] = 0} \subseteq Verification
ASSUME TxnAssumption ==
    /\ IsFiniteSet(Txns)
    /\ Kind \in [Txns -> {"capture", "refund", "declined"}]
    /\ Auth \in [Txns -> Auths] /\ Value \in [Txns -> Nat]
ASSUME LimitAssumption ==
    /\ Rules \subseteq [usageLimit : Nat \ {0}, monthlyLimit : Nat, firstTime : BOOLEAN,
                        large : SUBSET Auths]
    /\ Lot \in Nat \ {0} /\ Deposit \in Nat

VARIABLES
    rules,          \* the card's limits, whether its owner approves new merchants, and the
                    \* requests above the LARGE_AMOUNT threshold (they change in CardRules)
    auth,           \* FinanceAuthorization rows: status, settled, released, refunded
    code,           \* FinanceAuthorization.responseCode, "none" without a row
    stale,          \* approvals whose five minutes are over
    wallet, card,   \* finance_accounts wallet:<user> and card:<card>
    hold,           \* hold[a]: finance_accounts hold:<a>
    clearing,       \* system:card-clearing
    balance,        \* cards.balance, the projection the owner sees
    booked,         \* booked[t]: the kind of journal posted for t, or "none"
    thisMonth,      \* captures whose FinanceCapture row is of this month
    due,            \* the card's deadline has passed
    retirement,     \* cards.retirementStatus ("none": retiredAt is null)
    inbox,          \* inbox[t]: FinanceInbox.status, or "none"
    tagged,         \* rows whose cardId is known
    run,            \* run[r]: what an event run is doing
    posted,         \* Sudo: posted[t], what t is to the card network, or "none"
    heard           \* Sudo: heard[a], the outcome it gave the merchant

moneyVars == <<wallet, card, hold, clearing, balance, booked>>
sudoVars  == <<posted, heard>>
inboxVars == <<inbox, tagged>>
vars == <<rules, auth, code, stale, moneyVars, thisMonth, due, retirement,
          inboxVars, run, sudoVars>>

AuthStatuses == {"none", "AWAITING_APPROVAL", "RETRY_APPROVED", "APPROVAL_USED",
                 "DECLINED", "HELD", "VERIFIED", "REVERSED", "SETTLED"}
InboxStatuses == {"none", "RECEIVED", "RETRY", "REVIEW", "PROCESSED"}
Free == [pc |-> "idle", txn |-> "none"]
NoAuth == [status |-> "none", settled |-> 0, released |-> 0, refunded |-> 0]

TypeOK ==
    /\ rules \in Rules
    /\ auth \in [Auths -> [status : AuthStatuses, settled : Nat, released : Nat,
                           refunded : Nat]]
    /\ code \in [Auths -> {"none", "00", "05", "51"}]
    /\ stale \subseteq Auths
    /\ wallet \in Nat /\ card \in Nat /\ clearing \in Int /\ balance \in Int
    /\ hold \in [Auths -> Nat]
    /\ booked \in [Txns -> {"none", "capture", "refund", "reversal", "declined"}]
    /\ thisMonth \subseteq Txns
    /\ due \in BOOLEAN
    /\ retirement \in {"none", "RETIRING", "RETIRED"}
    /\ inbox \in [Txns -> InboxStatuses]
    /\ tagged \subseteq Txns
    /\ run \in [Runs -> [pc : {"idle", "picked", "fetched", "RETRY", "REVIEW"},
                    txn : Txns \cup {"none"}]]
    /\ posted \in [Txns -> {"none", "capture", "refund", "reversal", "declined"}]
    /\ heard \in [Auths -> {"none", "approved", "declined"}]

Init ==
    /\ rules \in Rules
    /\ auth = [a \in Auths |-> NoAuth]
    /\ code = [a \in Auths |-> "none"]
    /\ stale = {}
    /\ wallet = Deposit /\ card = 0 /\ clearing = 0 /\ balance = 0
    /\ hold = [a \in Auths |-> 0]
    /\ booked = [t \in Txns |-> "none"]
    /\ thisMonth = {}
    /\ due = FALSE /\ retirement = "none"
    /\ inbox = [t \in Txns |-> "none"] /\ tagged = {}
    /\ run = [r \in Runs |-> Free]
    /\ posted = [t \in Txns |-> "none"]
    /\ heard = [a \in Auths |-> "none"]

(***************************************************************************)
(* FinancePolicy.snapshot.                                                 *)
(***************************************************************************)
Held == {a \in Auths : auth[a].status = "HELD"}
Remaining(a) == Amount[a] - auth[a].settled - auth[a].released
HeldAmount == Sum([a \in Auths |-> Remaining(a)], Held)
SettledAmount == Sum(Value, thisMonth)
Spent == SettledAmount + HeldAmount

\* Purchases with a capture row, and those that reserve a slot by their hold.
Completed == {a \in Auths \ Verification :
                 \E t \in Txns : booked[t] = "capture" /\ Auth[t] = a}
Reserving == (Held \ Verification) \ Completed
\* Defect: pending purchases do not reserve a slot.
UsesCompletedOnly == Cardinality(Completed)

Uses == Cardinality(Completed) + Cardinality(Reserving)

Retired == retirement # "none"
Reason == Retired \/ due \/ Cardinality(Completed) >= rules.usageLimit
Mark == retirement' = IF Retired THEN retirement ELSE "RETIRING"

(***************************************************************************)
(* Postings and row updates the transactions share.                        *)
(***************************************************************************)
CreditCard(amount) == card' = card + amount /\ balance' = balance + amount

\* Defect: the hold is emptied whatever the amount.
ReleaseAllOfHold(a, amount) == hold' = [hold EXCEPT ![a] = 0]
ReleaseHold(a, amount) == hold' = [hold EXCEPT ![a] = @ - amount]

StatusAfter(a, amount, closed) == IF Remaining(a) = amount THEN closed ELSE "HELD"

(***************************************************************************)
(* FinanceAuthorizations.authorize, one transaction.                       *)
(***************************************************************************)
SetAuth(a, status, c) == /\ auth' = [auth EXCEPT ![a].status = status]
                         /\ code' = [code EXCEPT ![a] = c]

\* The hard rules, which no approval overrides.
Declinable(a) ==
    \/ Reason
    \/ a \notin Permitted
    \/ Spent + Amount[a] > rules.monthlyLimit
    \/ a \notin Verification /\ Uses >= rules.usageLimit

Known(m) == \E b \in Auths \ Verification :
                Merchant[b] = m /\ auth[b].status \in {"HELD", "SETTLED"}
NeedsApproval(a) == /\ a \notin Verification
                    /\ a \in rules.large \/ (rules.firstTime /\ ~Known(Merchant[a]))

\* Defect: a used approval can be used again.
GrantsUsed(a) == {g \in Auths \ stale : /\ auth[g].status \in {"RETRY_APPROVED", "APPROVAL_USED"}
                                        /\ Merchant[g] = Merchant[a]
                                        /\ Amount[g] = Amount[a]}

\* An unused, unexpired approval of the same merchant and amount.
Grants(a) == {g \in Auths \ stale : /\ auth[g].status = "RETRY_APPROVED"
                                    /\ Merchant[g] = Merchant[a]
                                    /\ Amount[g] = Amount[a]}

Decline(a, c) ==
    /\ SetAuth(a, "DECLINED", c)
    /\ IF Reason THEN Mark ELSE UNCHANGED retirement
    /\ UNCHANGED <<stale, moneyVars>>

Ask(a) ==
    /\ SetAuth(a, "AWAITING_APPROVAL", "05")
    /\ UNCHANGED <<stale, moneyVars, retirement>>

Approve00(a, used) ==
    /\ auth' = [b \in Auths |->
                  IF b = a
                  THEN [auth[a] EXCEPT !.status = IF Amount[a] = 0 THEN "VERIFIED" ELSE "HELD"]
                  ELSE IF b \in used THEN [auth[b] EXCEPT !.status = "APPROVAL_USED"]
                  ELSE auth[b]]
    /\ code' = [code EXCEPT ![a] = "00"]
    /\ CreditCard(-Amount[a]) /\ hold' = [hold EXCEPT ![a] = @ + Amount[a]]
    /\ UNCHANGED <<stale, wallet, clearing, booked, retirement>>

Authorize(a) ==
    /\ auth[a].status = "none"
    /\ IF Declinable(a) THEN Decline(a, "05")
       ELSE IF card < Amount[a] THEN Decline(a, "51")
       ELSE IF ~NeedsApproval(a) THEN Approve00(a, {})
       ELSE IF Grants(a) = {} THEN Ask(a)
       ELSE \E g \in Grants(a) : Approve00(a, {g})
    /\ UNCHANGED <<thisMonth, due, inboxVars, run, sudoVars>>

(***************************************************************************)
(* The owner: FinanceService.execute.                                      *)
(***************************************************************************)
\* ALLOCATE and RETURN move money between wallet and card.
Move(toCard) ==
    /\ wallet - toCard >= 0 /\ card + toCard >= 0
    /\ wallet' = wallet - toCard /\ card' = card + toCard
    /\ balance' = card + toCard
    /\ UNCHANGED <<hold, clearing, booked>>

Allocate == /\ ~Reason /\ Move(Lot)
            /\ UNCHANGED <<auth, code, stale, thisMonth, due, retirement, inboxVars,
                           run, sudoVars>>
Return == /\ ~Reason /\ Move(-Lot)
          /\ UNCHANGED <<auth, code, stale, thisMonth, due, retirement, inboxVars,
                         run, sudoVars>>

Answer(a, status) ==
    /\ ~Reason /\ auth[a].status = "AWAITING_APPROVAL"
    /\ auth' = [auth EXCEPT ![a].status = status]
    /\ UNCHANGED <<code, stale, moneyVars, thisMonth, due, retirement, inboxVars,
                   run, sudoVars>>
OwnerApproves(a) == Answer(a, "RETRY_APPROVED")
OwnerDeclines(a) == Answer(a, "DECLINED")

\* RETIRE or CANCEL, or the scan that finds the card due.
Retire == /\ ~Retired /\ Mark
          /\ UNCHANGED <<auth, code, stale, moneyVars, thisMonth, due, inboxVars,
                         run, sudoVars>>

(***************************************************************************)
(* Time.                                                                   *)
(***************************************************************************)
ApprovalExpires(a) ==
    /\ auth[a].status = "RETRY_APPROVED" /\ stale' = stale \cup {a}
    /\ UNCHANGED <<auth, code, moneyVars, thisMonth, due, retirement, inboxVars,
                   run, sudoVars>>
NewMonth ==
    /\ thisMonth # {} /\ thisMonth' = {}
    /\ UNCHANGED <<auth, code, stale, moneyVars, due, retirement, inboxVars, run, sudoVars>>
DeadlinePasses ==
    /\ ~due /\ due' = TRUE
    /\ UNCHANGED <<auth, code, stale, moneyVars, thisMonth, retirement, inboxVars,
                   run, sudoVars>>

(***************************************************************************)
(* Sudo, as far as the code relies on it.  It hears the recorded answer or *)
(* gives up; it captures at most what it was approved; what it gives back  *)
(* is a reversal before any capture and a refund after it.                 *)
(***************************************************************************)
Total(a, what) == Sum(Value, {t \in Txns : Auth[t] = a /\ posted[t] = what})

Hear(a) ==
    /\ heard[a] = "none" /\ code[a] # "none"
    /\ \E h \in IF code[a] = "00" THEN {"approved", "declined"} ELSE {"declined"} :
          heard' = [heard EXCEPT ![a] = h]
    /\ UNCHANGED <<auth, code, stale, moneyVars, thisMonth, due, retirement, inboxVars,
                   run, posted>>

MayPost(t, what) ==
    LET a == Auth[t] IN
    CASE what = "capture"  -> /\ Kind[t] = "capture" /\ heard[a] = "approved"
                              /\ Total(a, "capture") + Total(a, "reversal") + Value[t] <= Amount[a]
      [] what = "reversal" -> /\ Kind[t] = "refund" /\ heard[a] = "approved"
                              /\ Total(a, "capture") = 0
                              /\ Total(a, "reversal") + Value[t] <= Amount[a]
      [] what = "refund"   -> /\ Kind[t] = "refund"
                              /\ heard[a] = "approved"
                              /\ Total(a, "refund") + Value[t] <= Total(a, "capture")
      [] what = "declined" -> Kind[t] = "declined" /\ heard[a] = "declined"

SudoPosts(t) ==
    /\ posted[t] = "none"
    /\ \E what \in {"capture", "reversal", "refund", "declined"} :
          MayPost(t, what) /\ posted' = [posted EXCEPT ![t] = what]
    /\ UNCHANGED <<auth, code, stale, moneyVars, thisMonth, due, retirement, inboxVars,
                   run, heard>>

(***************************************************************************)
(* FinanceEvents.                                                          *)
(***************************************************************************)
Receive(t) ==
    /\ posted[t] # "none" /\ inbox[t] = "none"
    /\ inbox' = [inbox EXCEPT ![t] = "RECEIVED"]
    /\ UNCHANGED <<auth, code, stale, moneyVars, thisMonth, due, retirement, tagged,
                   run, sudoVars>>

Pick(r, t) ==
    /\ run[r].pc = "idle" /\ inbox[t] \in {"RECEIVED", "RETRY"}
    /\ run' = [run EXCEPT ![r] = [pc |-> "picked", txn |-> t]]
    /\ UNCHANGED <<auth, code, stale, moneyVars, thisMonth, due, retirement, inboxVars,
                   sudoVars>>

\* The transaction is fetched and, if it is one, its row gets the card.
Fetch(r) ==
    /\ run[r].pc = "picked"
    /\ run' = [run EXCEPT ![r].pc = "fetched"]
    /\ tagged' = IF Kind[run[r].txn] = "declined" THEN tagged ELSE tagged \cup {run[r].txn}
    /\ UNCHANGED <<auth, code, stale, moneyVars, thisMonth, due, retirement, inbox,
                   sudoVars>>

FetchFails(r) ==
    /\ run[r].pc = "picked"
    /\ run' = [run EXCEPT ![r] = Free]
    /\ \E s \in {"RETRY", "REVIEW"} : inbox' = [inbox EXCEPT ![run[r].txn] = s]
    /\ UNCHANGED <<auth, code, stale, moneyVars, thisMonth, due, retirement, tagged,
                   sudoVars>>

\* The transaction of an event commits, with its row.
Commit(r) == /\ run' = [run EXCEPT ![r] = Free]
             /\ inbox' = [inbox EXCEPT ![run[r].txn] = "PROCESSED"]
             /\ UNCHANGED <<code, stale, due, tagged, sudoVars>>
Skip(r) == Commit(r) /\ UNCHANGED <<auth, moneyVars, thisMonth, retirement>>

\* It throws and rolls back; the row is marked later, without the lock.
Throw(r, s) == /\ run' = [run EXCEPT ![r].pc = s]
               /\ UNCHANGED <<auth, code, stale, moneyVars, thisMonth, due, retirement,
                              inboxVars, sudoVars>>

RecordFailure(r) ==
    /\ run[r].pc \in {"RETRY", "REVIEW"}
    /\ run' = [run EXCEPT ![r] = Free]
    /\ inbox' = [inbox EXCEPT ![run[r].txn] = run[r].pc]
    /\ UNCHANGED <<auth, code, stale, moneyVars, thisMonth, due, retirement, tagged,
                   sudoVars>>

AdminRetry(t) ==
    /\ inbox[t] \notin {"none", "RECEIVED"}
    /\ inbox' = [inbox EXCEPT ![t] = "RECEIVED"]
    /\ UNCHANGED <<auth, code, stale, moneyVars, thisMonth, due, retirement, tagged,
                   run, sudoVars>>

Applying(r, kind) == /\ run[r].pc = "fetched" /\ Kind[run[r].txn] = kind
                     /\ kind # "declined" => Value[run[r].txn] > 0
\* Defect: only the row says whether an event was applied.
DoneByRow(t) == inbox[t] = "PROCESSED"

Done(t) == inbox[t] = "PROCESSED" \/ booked[t] # "none"

\* An amount of zero belongs to a verification, or to nothing at all.
ApplyZero(r) ==
    LET t == run[r].txn IN
    /\ run[r].pc = "fetched" /\ Kind[t] # "declined" /\ Value[t] = 0
    /\ IF inbox[t] = "PROCESSED" \/ Auth[t] \in Verification
       THEN Skip(r) ELSE Throw(r, "REVIEW")

\* Defect: the purchases are counted without this one.
MarkIfOneMore == IF due \/ Cardinality(Completed) >= rules.usageLimit
                 THEN Mark ELSE UNCHANGED retirement
MarkIfLast == IF due \/ Cardinality(Completed') >= rules.usageLimit
              THEN Mark ELSE UNCHANGED retirement

ApplyCapture(r) ==
    LET t == run[r].txn
        a == Auth[t]
        v == Value[t]
    IN
    /\ Applying(r, "capture")
    /\ IF Done(t) THEN Skip(r)
       ELSE IF auth[a].settled + v + auth[a].released > Amount[a] \/ hold[a] < v
       THEN Throw(r, "RETRY")
       ELSE /\ ReleaseHold(a, v)
            /\ clearing' = clearing + v
            /\ booked' = [booked EXCEPT ![t] = "capture"]
            /\ thisMonth' = thisMonth \cup {t}
            /\ auth' = [auth EXCEPT ![a].settled = @ + v,
                          ![a].status = StatusAfter(a, v, "SETTLED")]
            /\ MarkIfLast
            /\ Commit(r)
            /\ UNCHANGED <<wallet, card, balance>>

\* While nothing is settled a refund is the reversal of the hold.
ReversesHold(a) == auth[a].settled = 0 /\ auth[a].status = "HELD"

ApplyReversal(r) ==
    LET t == run[r].txn
        a == Auth[t]
        v == Value[t]
    IN
    /\ Applying(r, "refund") /\ ~Done(t) /\ ReversesHold(a)
    /\ IF v > Remaining(a) THEN Throw(r, "RETRY")
       ELSE /\ ReleaseHold(a, v)
            /\ CreditCard(v)
            /\ booked' = [booked EXCEPT ![t] = "reversal"]
            /\ auth' = [auth EXCEPT ![a].released = @ + v,
                          ![a].status = StatusAfter(a, v, "REVERSED")]
            /\ Commit(r)
            /\ UNCHANGED <<wallet, clearing, thisMonth, retirement>>

\* Defect: a refund goes to the card even after its retirement.
ToCardAlways == FALSE
ToWallet == Retired

\* Otherwise it is a purchase refund, to the wallet once the card is retired.
ApplyRefund(r) ==
    LET t == run[r].txn
        a == Auth[t]
        v == Value[t]
    IN
    /\ Applying(r, "refund")
    /\ IF Done(t) THEN Skip(r)
       ELSE /\ ~ReversesHold(a)
            /\ IF auth[a].refunded + v > auth[a].settled THEN Throw(r, "RETRY")
               ELSE /\ clearing' = clearing - v
                    /\ booked' = [booked EXCEPT ![t] = "refund"]
                    /\ auth' = [auth EXCEPT ![a].refunded = @ + v]
                    /\ IF ToWallet
                       THEN wallet' = wallet + v /\ UNCHANGED <<card, balance>>
                       ELSE CreditCard(v) /\ UNCHANGED wallet
                    /\ Commit(r)
                    /\ UNCHANGED <<hold, thisMonth, retirement>>

\* Sudo declined what was approved here: the rest of the hold goes back.
ApplyDecline(r) ==
    LET t == run[r].txn
        a == Auth[t]
        rest == Amount[a] - auth[a].released
    IN
    /\ Applying(r, "declined")
    /\ IF ~ReversesHold(a) THEN Skip(r)
       ELSE /\ ReleaseHold(a, rest)
            /\ CreditCard(rest)
            /\ booked' = [booked EXCEPT ![t] = "declined"]
            /\ auth' = [auth EXCEPT ![a].released = Amount[a], ![a].status = "DECLINED"]
            /\ Commit(r)
            /\ UNCHANGED <<wallet, clearing, thisMonth, retirement>>

(***************************************************************************)
(* FinanceRetirement.process: its transaction, once Sudo confirmed that    *)
(* the card is inactive.  It waits for holds and for the card's rows.      *)
(***************************************************************************)
Unresolved == {t \in tagged : inbox[t] # "PROCESSED"}

FinishRetirement ==
    /\ retirement = "RETIRING" /\ Held = {} /\ Unresolved = {}
    /\ retirement' = "RETIRED"
    /\ wallet' = wallet + card /\ card' = 0 /\ balance' = 0
    /\ UNCHANGED <<auth, code, stale, hold, clearing, booked, thisMonth, due, inboxVars,
                   run, sudoVars>>

EventStep(r) == \/ Fetch(r) \/ FetchFails(r) \/ RecordFailure(r)
                \/ ApplyZero(r) \/ ApplyCapture(r) \/ ApplyReversal(r) \/ ApplyRefund(r) \/ ApplyDecline(r)

CardStep(auths, txns, runs) ==
    \/ \E a \in auths : \/ Authorize(a) \/ OwnerApproves(a) \/ OwnerDeclines(a)
                        \/ ApprovalExpires(a) \/ Hear(a)
    \/ \E t \in txns : SudoPosts(t) \/ Receive(t) \/ AdminRetry(t)
    \/ \E r \in runs : EventStep(r) \/ \E t \in txns : Pick(r, t)
    \/ Allocate \/ Return \/ Retire \/ NewMonth \/ DeadlinePasses \/ FinishRetirement

Next == CardStep(Auths, Txns, Runs) /\ UNCHANGED rules

Spec == Init /\ [][Next]_vars

(***************************************************************************)
(* Safety.                                                                 *)
(***************************************************************************)
\* No event makes or loses money between wallet, card, holds and clearing.
MoneyStaysWhole ==
    wallet + card + Sum(hold, Auths) + clearing = Deposit

\* What the ledger has on hold and what was captured this month stay within the
\* budget, and purchases that hold or were captured within the usage limit, in
\* every interleaving of authorizations, late captures and releases.
LimitsHoldOut ==
    /\ SettledAmount + Sum(hold, Auths) <= rules.monthlyLimit
    /\ Cardinality({a \in Auths \ Verification :
                        auth[a].status = "HELD" \/ a \in Completed}) <= rules.usageLimit

\* "Self-destruct cards retire at the first positive capture of their final
\* allowed purchase."
LastUseIsLast == Cardinality(Completed) >= rules.usageLimit => Retired

\* A retired card is empty and stays empty: the allocation came back once, no
\* hold is stranded on it, and a later refund or reversal does not refill it.
RetiredStaysEmpty == retirement = "RETIRED" => card = 0 /\ Held = {}

\* One approval lets one purchase through: purchases above the threshold never
\* outnumber the approvals that were used.
ApprovalsAreSpent ==
    LET used == {g \in Auths : auth[g].status = "APPROVAL_USED"} IN
    Cardinality({a \in rules.large \ Verification : code[a] = "00"}) <= Cardinality(used)

Booked(a, what) == {t \in Txns : Auth[t] = a /\ booked[t] = what}
BookedOnce ==
    \A a \in Auths :
        /\ auth[a].settled = Sum(Value, Booked(a, "capture"))
        /\ auth[a].refunded = Sum(Value, Booked(a, "refund"))
        /\ auth[a].released = IF Booked(a, "declined") # {}
                              THEN Amount[a] ELSE Sum(Value, Booked(a, "reversal"))

HoldFollowsAuthorization ==
    \A a \in Auths : hold[a] = IF auth[a].status = "HELD" THEN Remaining(a) ELSE 0

\* However often an event is delivered, retried or run twice at a time, the rows are the
\* sums of the journals: each transaction was booked once.  The hold of an authorization is
\* what its row says is neither captured nor released, whatever the order of captures,
\* reversals and declines, and nothing is held for a row that is not HELD (sudoEvent).
RowsAreJournals == BookedOnce /\ HoldFollowsAuthorization

\* docs/sudo-safehaven.md: "Captured purchases still consume their usage slot
\* and gross budget after a refund."
SlotsStayConsumed ==
    Cardinality({a \in Auths \ Verification : Total(a, "capture") > 0}) <= rules.usageLimit
(***************************************************************************)
(* The promise of Envelope.  A purchase takes its place when it is         *)
(* approved: it is open while its row is HELD and done afterwards; the     *)
(* owner's decisions, the inbox and its runs do not show.                  *)
(***************************************************************************)
Phase(a) == IF auth[a].status = "HELD" THEN "open"
            ELSE IF code[a] = "00" THEN "done" ELSE "none"
Limit(r) == [uses |-> r.usageLimit, budget |-> r.monthlyLimit]
Stage == IF retirement = "RETIRED" THEN "closed" ELSE IF Retired THEN "closing" ELSE "open"

E == INSTANCE Envelope WITH
       Purchases <- Auths, Counted <- Auths \ Verification, Limits <- {Limit(r) : r \in Rules},
       limit <- Limit(rules), held <- hold,
       captured <- [a \in Auths |-> auth[a].settled],
       refunded <- [a \in Auths |-> auth[a].refunded],
       phase <- [a \in Auths |-> Phase(a)],
       bought <- Completed, spent <- SettledAmount, stage <- Stage

\* Authorizations, late events in any order, approvals, deadlines and the retirement together keep
\* the promise of Envelope at every step: money leaves the card only for a purchase within budget
\* and uses, is captured or comes back, and a closed card is emptied once and stays empty.
ImplementsEnvelope == E!EnvelopeSpec
===============================================================================
