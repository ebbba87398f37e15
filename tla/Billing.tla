------------------------------- MODULE Billing -------------------------------
(***************************************************************************)
(* Premium and AI credits of one user: orders, their settlement from the   *)
(* live wallet, cancellation, and the renewal job that every replica runs. *)
(* Months are the clock.  A transaction under the profile's row lock is    *)
(* one step; the renewal job reads its list, upserts the period's order    *)
(* and settles it in separate steps.                                       *)
(***************************************************************************)
EXTENDS Integers, FiniteSets

CONSTANTS
    PremiumOrders,  \* idempotency keys the client buys Premium with
    CreditOrders,   \* idempotency keys it buys a credit pack with
    Replicas,       \* servers; one renewal run at a time in each
    Months,         \* the clock ends after this many months
    Price,          \* of Premium and of a pack
    PlanCredits, PackCredits,
    Funds,          \* the wallet at the start
    TopUps          \* deposits of Price that may follow

ASSUME BillingAssumption ==
    /\ PremiumOrders \cap CreditOrders = {}
    /\ IsFiniteSet(PremiumOrders) /\ IsFiniteSet(CreditOrders)
    /\ {Months, Price, PlanCredits, PackCredits, Funds, TopUps} \subseteq Nat /\ Price > 0

VARIABLES
    month,    \* the present month
    plan,     \* profiles: cardPlan, cardPlanExpiresAt, billingCancelAtPeriodEnd
    order,    \* order[o]: billing_orders.status, "none" without a row
    aiCredits,  \* ai_credit_accounts
    account,    \* ledger: the user's NGN wallet and billing revenue
    renewal,  \* renewal[j]: what the job of a replica is doing
    charged,  \* history: charged[m], Premium payments of month m
    topUps

billingVars == <<month, plan, order, aiCredits, account, renewal, charged, topUps>>

\* A renewal order's key is derived from the expiry it renews.
RenewalOrders == {"renewal"} \X (0..Months)
Orders == PremiumOrders \cup CreditOrders \cup RenewalOrders
IsPremium(o) == o \notin CreditOrders
NoExpiry == -1
IdleRenewal == [pc |-> "idle", due |-> NoExpiry]

Expiries == {NoExpiry} \cup 0..Months + 1
PlanRow == [premium : BOOLEAN, expires : Expiries, cancel : BOOLEAN]
CreditsRow == [plan : {0, PlanCredits}, purchased : Nat, ends : Expiries]
RenewalState == [pc : {"idle", "due", "settle"}, due : {NoExpiry} \cup 0..Months]

BillingTypeOK ==
    /\ month \in 0..Months /\ plan \in PlanRow /\ aiCredits \in CreditsRow
    /\ order \in [Orders -> {"none", "PENDING", "SUCCESS", "FAIL", "CANCELLED"}]
    /\ account \in [wallet : Nat, revenue : Nat]
    /\ renewal \in [Replicas -> RenewalState]
    /\ charged \in [0..Months -> Nat] /\ topUps \in 0..TopUps

\* Premium may have been granted by hand, without any order.
BillingInit ==
    /\ month = 0
    /\ plan \in [premium : {FALSE}, expires : {NoExpiry}, cancel : {FALSE}]
                \cup [premium : {TRUE}, expires : {1}, cancel : {FALSE}]
    /\ order = [o \in Orders |-> "none"]
    /\ aiCredits = [plan |-> 0, purchased |-> 0, ends |-> NoExpiry]
    /\ account = [wallet |-> Funds, revenue |-> 0]
    /\ renewal = [j \in Replicas |-> IdleRenewal]
    /\ charged = [m \in 0..Months |-> 0] /\ topUps = 0

Active == plan.premium /\ (plan.expires = NoExpiry \/ plan.expires > month)
SetOrder(o, status) == order' = [order EXCEPT ![o] = status]
NoCharge == UNCHANGED <<aiCredits, account, charged>>

(***************************************************************************)
(* create: a key keeps its order; a failed or cancelled one is tried again.*)
(***************************************************************************)
CreateOrder(o) ==
    /\ order[o] \notin {"SUCCESS", "PENDING"}
    /\ o \in RenewalOrders => order[o] # "none"   \* keys of renewals come from history
    /\ SetOrder(o, "PENDING")
    /\ NoCharge /\ UNCHANGED <<month, plan, renewal, topUps>>

(***************************************************************************)
(* settle, the one transaction of confirm and of the renewal job; due is   *)
(* the expiry the job read, or NoExpiry for the user's own confirmation.   *)
(***************************************************************************)
Stale(due) == due # NoExpiry /\ (plan.cancel \/ plan.expires # due)

\* What is left of the last period's AI credits is replaced.
Granted(o) ==
    IF IsPremium(o) THEN [aiCredits EXCEPT !.plan = PlanCredits, !.ends = month + 1]
    ELSE [aiCredits EXCEPT !.purchased = @ + PackCredits]

Pay(o) ==
    /\ account' = [wallet |-> account.wallet - Price, revenue |-> account.revenue + Price]
    /\ SetOrder(o, "SUCCESS") /\ aiCredits' = Granted(o)
    /\ IF IsPremium(o)
       THEN /\ plan' = [premium |-> TRUE, expires |-> month + 1, cancel |-> FALSE]
            /\ charged' = [charged EXCEPT ![month] = @ + 1]
       ELSE UNCHANGED <<plan, charged>>

\* Mutant: the job does not look at the profile again.
SettleBlindly(o, due) ==
    /\ order[o] = "PENDING"
    /\ due = NoExpiry => ~(IsPremium(o) /\ Active)
    /\ IF account.wallet < Price
       THEN /\ plan' = [plan EXCEPT !.cancel = @ \/ due # NoExpiry] /\ SetOrder(o, "FAIL")
            /\ NoCharge
       ELSE Pay(o)

SettleOrder(o, due) ==
    /\ order[o] = "PENDING"
    /\ \/ Stale(due) /\ SetOrder(o, "CANCELLED") /\ NoCharge /\ UNCHANGED plan
       \/ /\ ~Stale(due) /\ (due = NoExpiry => ~(IsPremium(o) /\ Active))
          /\ \/ /\ account.wallet < Price
                /\ plan' = [plan EXCEPT !.cancel = @ \/ due # NoExpiry]
                /\ SetOrder(o, "FAIL") /\ NoCharge
             \/ account.wallet >= Price /\ Pay(o)

\* The user confirms any pending order, also one the renewal job left.
Confirm(o) == SettleOrder(o, NoExpiry) /\ UNCHANGED <<month, renewal, topUps>>

Cancel ==
    /\ plan' = [plan EXCEPT !.cancel = TRUE]
    /\ NoCharge /\ UNCHANGED <<month, order, renewal, topUps>>

CancelOrder(o) ==
    /\ order[o] = "PENDING" /\ SetOrder(o, "CANCELLED")
    /\ NoCharge /\ UNCHANGED <<month, plan, renewal, topUps>>

\* summary takes the plan's AI credits back once their period has ended.
Summary ==
    /\ aiCredits.ends # NoExpiry /\ aiCredits.ends <= month /\ aiCredits.plan > 0
    /\ aiCredits' = [aiCredits EXCEPT !.plan = 0]
    /\ UNCHANGED <<month, plan, order, account, renewal, charged, topUps>>

(***************************************************************************)
(* renewDue of one replica.                                                *)
(***************************************************************************)
ListDue(j) ==
    /\ renewal[j].pc = "idle"
    /\ plan.premium /\ plan.expires # NoExpiry /\ plan.expires <= month /\ ~plan.cancel
    /\ renewal' = [renewal EXCEPT ![j] = [pc |-> "due", due |-> plan.expires]]
    /\ NoCharge /\ UNCHANGED <<month, plan, order, topUps>>

\* Only a paid Premium order is a mandate; the period's order is upserted.
UpsertRenewal(j) ==
    LET o == <<"renewal", renewal[j].due>>
        mandate == \E p \in Orders : IsPremium(p) /\ order[p] = "SUCCESS"
        status == IF order[o] = "none" THEN "PENDING" ELSE order[o]
    IN  /\ renewal[j].pc = "due"
        /\ IF mandate THEN SetOrder(o, status) ELSE UNCHANGED order
        /\ renewal' = [renewal EXCEPT
               ![j] = IF mandate /\ status = "PENDING" THEN [@ EXCEPT !.pc = "settle"]
                      ELSE IdleRenewal]
        /\ NoCharge /\ UNCHANGED <<month, plan, topUps>>

SettleRenewal(j) ==
    LET o == <<"renewal", renewal[j].due>> IN
    /\ renewal[j].pc = "settle" /\ renewal' = [renewal EXCEPT ![j] = IdleRenewal]
    /\ IF order[o] = "PENDING" THEN SettleOrder(o, renewal[j].due)
       ELSE NoCharge /\ UNCHANGED <<plan, order>>
    /\ UNCHANGED <<month, topUps>>

\* A replica stops, or a settlement throws: the order stays as it is.
RenewalStops(j) ==
    /\ renewal[j].pc # "idle" /\ renewal' = [renewal EXCEPT ![j] = IdleRenewal]
    /\ NoCharge /\ UNCHANGED <<month, plan, order, topUps>>

NextMonth ==
    /\ month < Months /\ month' = month + 1
    /\ NoCharge /\ UNCHANGED <<plan, order, renewal, topUps>>

TopUp ==
    /\ topUps < TopUps /\ topUps' = topUps + 1
    /\ account' = [account EXCEPT !.wallet = @ + Price]
    /\ UNCHANGED <<month, plan, order, aiCredits, renewal, charged>>

BillingNext ==
    \/ \E o \in Orders : CreateOrder(o) \/ Confirm(o) \/ CancelOrder(o)
    \/ Cancel \/ Summary \/ NextMonth \/ TopUp
    \/ \E j \in Replicas :
         ListDue(j) \/ UpsertRenewal(j) \/ SettleRenewal(j) \/ RenewalStops(j)

BillingSpec == BillingInit /\ [][BillingNext]_billingVars

(***************************************************************************)
(* Properties.                                                             *)
(***************************************************************************)
\* "period keys and profile row locks prevent duplicate charges"
\* (billing-renewal.service.ts:4): however replicas, retries and the user's own purchases
\* meet, a month of Premium is paid once, every payment bought what its order promises, and
\* nothing is taken for an order that did not succeed.
ChargedOncePerPeriod ==
    LET paid == {o \in Orders : order[o] = "SUCCESS"} IN
    /\ \A m \in 0..Months : charged[m] <= 1
    /\ account.revenue = Price * Cardinality(paid)
    /\ aiCredits.purchased = PackCredits * Cardinality(paid \cap CreditOrders)

\* README.md:231-234: the job "renews only previously paid wallet subscriptions" and "stops
\* renewal after cancellation or insufficient funds"; Premium granted by hand is no mandate.
\* A step of the job that charges finds an expired Premium its user once paid for and has
\* not cancelled, though the job read its list in an earlier step.
RenewalNeedsAMandate ==
    [][\A j \in Replicas :
         renewal[j].pc = "settle" /\ renewal'[j].pc = "idle" /\ account'.revenue > account.revenue
         => /\ ~plan.cancel /\ plan.expires <= month
            /\ \E o \in PremiumOrders : order[o] = "SUCCESS"]_billingVars
===============================================================================
