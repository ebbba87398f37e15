------------------------------- MODULE CardRules -------------------------------
(***************************************************************************)
(* The rules of one self-destructing card with a monthly budget, while its *)
(* owner changes them: what policyDecision lets through, what a capture    *)
(* uses up and announces, and which changes the RULES command accepts.     *)
(* Each action is one transaction under the owner's lock, but for ReadCard *)
(* before it: the alerts of a capture are those of the card as its event   *)
(* was matched.  A purchase is captured in whole or reversed (in parts:    *)
(* CardAuthorizations).                                                    *)
(***************************************************************************)
EXTENDS Integers, FiniteSets, Sums

CONSTANTS
    Purchases,     \* purchases tried with the card
    AmountOf,      \* AmountOf[p]
    UsageLimits,   \* usage limits the owner may set
    Budgets,       \* monthly budgets the owner may set
    MaxSpendLimit, \* the limit of one purchase
    MaxChanges,    \* bound: rule changes
    MaxReads       \* bound: captures that have read the card and wait for the lock

ASSUME CardRulesAssumption ==
    /\ IsFiniteSet(Purchases) /\ \A p \in Purchases : AmountOf[p] \in Nat \ {0}
    /\ UsageLimits \subseteq Nat \ {0} /\ Budgets \subseteq Nat \ {0}
    /\ {MaxSpendLimit, MaxChanges, MaxReads} \subseteq Nat

VARIABLES
    rule,      \* usageLimit, monthlyLimit, and the alerts that are on
    purchase,  \* purchase[p]: its status
    read,      \* read[p]: as a set, the budget and alerts that the run capturing p has read
    booked,    \* the captures of this month
    retired,   \* the retirement marker
    alerts,    \* this month's notifications: boundary, budget, and the purchase they came with
    since,     \* what was settled when the month or the rules began
    outdated,  \* whether since then a capture announced by a budget and alerts that were changed
    changes    \* rule changes so far

ruleVars == <<rule, purchase, read, booked, retired, alerts, since, outdated, changes>>

\* notifyHalfSpent, notifyLowBalance, notifyBudgetReached: tenths of the budget.
Boundaries == {5, 8, 10}
Budgeted == [monthlyLimit : Budgets, notify : SUBSET Boundaries]

CardRulesTypeOK ==
    /\ rule \in [usageLimit : UsageLimits, monthlyLimit : Budgets, notify : SUBSET Boundaries]
    /\ purchase \in [Purchases -> {"NEW", "HELD", "CAPTURED", "REVERSED", "DECLINED"}]
    /\ read \in [Purchases -> SUBSET Budgeted] /\ booked \subseteq Purchases
    /\ alerts \subseteq [boundary : Boundaries, budget : Budgets, purchase : Purchases]
    /\ {retired, outdated} \subseteq BOOLEAN /\ since \in Nat /\ changes \in 0..MaxChanges

CardRulesInit ==
    /\ rule \in [usageLimit : UsageLimits, monthlyLimit : Budgets, notify : {{}, Boundaries}]
    /\ purchase = [p \in Purchases |-> "NEW"] /\ read = [p \in Purchases |-> {}]
    /\ booked = {} /\ retired = FALSE /\ alerts = {}
    /\ since = 0 /\ outdated = FALSE /\ changes = 0

(***************************************************************************)
(* snapshot: what the card has used.                                       *)
(***************************************************************************)
In(status) == {p \in Purchases : purchase[p] = status}
Total(S) == Sum(AmountOf, S)
SettledThisMonth == Total(booked)
Spent == SettledThisMonth + Total(In("HELD"))
CompletedUses == Cardinality(In("CAPTURED"))
CardUses == CompletedUses + Cardinality(In("HELD"))

(***************************************************************************)
(* authorize, with policyDecision.                                         *)
(***************************************************************************)
PolicyDecision(p) ==
    /\ AmountOf[p] <= MaxSpendLimit /\ Spent + AmountOf[p] <= rule.monthlyLimit
    /\ CardUses < rule.usageLimit

AuthorizePurchase(p) ==
    /\ purchase[p] = "NEW"
    /\ purchase' = [purchase EXCEPT ![p] = IF ~retired /\ PolicyDecision(p) THEN "HELD" ELSE "DECLINED"]
    /\ UNCHANGED <<rule, read, booked, retired, alerts, since, outdated, changes>>

(***************************************************************************)
(* A capture: settled spending crosses the boundaries between before and   *)
(* before + amount; the last use retires the card.                         *)
(***************************************************************************)
\* A run matches the transaction with the card, and reads it, before it has the lock; a run that
\* takes over from it reads it again.
Current == [monthlyLimit |-> rule.monthlyLimit, notify |-> rule.notify]
ReadCard(p) ==
    /\ purchase[p] = "HELD" /\ Current \notin read[p]
    /\ Cardinality({q \in Purchases \ {p} : read[q] # {}}) < MaxReads
    /\ read' = [read EXCEPT ![p] = {Current}]
    /\ UNCHANGED <<rule, purchase, booked, retired, alerts, since, outdated, changes>>

\* Mutant: a boundary that is met exactly counts before and after.
CrossedAgain(card, before, amount) ==
    {b \in card.notify : 10 * before <= b * card.monthlyLimit
                         /\ b * card.monthlyLimit <= 10 * (before + amount)}
BudgetAlertTitles(card, before, amount) ==
    {b \in card.notify : 10 * before < b * card.monthlyLimit
                         /\ b * card.monthlyLimit <= 10 * (before + amount)}

\* The card that was read tells what to announce, the rules as they are whether it is used up.
CapturePurchase(p) ==
    /\ purchase[p] = "HELD" /\ purchase' = [purchase EXCEPT ![p] = "CAPTURED"]
    /\ booked' = booked \cup {p}
    /\ \E card \in read[p] :
         /\ alerts' = alerts \cup
              {[boundary |-> b, budget |-> card.monthlyLimit, purchase |-> p] :
                  b \in BudgetAlertTitles(card, SettledThisMonth' - AmountOf[p], AmountOf[p])}
         /\ outdated' = (outdated \/ card # Current)
    /\ retired' = (retired \/ CompletedUses' >= rule.usageLimit)
    /\ read' = [read EXCEPT ![p] = {}]
    /\ UNCHANGED <<rule, since, changes>>

ReversePurchase(p) ==
    /\ purchase[p] = "HELD" /\ purchase' = [purchase EXCEPT ![p] = "REVERSED"]
    /\ read' = [read EXCEPT ![p] = {}]
    /\ UNCHANGED <<rule, booked, retired, alerts, since, outdated, changes>>

(***************************************************************************)
(* The RULES command.                                                      *)
(***************************************************************************)
\* Mutant: the new limit may be what is used up already.
ChangeFitsUses(limit) == limit >= CompletedUses /\ limit >= CardUses
UsageLimitMayBe(limit) ==
    /\ ~(CardUses >= rule.usageLimit /\ limit > rule.usageLimit)
    /\ limit > CompletedUses /\ limit >= CardUses

UpdateRules(limit, budget, notify) ==
    /\ ~retired /\ UsageLimitMayBe(limit) /\ changes < MaxChanges
    /\ rule' = [usageLimit |-> limit, monthlyLimit |-> budget, notify |-> notify]
    /\ since' = SettledThisMonth /\ outdated' = FALSE /\ changes' = changes + 1
    /\ UNCHANGED <<purchase, read, booked, retired, alerts>>

\* The deadline, or the owner, retires the card.
RetireCard ==
    /\ ~retired /\ retired' = TRUE
    /\ UNCHANGED <<rule, purchase, read, booked, alerts, since, outdated, changes>>

NextBudgetMonth ==
    /\ booked # {} /\ booked' = {} /\ alerts' = {} /\ since' = 0 /\ outdated' = FALSE
    /\ UNCHANGED <<rule, purchase, read, retired, changes>>

CardRulesNext ==
    \/ \E p \in Purchases :
         AuthorizePurchase(p) \/ ReadCard(p) \/ CapturePurchase(p) \/ ReversePurchase(p)
    \/ \E limit \in UsageLimits, budget \in Budgets, notify \in {{}, Boundaries} :
         UpdateRules(limit, budget, notify)
    \/ RetireCard \/ NextBudgetMonth

CardRulesSpec == CardRulesInit /\ [][CardRulesNext]_ruleVars

(***************************************************************************)
(* Properties.                                                             *)
(***************************************************************************)
\* "Budget alerts are emitted only when settled spending crosses a boundary"
\* (card-policy.ts:136): in whatever sums a month's purchases are settled, and also when the owner
\* changes the budget between the event and its capture, an amount that is a boundary of a budget
\* is announced once, and not before it is settled.
AlertsAreTrue ==
    /\ \A n, m \in alerts : n.boundary = m.boundary /\ n.budget = m.budget => n = m
    /\ \A n \in alerts : n.boundary * n.budget <= 10 * SettledThisMonth

\* And no boundary of the present budget that was crossed under it goes unannounced, but where a
\* capture went by a card that was changed since it was read.
AlertsAreComplete ==
    \A b \in rule.notify :
      \/ 10 * since >= b * rule.monthlyLimit \/ b * rule.monthlyLimit > 10 * SettledThisMonth
      \/ outdated
      \/ \E n \in alerts : n.boundary = b /\ n.budget = rule.monthlyLimit

AlertsAreExact == AlertsAreTrue /\ AlertsAreComplete

\* "Reserved or completed purchases prevent this usage-limit change"
\* (finance.service.ts:353-355): however the limit is changed between purchases, no more
\* than it are held or captured, and a card whose limit is used up has its marker; the
\* retirement is set where a purchase completes, not where a rule changes.
UsedUpIsRetired ==
    /\ CardUses <= rule.usageLimit
    /\ CompletedUses >= rule.usageLimit => retired
===============================================================================
