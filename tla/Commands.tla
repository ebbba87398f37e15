------------------------------- MODULE Commands -------------------------------
(***************************************************************************)
(* Money commands of one user: the passcode proof, the Idempotency-Key and *)
(* everything FinanceService.execute decides in its one transaction under  *)
(* the owner's row lock.  Clients lose answers, send a request again or    *)
(* twice at once, let a proof expire and reuse a key; cards fall due; the  *)
(* worker, reduced here to the status it leaves, finishes operations in    *)
(* between.  A request that is refused, or answered with the operation its *)
(* key has, changes nothing here: what a client is told is not in the      *)
(* model, since validate and ensureDue refuse a repeated request too.      *)
(***************************************************************************)
EXTENDS Integers, FiniteSets, Sums

CONSTANTS
    Keys,          \* Idempotency-Keys; the card an ISSUE creates has its key
    Proofs,        \* proofs that may be issued
    Requested,     \* the commands a client sends
    Fee,           \* of ISSUE and WITHDRAW, on an amount of 1
    Balance,       \* the wallet at the start
    StandardLimit, RuledLimit,  \* live cards of a free plan
    PremiumLimit                \* live cards of Premium

Kinds == {"ISSUE", "WITHDRAW", "ALLOCATE", "RETURN", "RULES", "THRESHOLDS", "PAUSE", "RESUME",
          "RETIRE", "CANCEL"}
CardKinds == Kinds \ {"ISSUE", "WITHDRAW", "THRESHOLDS"}

\* validate: ruled says that the command has rules.type, card is a set of at most one card.
Validated(c) ==
    /\ c \in [kind : Kinds, card : SUBSET Keys, ruled : BOOLEAN]
    /\ Cardinality(c.card) = IF c.kind \in CardKinds THEN 1 ELSE 0

\* The commands are those that validate lets through.
ASSUME CommandAssumption ==
    /\ \A c \in Requested : Validated(c)
    /\ {Fee, Balance, StandardLimit, RuledLimit, PremiumLimit} \subseteq Nat
    /\ IsFiniteSet(Keys)

VARIABLES
    proof,    \* proof[p]: its state and, as a set, the command it was issued for
    operation,\* operation[k]: status, and as sets its command and its proof
    card,     \* card[k]: status, type, retirement, rulesVersion above 0, funds, and
              \* its own operation retire_<card>
    purse,    \* ledger: wallet, holds, and what left to the bank and as fees
    premium   \* profiles.cardPlan: FREE, PREMIUM, or PREMIUM past its end

commandVars == <<proof, operation, card, purse, premium>>

NoOperation == [status |-> "none", command |-> {}, proof |-> {}]
NoCard == [status |-> "none", ruled |-> FALSE, retirement |-> "none", version |-> 0, funds |-> 0,
           retires |-> "none"]
\* What the check for another action looks for; a RETIRE that waits for settlement, an ISSUE whose
\* card Sudo has not switched on yet and a WITHDRAW the bank has not settled are PENDING and not
\* among them.
InHand == {"QUEUED", "PROCESSING", "UNKNOWN"}
Unfinished == InHand \cup {"PENDING"}

CommandTypeOK ==
    /\ proof \in [Proofs -> [state : {"none", "fresh", "consumed", "expired"},
                             command : SUBSET Requested]]
    /\ operation \in [Keys -> [status : {"none", "SUCCEEDED", "FAILED", "SUPERSEDED"} \cup Unfinished,
                               command : SUBSET Requested, proof : SUBSET Proofs]]
    /\ card \in [Keys -> [status : {"none", "ACTIVE", "PAUSED", "CANCELLED"}, ruled : BOOLEAN,
                          retirement : {"none", "RETIRING", "RETIRED", "CLOSED"},
                          version : 0..Cardinality(Keys), funds : Nat,
                          retires : {"none", "QUEUED", "PENDING"}]]
    /\ purse \in [wallet : Nat, held : Nat, gone : Nat]
    /\ premium \in {"FREE", "PREMIUM", "EXPIRED"}

CommandInit ==
    /\ proof = [p \in Proofs |-> [state |-> "none", command |-> {}]]
    /\ operation = [k \in Keys |-> NoOperation] /\ card = [k \in Keys |-> NoCard]
    /\ purse = [wallet |-> Balance, held |-> 0, gone |-> 0]
    /\ premium \in {"FREE", "PREMIUM"}

(***************************************************************************)
(* proof: validate let the command through and the passcode was checked.   *)
(***************************************************************************)
IssueProof(p, c) ==
    /\ proof[p].state = "none"
    /\ proof' = [proof EXCEPT ![p] = [state |-> "fresh", command |-> {c}]]
    /\ UNCHANGED <<operation, card, purse, premium>>

ProofExpires(p) ==
    /\ proof[p].state = "fresh" /\ proof' = [proof EXCEPT ![p].state = "expired"]
    /\ UNCHANGED <<operation, card, purse, premium>>

Live(k) == card[k].status \notin {"none", "CANCELLED"}
           /\ card[k].retirement \notin {"RETIRED", "CLOSED"}
LiveCards(types) == Cardinality({k \in Keys : Live(k) /\ card[k].ruled \in types})

\* The plan's capacity; a free plan has one standard card and two with a rule.
HasCapacity(c) ==
    IF premium = "PREMIUM" THEN LiveCards(BOOLEAN) < PremiumLimit
    ELSE /\ LiveCards(BOOLEAN) < StandardLimit + RuledLimit
         /\ LiveCards({c.ruled}) < IF c.ruled THEN RuledLimit ELSE StandardLimit

\* CardAccessService.summary: the kinds of card the app offers to create.
\* Mutant: a card with a rule is offered whatever standard cards are kept from the last plan.
OfferedByRuleAlone(ruled) ==
    IF premium = "PREMIUM" THEN LiveCards(BOOLEAN) < PremiumLimit
    ELSE IF ruled THEN LiveCards({TRUE}) < RuledLimit
    ELSE LiveCards({FALSE}) < StandardLimit /\ LiveCards({TRUE}) <= RuledLimit
Offered(ruled) ==
    IF premium = "PREMIUM" THEN LiveCards(BOOLEAN) < PremiumLimit
    ELSE IF ruled THEN LiveCards({TRUE}) < RuledLimit /\ LiveCards({FALSE}) <= StandardLimit
    ELSE LiveCards({FALSE}) < StandardLimit /\ LiveCards({TRUE}) <= RuledLimit

\* The operations of a card: the ISSUE that made it and the commands on it.
On(k, t) == k = t \/ \E c \in operation[k].command : c.card = {t}

\* Mutant: an operation that may have been carried out does not hold up the next one.
BusyUnlessUnknown(t) ==
    \/ card[t].retires = "QUEUED"
    \/ \E k \in Keys : operation[k].status \in InHand \ {"UNKNOWN"} /\ On(k, t)
Busy(t) == card[t].retires = "QUEUED" \/ \E k \in Keys : operation[k].status \in InHand /\ On(k, t)

\* ensureDue, by scan and before every command on the card: a card whose deadline has passed or
\* whose uses are up is marked, and gets a RETIRE of its own unless it has one.
HasRetire(t) ==
    \/ card[t].retires # "none"
    \/ \E k \in Keys : /\ operation[k].status # "none"
                       /\ \E c \in operation[k].command : c.card = {t} /\ c.kind = "RETIRE"
EnsureDue(t) ==
    /\ card[t].status \notin {"none", "CANCELLED"} /\ card[t].retirement \in {"none", "RETIRING"}
    /\ card' = [card EXCEPT ![t].retirement = "RETIRING",
                            ![t].retires = IF HasRetire(t) THEN @ ELSE "QUEUED"]
    /\ UNCHANGED <<proof, operation, purse, premium>>

CardAccepts(c, t) ==
    /\ card[t].status \notin {"none", "CANCELLED"} /\ ~Busy(t)
    /\ card[t].retirement # "none" => c.kind \in {"RETIRE", "CANCEL"}
    /\ c.kind = "RULES" => c.ruled = card[t].ruled

Debit(c) == CASE c.kind \in {"ISSUE", "WITHDRAW"} -> 1 + Fee [] c.kind = "ALLOCATE" -> 1
              [] OTHER -> 0
Acceptable(c) ==
    /\ purse.wallet >= Debit(c)
    /\ c.kind = "ISSUE" => HasCapacity(c)
    /\ \A t \in c.card : CardAccepts(c, t) /\ (c.kind = "RETURN" => card[t].funds >= 1)

\* Kinds the transaction completes by itself; the others are for the worker.
Immediate == {"ALLOCATE", "RETURN", "RULES", "THRESHOLDS"}

Apply(k, c) ==
    /\ purse' = [purse EXCEPT !.wallet = @ - Debit(c) + (IF c.kind = "RETURN" THEN 1 ELSE 0),
                              !.held = @ + IF c.kind \in Immediate THEN 0 ELSE Debit(c)]
    /\ card' = [t \in Keys |->
         IF c.kind = "ISSUE" /\ t = k THEN [NoCard EXCEPT !.status = "PAUSED", !.ruled = c.ruled]
         ELSE IF t \notin c.card THEN card[t]
         ELSE CASE c.kind = "ALLOCATE" -> [card[t] EXCEPT !.funds = @ + 1]
                [] c.kind = "RETURN"   -> [card[t] EXCEPT !.funds = @ - 1]
                [] c.kind = "RULES"    -> [card[t] EXCEPT !.version = @ + 1]
                [] c.kind \in {"RETIRE", "CANCEL"} ->
                     [card[t] EXCEPT !.retirement = IF @ = "none" THEN "RETIRING" ELSE @]
                [] OTHER -> card[t]]

\* Mutant: a proof that was used is taken again.
ValidAgain(p, c) == proof[p].state \in {"fresh", "consumed"} /\ proof[p].command = {c}

Valid(p, c) == proof[p] = [state |-> "fresh", command |-> {c}]

\* execute.  validate may refuse any request, the first and the repeated one: it looks at the
\* clock, at the fees and at the currencies that are on.  ensureDue has then run in a transaction
\* of its own, EnsureDue, and others may come between.  A key that has its operation, a proof that
\* does not fit and a command that cannot be carried out change nothing: what throws rolls the
\* proof back too.
Execute(k, c, p) ==
    /\ operation[k].status = "none" /\ Valid(p, c) /\ Acceptable(c)
    /\ proof' = [proof EXCEPT ![p].state = "consumed"]
    /\ operation' = [operation EXCEPT ![k] =
         [status |-> IF c.kind \in Immediate THEN "SUCCEEDED" ELSE "QUEUED",
          command |-> {c}, proof |-> {p}]]
    /\ Apply(k, c)
    /\ UNCHANGED premium

(***************************************************************************)
(* What the rest of the system does meanwhile.                             *)
(***************************************************************************)
\* A run claims the operation, does not know what became of it, or finds that it has to wait; a
\* RETIRE is then claimed again.
StatusAfter(k) ==
    LET kinds == {c.kind : c \in operation[k].command} IN
    CASE operation[k].status = "QUEUED" -> {"PROCESSING"}
      [] operation[k].status = "PROCESSING" ->
           {"UNKNOWN"} \cup {"PENDING" : kind \in kinds \cap {"RETIRE", "WITHDRAW"}}
      [] operation[k].status \in {"UNKNOWN", "PENDING"} ->
           {"PROCESSING" : kind \in kinds \cap {"RETIRE"}} \cup {"PENDING" : kind \in kinds \cap {"WITHDRAW"}}
      [] OTHER -> {}
Work(k) ==
    /\ \E status \in StatusAfter(k) : operation' = [operation EXCEPT ![k].status = status]
    /\ UNCHANGED <<proof, card, purse, premium>>

\* What may end now: it was begun, and a WITHDRAW may have waited.
Ends(k, c) ==
    \/ operation[k].status \in {"PROCESSING", "UNKNOWN"}
    \/ operation[k].status = "PENDING" /\ c.kind = "WITHDRAW"

CardFunds == [t \in Keys |-> card[t].funds]

Retired(row) == IF row.status = "CANCELLED" THEN "CLOSED" ELSE "RETIRED"

\* RETIRE and CANCEL return the funds, ISSUE funds the card and is PENDING until Sudo's card is
\* on, and a RESUME that comes after the card was marked is superseded.
Overtaken(c) == c.kind = "RESUME" /\ \E t \in c.card : card[t].retirement # "none"
Shown(t, on) == IF on /\ card[t].retirement = "none" THEN "ACTIVE" ELSE "PAUSED"
Succeed(k) ==
    /\ \E c \in operation[k].command, on \in BOOLEAN :
         /\ Ends(k, c) /\ (c.kind # "ISSUE" => on)
         /\ operation' = [operation EXCEPT ![k].status =
              IF ~on THEN "PENDING" ELSE IF Overtaken(c) THEN "SUPERSEDED" ELSE "SUCCEEDED"]
         /\ card' = [t \in Keys |->
              IF c.kind = "ISSUE" /\ t = k THEN [card[t] EXCEPT !.funds = 1, !.status = Shown(t, on)]
              ELSE IF t \notin c.card \/ Overtaken(c) THEN card[t]
              ELSE CASE c.kind = "RETIRE" -> [card[t] EXCEPT !.funds = 0, !.retirement = Retired(card[t])]
                     [] c.kind = "CANCEL" -> [card[t] EXCEPT !.retirement = "CLOSED", !.funds = 0,
                                                             !.status = "CANCELLED"]
                     [] c.kind = "PAUSE"  -> [card[t] EXCEPT !.status = "PAUSED"]
                     [] c.kind = "RESUME" -> [card[t] EXCEPT !.status = "ACTIVE"]
                     [] OTHER -> card[t]]
         /\ LET paid == IF c.kind \in {"ISSUE", "WITHDRAW"} THEN 1 + Fee ELSE 0
                back == IF c.kind \in {"RETIRE", "CANCEL"}
                        THEN Sum(CardFunds, c.card) ELSE 0
            IN purse' = [wallet |-> purse.wallet + back, held |-> purse.held - paid,
                         gone |-> purse.gone + paid - (IF c.kind = "ISSUE" THEN 1 ELSE 0)]
    /\ UNCHANGED <<proof, premium>>

\* finishIssue again, with a card that was on when Sudo was asked, whatever was done to it since.
SwitchedOn(k) ==
    /\ operation[k].status = "PENDING" /\ \E c \in operation[k].command : c.kind = "ISSUE"
    /\ operation' = [operation EXCEPT ![k].status = "SUCCEEDED"]
    /\ card' = [card EXCEPT ![k].status = Shown(k, TRUE)]
    /\ UNCHANGED <<proof, purse, premium>>

\* The RETIRE of the card itself, once Sudo's card is stored, waits for settlement or ends; that may
\* be before the allocation of the ISSUE is booked (CardLifecycle).
RetiresItself(t) ==
    /\ card[t].retires # "none" /\ operation[t].status \in {"PROCESSING", "UNKNOWN", "PENDING", "SUCCEEDED"}
    /\ \/ /\ card' = [card EXCEPT ![t].retires = IF @ = "QUEUED" THEN "PENDING" ELSE "QUEUED"]
          /\ UNCHANGED purse
       \/ /\ card' = [card EXCEPT ![t].retires = "none", ![t].funds = 0,
                                  ![t].retirement = Retired(card[t])]
          /\ purse' = [purse EXCEPT !.wallet = @ + card[t].funds]
    /\ UNCHANGED <<proof, operation, premium>>

\* A retirement is never given up.
Fail(k) ==
    /\ operation' = [operation EXCEPT ![k].status = "FAILED"]
    /\ \E c \in operation[k].command :
         LET back == IF c.kind \in {"ISSUE", "WITHDRAW"} THEN 1 + Fee ELSE 0 IN
         /\ Ends(k, c) /\ c.kind # "RETIRE"
         /\ purse' = [purse EXCEPT !.wallet = @ + back, !.held = @ - back]
         /\ card' = IF c.kind = "ISSUE" THEN [card EXCEPT ![k].status = "CANCELLED"] ELSE card
    /\ UNCHANGED <<proof, premium>>

PlanEnds ==
    /\ premium = "PREMIUM" /\ premium' = "EXPIRED"
    /\ UNCHANGED <<proof, operation, card, purse>>

CommandNext ==
    \/ \E p \in Proofs, c \in Requested : IssueProof(p, c)
    \/ \E p \in Proofs : ProofExpires(p)
    \/ \E k \in Keys, c \in Requested, p \in Proofs : Execute(k, c, p)
    \/ \E k \in Keys : Work(k) \/ Succeed(k) \/ SwitchedOn(k) \/ Fail(k) \/ EnsureDue(k) \/ RetiresItself(k)
    \/ PlanEnds

CommandSpec == CommandInit /\ [][CommandNext]_commandVars

(***************************************************************************)
(* Properties.                                                             *)
(***************************************************************************)
\* "Money commands require an operation-bound, single-use proof" (docs/sudo-safehaven.md:34):
\* every operation has a proof of its own that was issued for exactly its command.
OperationsHaveProofs ==
    /\ \A k \in Keys : operation[k].status # "none" =>
         \E p \in Proofs : /\ operation[k].proof = {p}
                           /\ proof[p] = [state |-> "consumed", command |-> operation[k].command]
    /\ \A k, l \in Keys : k # l => operation[k].proof \cap operation[l].proof = {}

\* And nothing was moved but by these operations: the money of the user, the holds, the cards
\* and what left adds up.
OneProofOneOperation ==
    /\ OperationsHaveProofs
    /\ purse.wallet + purse.held + purse.gone + Sum(CardFunds, Keys) = Balance

\* What of an operation may still be done to its card: an ISSUE that is PENDING has funded the card
\* and only waits for Sudo to switch it on, and the card takes commands.
Acting(k) ==
    \/ operation[k].status \in InHand
    \/ operation[k].status = "PENDING" /\ \E c \in operation[k].command : c.kind # "ISSUE"

\* "Another action is pending on this card" (finance.service.ts:325): of two commands of one card
\* that are both unfinished, its ISSUE included and also while it is uncertain whether one of them
\* was carried out, one is a RETIRE, which waits for settlement, and the other retires or closes
\* the card as well: a PAUSE and a RESUME, or an unfunded ISSUE and a CANCEL, never overtake one
\* another.
OneActionPerCard ==
    \A t \in Keys : \A k, l \in {o \in Keys : Acting(o) /\ On(o, t)} :
        k # l => \A c \in operation[k].command, d \in operation[l].command :
                     {"RETIRE"} \subseteq {c.kind, d.kind} /\ {c.kind, d.kind} \subseteq {"RETIRE", "CANCEL"}

\* What the app offers to create (GET cards/creation-access) the ISSUE command has room for, also
\* where PREMIUM has ended and left more cards than a free plan has; the two count the cards of a
\* plan by rules of their own (card-access.service.ts:45-49, finance.service.ts:226-248).
OffersAreHonoured == \A ruled \in BOOLEAN : Offered(ruled) => HasCapacity([ruled |-> ruled])
===============================================================================
