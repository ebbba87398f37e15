------------------------------- MODULE Envelope -------------------------------
(***************************************************************************)
(* What Bonde promises about the money of one virtual card, and nothing    *)
(* about callbacks, webhooks, event runs and approvals.                    *)
(*                                                                         *)
(* A card is an envelope that its owner fills from the wallet.  A purchase *)
(* takes its whole amount out of the envelope before the merchant hears of *)
(* it, at most once; a capture consumes only what the purchase holds; what *)
(* is not captured comes back, and a refund gives back only what was       *)
(* captured.  The budget counts what is held together with what was        *)
(* captured, the last use closes the envelope, and a closed envelope is    *)
(* emptied into the wallet once, when no purchase holds anything, and      *)
(* never filled again.  CardAuthorizations is shown to implement this.     *)
(***************************************************************************)
EXTENDS Integers, FiniteSets, Sums

CONSTANTS
    Purchases,
    Counted,        \* those that take a use: all but card verifications
    Amount,         \* Amount[a]: what a asks for
    Limits,         \* the limits a card may have: [uses, budget]
    Deposit         \* the wallet at the start

VARIABLES
    limit, wallet, card,
    held,           \* held[a]: taken out for a, neither captured nor given back
    captured,       \* captured[a], refunds included
    refunded,       \* refunded[a]
    phase,          \* phase[a]: "none", "open" while it holds money, "done"
    bought,         \* the purchases that were captured and count
    spent,          \* captured this month
    stage           \* "open", "closing" or "closed"

envelopeVars == <<limit, wallet, card, held, captured, refunded, phase, bought, spent, stage>>

EnvelopeInit ==
    /\ limit \in Limits /\ wallet = Deposit /\ card = 0
    /\ held = [a \in Purchases |-> 0] /\ captured = [a \in Purchases |-> 0]
    /\ refunded = [a \in Purchases |-> 0] /\ phase = [a \in Purchases |-> "none"]
    /\ bought = {} /\ spent = 0 /\ stage = "open"

Buyers == {a \in Counted : phase[a] = "open" \/ a \in bought}
MayClose == stage' \in IF stage = "open" THEN {"open", "closing"} ELSE {stage}

\* The owner moves money into the card or out of it.
Fill ==
    /\ stage = "open" /\ wallet' \in 0 .. wallet + card /\ card' = wallet + card - wallet'
    /\ UNCHANGED <<held, captured, refunded, phase, bought, spent, stage>>

Reserve(a) ==
    /\ stage = "open" /\ phase[a] = "none" /\ Amount[a] \in 1 .. card
    /\ card' = card - Amount[a] /\ held' = [held EXCEPT ![a] = Amount[a]]
    /\ spent + Sum(held', Purchases) <= limit.budget
    /\ a \in Counted => Cardinality(Buyers) < limit.uses
    /\ phase' = [phase EXCEPT ![a] = "open"]
    /\ UNCHANGED <<wallet, captured, refunded, bought, spent, stage>>

\* A verification without an amount.
Verify(a) ==
    /\ stage = "open" /\ phase[a] = "none" /\ Amount[a] = 0
    /\ phase' = [phase EXCEPT ![a] = "done"]
    /\ UNCHANGED <<wallet, card, held, captured, refunded, bought, spent, stage>>

\* A purchase that holds nothing any more is done.
Uses(a, n) ==
    /\ phase[a] = "open" /\ held' = [held EXCEPT ![a] = @ - n]
    /\ phase' = IF n = held[a] THEN [phase EXCEPT ![a] = "done"] ELSE phase

Capture(a, n) ==
    /\ Uses(a, n) /\ captured' = [captured EXCEPT ![a] = @ + n] /\ spent' = spent + n
    /\ bought' = bought \cup ({a} \cap Counted)
    /\ MayClose /\ (Cardinality(bought') >= limit.uses => stage' # "open")
    /\ UNCHANGED <<wallet, card, refunded>>

GiveBack(a, n) ==
    /\ captured[a] = 0 /\ stage # "closed" /\ Uses(a, n) /\ card' = card + n
    /\ UNCHANGED <<wallet, captured, refunded, bought, spent, stage>>

Refund(a, n) ==
    /\ refunded[a] + n <= captured[a] /\ refunded' = [refunded EXCEPT ![a] = @ + n]
    /\ IF stage = "open" THEN card' = card + n /\ UNCHANGED wallet
                         ELSE wallet' = wallet + n /\ UNCHANGED card
    /\ UNCHANGED <<held, captured, phase, bought, spent, stage>>

Close ==
    /\ stage = "open" /\ stage' = "closing"
    /\ UNCHANGED <<wallet, card, held, captured, refunded, phase, bought, spent>>

Empty ==
    /\ stage = "closing" /\ \A a \in Purchases : phase[a] # "open"
    /\ stage' = "closed" /\ wallet' = wallet + card /\ card' = 0
    /\ UNCHANGED <<held, captured, refunded, phase, bought, spent>>

NewMonth ==
    /\ spent' = 0
    /\ UNCHANGED <<wallet, card, held, captured, refunded, phase, bought, stage>>

EnvelopeNext ==
    /\ \/ Fill
       \/ \E a \in Purchases :
            \/ Reserve(a) \/ Verify(a)
            \/ \E n \in 1 .. held[a] : Capture(a, n)
            \/ \E n \in 0 .. held[a] : GiveBack(a, n)
            \/ \E n \in 1 .. captured[a] : Refund(a, n)
       \/ Close \/ Empty \/ NewMonth
    /\ UNCHANGED limit

EnvelopeSpec == EnvelopeInit /\ [][EnvelopeNext]_envelopeVars
===============================================================================
