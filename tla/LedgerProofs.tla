------------------------------ MODULE LedgerProofs ------------------------------
(***************************************************************************)
(* Proofs about the user's money: what commands move (Commands), what the  *)
(* ledger books (Ledger), and the rules and budget of a card (CardRules).  *)
(***************************************************************************)
EXTENDS FinanceProofs, Ledger, CardRules, SumLemmas

(***************************************************************************)
(* Commands: every command moves the money it names, out of the wallet,    *)
(* into a hold, onto a card or away.                                       *)
(***************************************************************************)
Purse == [wallet : Int, held : Int, gone : Int]
MayWait == {"RETIRE", "WITHDRAW", "ISSUE"}

\* A key without an operation has no card yet, an ISSUE in hand has not funded its card, only what
\* may wait is PENDING, and a command that names a card found one.
PurseInv ==
    /\ purse \in Purse
    /\ \A k \in Keys : operation[k].status = "none" => card[k].status = "none" /\ card[k].funds = 0
    /\ \A k \in Keys : \A c \in operation[k].command :
         /\ operation[k].status \in InHand /\ c.kind = "ISSUE" => card[k].funds = 0
         /\ operation[k].status = "PENDING" => c.kind \in MayWait
         /\ c.kind = "ISSUE" => card[k].status # "none"
         /\ \A t \in c.card : card[t].status # "none"
    /\ purse.wallet + purse.held + purse.gone + Sum(CardFunds, Keys) = Balance

MoneyInv == ProofsInv /\ CardsInv /\ PurseInv

LEMMA FundsAreNumbers ==
    ASSUME CardsInv
    PROVE  Sum(CardFunds, Keys) \in Nat /\ \A t \in Keys : CardFunds[t] = card[t].funds /\ card[t].funds \in Nat
<1>1. \A t \in Keys : CardFunds[t] = card[t].funds /\ card[t].funds \in Nat
  BY DEF CardsInv, CardRow, CardFunds
<1> QED BY <1>1, CommandAssumption, SumType

\* What the card gets the purse gives.
LEMMA FundsMove ==
    ASSUME CardsInv, CardsInv', PurseInv, purse' \in Purse, NEW t \in Keys,
           \A s \in Keys \ {t} : card'[s].funds = card[s].funds,
           purse'.wallet + purse'.held + purse'.gone + card'[t].funds =
             purse.wallet + purse.held + purse.gone + card[t].funds
    PROVE  purse'.wallet + purse'.held + purse'.gone + Sum(CardFunds, Keys)' = Balance
<1> DEFINE f == CardFunds
           g == CardFunds'
<1>1. \A s \in Keys : f[s] = card[s].funds /\ f[s] \in Nat
  BY FundsAreNumbers
<1>2. \A s \in Keys : g[s] = card'[s].funds /\ g[s] \in Nat
  BY DEF CardsInv, CardRow, CardFunds
<1>3. \A s \in Keys \ {t} : f[s] = g[s]
  BY <1>1, <1>2
<1>4. ASSUME NEW v, NEW w, \A s \in Keys : v[s] \in Nat /\ w[s] \in Nat,
             \A s \in Keys \ {t} : v[s] = w[s]
      PROVE  Sum(w, Keys) = Sum(v, Keys) + w[t] - v[t] /\ Sum(v, Keys) \in Nat
  <2>1. IsFiniteSet(Keys)
    BY CommandAssumption
  <2>2. Sum(w, Keys) = Sum(v, Keys) + w[t] - v[t]
    BY <1>4, <2>1, SumChanges
  <2> QED BY <1>4, <2>1, <2>2, SumType
<1> HIDE DEF f, g
<1>5. Sum(g, Keys) = Sum(f, Keys) + g[t] - f[t] /\ Sum(f, Keys) \in Nat
  BY <1>1, <1>2, <1>3, <1>4
<1>6. Sum(CardFunds, Keys)' = Sum(g, Keys)
  BY DEF g, Sum, Units
<1>7. purse.wallet + purse.held + purse.gone + Sum(f, Keys) = Balance
  BY DEF f, PurseInv
<1>8. /\ purse.wallet \in Int /\ purse.held \in Int /\ purse.gone \in Int
      /\ purse'.wallet \in Int /\ purse'.held \in Int /\ purse'.gone \in Int
  BY DEF PurseInv, Purse
<1>9. f[t] = card[t].funds /\ g[t] = card'[t].funds /\ f[t] \in Nat /\ g[t] \in Nat
  BY <1>1, <1>2
<1> QED BY <1>5, <1>6, <1>7, <1>8, <1>9

LEMMA PurseStarts == CommandInit => PurseInv
<1> SUFFICES ASSUME CommandInit PROVE PurseInv
  OBVIOUS
<1>1. card = [k \in Keys |-> NoCard] /\ operation = [k \in Keys |-> NoOperation]
  BY DEF CommandInit
<1>2. \A k \in Keys : CardFunds[k] = 0
  BY <1>1 DEF CardFunds, NoCard
<1>3. Sum(CardFunds, Keys) = 0
  BY <1>2, SumZero
<1>4. Balance \in Nat
  BY CommandAssumption
<1>5. /\ purse \in Purse
      /\ purse.wallet + purse.held + purse.gone = Balance
  BY <1>4 DEF CommandInit, Purse
<1>6. \A k \in Keys : /\ operation[k].command = {} /\ card[k].status = "none"
                      /\ card[k].funds = 0
  BY <1>1 DEF NoOperation, NoCard
<1>7. purse.wallet + purse.held + purse.gone + Sum(CardFunds, Keys) = Balance
  BY <1>3, <1>4, <1>5
<1> QED BY <1>5, <1>6, <1>7 DEF PurseInv

\* A command that validate lets through names one card, or none where it is not about a card.
LEMMA CommandsNameOneCard ==
    ASSUME NEW c \in Requested
    PROVE  /\ c.card \subseteq Keys /\ c.kind \in Kinds /\ c.ruled \in BOOLEAN
           /\ c.kind \in CardKinds => \E t \in Keys : c.card = {t}
           /\ c.kind \in {"ISSUE", "WITHDRAW", "THRESHOLDS"} => c.card = {}
<1>1. Validated(c) /\ IsFiniteSet(Keys)
  BY CommandAssumption
<1>2. c.card \subseteq Keys /\ c.kind \in Kinds /\ c.ruled \in BOOLEAN
  BY <1>1 DEF Validated
<1>3. IsFiniteSet(c.card) /\ Cardinality(c.card) = IF c.kind \in CardKinds THEN 1 ELSE 0
  BY <1>1, <1>2, FS_Subset DEF Validated
<1>4. c.kind \in CardKinds => \E t \in Keys : c.card = {t}
  BY <1>2, <1>3, FS_Singleton
<1>5. c.kind \in {"ISSUE", "WITHDRAW", "THRESHOLDS"} => c.card = {}
  BY <1>3, FS_EmptySet DEF CardKinds
<1> QED BY <1>2, <1>4, <1>5

LEMMA DebitIsNatural ==
    ASSUME NEW c
    PROVE  /\ Debit(c) \in Nat /\ Fee \in Nat
           /\ c.kind \in {"ISSUE", "WITHDRAW"} => Debit(c) = 1 + Fee
           /\ c.kind = "ALLOCATE" => Debit(c) = 1
           /\ c.kind \notin {"ISSUE", "WITHDRAW", "ALLOCATE"} => Debit(c) = 0
  BY CommandAssumption DEF Debit

\* An operation on a card finds it and no other one under way for it.
LEMMA ExecuteKeepsPurse ==
    ASSUME MoneyInv, ProofsInv', CardsInv', NEW k \in Keys, NEW c \in Requested, NEW p \in Proofs,
           Execute(k, c, p)
    PROVE  PurseInv'
<1> DEFINE status == IF c.kind \in Immediate THEN "SUCCEEDED" ELSE "QUEUED"
<1>1. /\ CardsInv /\ PurseInv
      /\ c.card \subseteq Keys /\ c.kind \in Kinds
      /\ c.kind \in CardKinds => \E t \in Keys : c.card = {t}
      /\ c.kind \in {"ISSUE", "WITHDRAW", "THRESHOLDS"} => c.card = {}
  BY CommandsNameOneCard DEF MoneyInv
<1>2. /\ operation'[k].status = status /\ operation'[k].command = {c}
      /\ \A l \in Keys : l # k => operation'[l] = operation[l]
  BY DEF Execute, MoneyInv, ProofsInv
<1>3. card[k].status = "none" /\ card[k].funds = 0
  BY <1>1 DEF PurseInv, Execute
<1>4. ASSUME NEW t \in c.card
      PROVE  /\ card[t].status # "none" /\ ~Busy(t)
             /\ c.kind = "RETURN" => card[t].funds >= 1
  BY <1>4 DEF Execute, Acceptable, CardAccepts
\* What becomes of a card.
<1>5. ASSUME NEW t \in Keys, t \notin c.card, ~(c.kind = "ISSUE" /\ t = k)
      PROVE  card'[t] = card[t]
  BY <1>5 DEF Execute, Apply
<1>6. ASSUME c.kind = "ISSUE" PROVE card'[k].status = "PAUSED" /\ card'[k].funds = 0
  BY <1>6 DEF Execute, Apply, NoCard
<1>7. ASSUME NEW t \in c.card
      PROVE  /\ card'[t].status = card[t].status /\ card'[t].funds \in Int
             /\ c.kind = "ALLOCATE" => card'[t].funds = card[t].funds + 1
             /\ c.kind = "RETURN" => card'[t].funds = card[t].funds - 1
             /\ c.kind \notin {"ALLOCATE", "RETURN"} => card'[t].funds = card[t].funds
  <2>1. card[t] \in CardRow /\ t \in Keys /\ c.kind # "ISSUE"
    BY <1>1, <1>7 DEF CardsInv
  <2>2. /\ c.kind = "ALLOCATE" => card'[t] = [card[t] EXCEPT !.funds = @ + 1]
        /\ c.kind = "RETURN" => card'[t] = [card[t] EXCEPT !.funds = @ - 1]
        /\ c.kind \notin {"ALLOCATE", "RETURN"} =>
             \/ card'[t] = card[t]
             \/ card'[t] = [card[t] EXCEPT !.version = @ + 1]
             \/ card'[t] = [card[t] EXCEPT !.retirement = IF @ = "none" THEN "RETIRING" ELSE @]
    BY <1>7, <2>1 DEF Execute, Apply
  <2>3. CASE c.kind = "ALLOCATE"
    BY <2>1, <2>2, <2>3 DEF CardRow
  <2>4. CASE c.kind = "RETURN"
    BY <2>1, <2>2, <2>4 DEF CardRow
  <2>5. CASE c.kind \notin {"ALLOCATE", "RETURN"}
    BY <2>1, <2>2, <2>5 DEF CardRow
  <2> QED BY <2>3, <2>4, <2>5
<1>8. \A t \in Keys : card[t].status # "none" => card'[t].status # "none"
  BY <1>3, <1>5, <1>7
\* What becomes of the purse.
<1>9. /\ purse' \in Purse
      /\ purse'.wallet = purse.wallet - Debit(c) + (IF c.kind = "RETURN" THEN 1 ELSE 0)
      /\ purse'.held = purse.held + IF c.kind \in Immediate THEN 0 ELSE Debit(c)
      /\ purse'.gone = purse.gone
  <2> DEFINE w == purse.wallet - Debit(c) + (IF c.kind = "RETURN" THEN 1 ELSE 0)
             h == purse.held + IF c.kind \in Immediate THEN 0 ELSE Debit(c)
  <2>1. purse' = [purse EXCEPT !.wallet = w, !.held = h]
    BY DEF Execute, Apply
  <2>2. purse \in Purse /\ Debit(c) \in Nat
    BY <1>1, DebitIsNatural DEF PurseInv
  <2>3. w \in Int /\ h \in Int
    BY <2>2 DEF Purse
  <2> HIDE DEF w, h
  <2>4. purse' \in Purse /\ purse'.wallet = w /\ purse'.held = h /\ purse'.gone = purse.gone
    BY <2>1, <2>2, <2>3 DEF Purse
  <2> QED BY <2>4 DEF w, h
<1>10. purse.wallet \in Int /\ purse.held \in Int /\ purse.gone \in Int
  BY <1>1 DEF PurseInv, Purse
<1>11. purse'.wallet + purse'.held + purse'.gone + Sum(CardFunds, Keys)' = Balance
  <2>1. CASE \E t \in Keys : c.card = {t}
    <3>1. PICK t \in Keys : c.card = {t}
      BY <2>1
    <3>2. \A s \in Keys \ {t} : card'[s].funds = card[s].funds
      BY <1>1, <1>5, <3>1
    <3>3. purse'.wallet + purse'.held + purse'.gone + card'[t].funds =
            purse.wallet + purse.held + purse.gone + card[t].funds
      <4>1. card[t].funds \in Nat
        BY <1>1 DEF CardsInv, CardRow
      <4>2. CASE c.kind = "ALLOCATE"
        <5>1. /\ purse'.wallet = purse.wallet - 1 /\ purse'.held = purse.held /\ purse'.gone = purse.gone
              /\ card'[t].funds = card[t].funds + 1
          BY <1>7, <1>9, <1>10, <3>1, <4>2, DebitIsNatural DEF Immediate
        <5> QED BY <1>10, <4>1, <5>1
      <4>3. CASE c.kind = "RETURN"
        <5>1. /\ purse'.wallet = purse.wallet + 1 /\ purse'.held = purse.held /\ purse'.gone = purse.gone
              /\ card'[t].funds = card[t].funds - 1
          BY <1>7, <1>9, <1>10, <3>1, <4>3, DebitIsNatural DEF Immediate
        <5> QED BY <1>10, <4>1, <5>1
      <4>4. CASE c.kind \notin {"ALLOCATE", "RETURN"}
        <5>1. c.kind \notin {"ISSUE", "WITHDRAW", "ALLOCATE"} /\ Debit(c) = 0
          BY <1>1, <3>1, <4>4, DebitIsNatural
        <5>2. /\ purse'.wallet = purse.wallet /\ purse'.held = purse.held
              /\ card'[t].funds = card[t].funds
          BY <1>7, <1>9, <1>10, <3>1, <4>4, <5>1
        <5> QED BY <1>9, <5>2
      <4> QED BY <4>2, <4>3, <4>4
    <3> QED BY <1>1, <1>9, <3>2, <3>3, FundsMove
  <2>2. CASE c.card = {}
    <3>1. \A s \in Keys : card'[s].funds = card[s].funds
      BY <1>3, <1>5, <1>6, <2>2
    <3>2. c.kind \in {"ISSUE", "WITHDRAW", "THRESHOLDS"}
      BY <1>1, <2>2 DEF CardKinds
    <3>3. purse'.wallet + purse'.held + purse'.gone = purse.wallet + purse.held + purse.gone
      <4>1. Debit(c) \in Nat /\ (c.kind = "THRESHOLDS" => Debit(c) = 0)
        BY DebitIsNatural
      <4>2. CASE c.kind = "THRESHOLDS"
        BY <1>9, <1>10, <4>1, <4>2 DEF Immediate
      <4>3. CASE c.kind # "THRESHOLDS"
        BY <1>9, <1>10, <3>2, <4>1, <4>3 DEF Immediate
      <4> QED BY <4>2, <4>3
    <3>4. purse'.wallet + purse'.held + purse'.gone + card'[k].funds =
            purse.wallet + purse.held + purse.gone + card[k].funds
      BY <3>1, <3>3
    <3> QED BY <1>1, <1>9, <3>1, <3>4, FundsMove
  <2> QED BY <1>1, <2>1, <2>2 DEF CardKinds
<1>12. ASSUME NEW l \in Keys, operation'[l].status = "none"
       PROVE  card'[l].status = "none" /\ card'[l].funds = 0
  <2>1. l # k /\ operation[l].status = "none"
    BY <1>2, <1>12
  <2>2. card[l].status = "none" /\ card[l].funds = 0
    BY <1>1, <2>1 DEF PurseInv
  <2>3. l \notin c.card
    BY <1>4, <2>2
  <2> QED BY <1>5, <2>1, <2>2, <2>3
<1>13. ASSUME NEW l \in Keys, NEW d \in operation'[l].command
       PROVE  /\ operation'[l].status \in InHand /\ d.kind = "ISSUE" => card'[l].funds = 0
              /\ operation'[l].status = "PENDING" => d.kind \in MayWait
              /\ d.kind = "ISSUE" => card'[l].status # "none"
              /\ \A t \in d.card : card'[t].status # "none"
  <2>1. CASE l = k
    <3>1. d = c
      BY <1>2, <1>13, <2>1
    <3>2. \A t \in c.card : t \in Keys /\ card'[t].status # "none"
      BY <1>1, <1>4, <1>7
    <3> QED BY <1>2, <1>6, <2>1, <3>1, <3>2
  <2>2. CASE l # k
    <3>1. operation'[l] = operation[l] /\ d \in operation[l].command
      BY <1>2, <1>13, <2>2
    <3>2. ASSUME operation[l].status \in InHand, d.kind = "ISSUE" PROVE card'[l].funds = 0
      <4>1. card[l].funds = 0
        BY <1>1, <3>1, <3>2 DEF PurseInv
      <4>2. Busy(l)
        BY <1>1, <3>1, <3>2 DEF PurseInv, Busy, On
      <4>3. l \notin c.card
        BY <1>4, <4>2
      <4> QED BY <1>5, <2>2, <4>1, <4>3
    <3>3. ASSUME NEW t \in d.card PROVE card'[t].status # "none"
      <4>1. card[t].status # "none"
        BY <1>1, <3>1, <3>3 DEF PurseInv
      <4>2. d \in Requested
        BY <3>1 DEF MoneyInv, ProofsInv, OperationRow
      <4>3. t \in Keys
        BY <3>3, <4>2, CommandsNameOneCard
      <4> QED BY <1>8, <4>1, <4>3
    <3>4. d.kind = "ISSUE" => card'[l].status # "none"
      BY <1>1, <1>8, <3>1 DEF PurseInv
    <3>5. operation'[l].status = "PENDING" => d.kind \in MayWait
      BY <1>1, <3>1 DEF PurseInv
    <3> QED BY <3>1, <3>2, <3>3, <3>4, <3>5
  <2> QED BY <2>1, <2>2
<1> QED BY <1>9, <1>11, <1>12, <1>13 DEF PurseInv

\* What an operation that ends leaves of the cards it does not name.
LEMMA EndedKeepsCards ==
    ASSUME MoneyInv, NEW k \in Keys, operation[k].status # "none",
           operation'[k].status \notin InHand \cup {"none"},
           operation'[k].status = "PENDING" => \A d \in operation[k].command : d.kind \in MayWait,
           operation'[k].command = operation[k].command,
           \A l \in Keys : l # k => operation'[l] = operation[l],
           \A t \in Keys : /\ card[t].status = "none" => card'[t] = card[t]
                           /\ card[t].status # "none" => card'[t].status # "none"
                           /\ t # k /\ card[t].funds = 0 => card'[t].funds = 0
    PROVE  /\ \A l \in Keys : operation'[l].status = "none" =>
                card'[l].status = "none" /\ card'[l].funds = 0
           /\ \A l \in Keys : \A d \in operation'[l].command :
                /\ operation'[l].status \in InHand /\ d.kind = "ISSUE" => card'[l].funds = 0
                /\ operation'[l].status = "PENDING" => d.kind \in MayWait
                /\ d.kind = "ISSUE" => card'[l].status # "none"
                /\ \A t \in d.card : card'[t].status # "none"
<1>1. PurseInv /\ operation \in [Keys -> OperationRow]
  BY DEF MoneyInv, ProofsInv
<1>2. ASSUME NEW l \in Keys, operation'[l].status = "none"
      PROVE  card'[l].status = "none" /\ card'[l].funds = 0
  <2>1. l # k /\ operation[l].status = "none"
    BY <1>2
  <2> QED BY <1>1, <2>1 DEF PurseInv
<1>3. ASSUME NEW l \in Keys, NEW d \in operation'[l].command
      PROVE  /\ operation'[l].status \in InHand /\ d.kind = "ISSUE" => card'[l].funds = 0
             /\ operation'[l].status = "PENDING" => d.kind \in MayWait
             /\ d.kind = "ISSUE" => card'[l].status # "none"
             /\ \A t \in d.card : card'[t].status # "none"
  <2>1. d \in operation[l].command
    BY <1>3
  <2>2. d \in Requested
    BY <1>1, <2>1 DEF OperationRow
  <2>3. \A t \in d.card : t \in Keys /\ card[t].status # "none"
    BY <1>1, <2>1, <2>2, CommandsNameOneCard DEF PurseInv
  <2>4. ASSUME operation'[l].status \in InHand, d.kind = "ISSUE" PROVE card'[l].funds = 0
    <3>1. l # k /\ operation[l].status \in InHand
      BY <2>4
    <3>2. card[l].funds = 0
      BY <1>1, <2>1, <2>4, <3>1 DEF PurseInv
    <3> QED BY <3>1, <3>2
  <2>5. d.kind = "ISSUE" => card'[l].status # "none"
    BY <1>1, <2>1 DEF PurseInv
  <2>6. operation'[l].status = "PENDING" => d.kind \in MayWait
    BY <1>1, <2>1 DEF PurseInv
  <2> QED BY <2>3, <2>4, <2>5, <2>6
<1> QED BY <1>2, <1>3

LEMMA SucceedKeepsPurse ==
    ASSUME MoneyInv, CardsInv', NEW k \in Keys, Succeed(k)
    PROVE  PurseInv'
<1>1. /\ CardsInv /\ PurseInv /\ operation \in [Keys -> OperationRow]
      /\ operation[k].status # "none" /\ \A c, d \in operation[k].command : c = d
  BY DEF MoneyInv, ProofsInv, Succeed, Ends
<1>2. PICK c \in operation[k].command, on \in BOOLEAN :
        /\ Ends(k, c) /\ (c.kind # "ISSUE" => on)
        /\ operation' = [operation EXCEPT ![k].status =
             IF ~on THEN "PENDING" ELSE IF Overtaken(c) THEN "SUPERSEDED" ELSE "SUCCEEDED"]
        /\ card' = [t \in Keys |->
             IF c.kind = "ISSUE" /\ t = k THEN [card[t] EXCEPT !.funds = 1, !.status = Shown(t, on)]
             ELSE IF t \notin c.card \/ Overtaken(c) THEN card[t]
             ELSE CASE c.kind = "RETIRE" -> [card[t] EXCEPT !.funds = 0, !.retirement = Retired(card[t])]
                    [] c.kind = "CANCEL" -> [card[t] EXCEPT !.retirement = "CLOSED", !.funds = 0,
                                                            !.status = "CANCELLED"]
                    [] c.kind = "PAUSE"  -> [card[t] EXCEPT !.status = "PAUSED"]
                    [] c.kind = "RESUME" -> [card[t] EXCEPT !.status = "ACTIVE"]
                    [] OTHER -> card[t]]
        /\ LET paid == IF c.kind \in {"ISSUE", "WITHDRAW"} THEN 1 + Fee ELSE 0
               back == IF c.kind \in {"RETIRE", "CANCEL"} THEN Sum(CardFunds, c.card) ELSE 0
           IN purse' = [wallet |-> purse.wallet + back, held |-> purse.held - paid,
                        gone |-> purse.gone + paid - (IF c.kind = "ISSUE" THEN 1 ELSE 0)]
  BY DEF Succeed
<1>3. /\ operation'[k].status \notin InHand \cup {"none"}
      /\ operation'[k].status = "PENDING" => \A d \in operation[k].command : d.kind \in MayWait
      /\ operation'[k].command = operation[k].command
      /\ \A l \in Keys : l # k => operation'[l] = operation[l]
  <2>1. PICK status \in {"PENDING", "SUPERSEDED", "SUCCEEDED"} :
          /\ operation' = [operation EXCEPT ![k].status = status]
          /\ status = "PENDING" => c.kind = "ISSUE"
    BY <1>2
  <2>2. operation[k] \in OperationRow /\ operation'[k] = [operation[k] EXCEPT !.status = status]
    BY <1>1, <2>1
  <2>3. operation'[k].status = status /\ operation'[k].command = operation[k].command
    BY <2>2 DEF OperationRow
  <2> QED BY <1>1, <2>1, <2>3 DEF InHand, MayWait
<1>4. /\ c \in Requested /\ c.card \subseteq Keys /\ c.kind \in Kinds
      /\ c.kind \in CardKinds => \E t \in Keys : c.card = {t}
      /\ c.kind \in {"ISSUE", "WITHDRAW", "THRESHOLDS"} => c.card = {}
  <2>1. c \in Requested
    BY <1>1 DEF OperationRow
  <2> QED BY <2>1, CommandsNameOneCard
\* What becomes of a card.
<1>5. ASSUME NEW t \in Keys, t \notin c.card, ~(c.kind = "ISSUE" /\ t = k)
      PROVE  card'[t] = card[t]
  BY <1>2, <1>5
<1>6. ASSUME c.kind = "ISSUE" PROVE card'[k].funds = 1 /\ card'[k].status # "none"
  <2>1. card[k] \in CardRow
    BY <1>1 DEF CardsInv
  <2>2. \/ card'[k] = [card[k] EXCEPT !.funds = 1, !.status = "ACTIVE"]
        \/ card'[k] = [card[k] EXCEPT !.funds = 1, !.status = "PAUSED"]
    BY <1>2, <1>6 DEF Shown
  <2> QED BY <2>1, <2>2 DEF CardRow
<1>7. ASSUME NEW t \in c.card
      PROVE  /\ card[t].status # "none" /\ card'[t].status # "none"
             /\ card'[t].funds = IF c.kind \in {"RETIRE", "CANCEL"} THEN 0 ELSE card[t].funds
  <2>1. card[t] \in CardRow /\ t \in Keys /\ c.kind # "ISSUE" /\ card[t].status # "none"
    BY <1>1, <1>4, <1>7 DEF CardsInv, PurseInv
  <2>2. /\ c.kind = "RETIRE" => \/ card'[t] = [card[t] EXCEPT !.funds = 0, !.retirement = "RETIRED"]
                               \/ card'[t] = [card[t] EXCEPT !.funds = 0, !.retirement = "CLOSED"]
        /\ c.kind = "CANCEL" => card'[t] = [card[t] EXCEPT !.retirement = "CLOSED", !.funds = 0,
                                                           !.status = "CANCELLED"]
        /\ c.kind \notin {"RETIRE", "CANCEL"} =>
             \/ card'[t] = card[t]
             \/ card'[t] = [card[t] EXCEPT !.status = "PAUSED"]
             \/ card'[t] = [card[t] EXCEPT !.status = "ACTIVE"]
    BY <1>2, <1>7, <2>1 DEF Overtaken, Retired
  <2>3. CASE c.kind = "RETIRE"
    BY <2>1, <2>2, <2>3 DEF CardRow
  <2>4. CASE c.kind = "CANCEL"
    BY <2>1, <2>2, <2>4 DEF CardRow
  <2>5. CASE c.kind \notin {"RETIRE", "CANCEL"}
    BY <2>1, <2>2, <2>5 DEF CardRow
  <2> QED BY <2>1, <2>3, <2>4, <2>5
<1>8. ASSUME NEW t \in Keys
      PROVE  /\ card[t].status = "none" => card'[t] = card[t]
             /\ card[t].status # "none" => card'[t].status # "none"
             /\ t # k /\ card[t].funds = 0 => card'[t].funds = 0
  <2>1. CASE t \in c.card
    BY <1>7, <2>1
  <2>2. CASE t \notin c.card /\ ~(c.kind = "ISSUE" /\ t = k)
    BY <1>5, <2>2
  <2>3. CASE c.kind = "ISSUE" /\ t = k
    <3>1. card[k].status # "none"
      BY <1>1, <1>2, <2>3 DEF PurseInv
    <3> QED BY <1>6, <2>3, <3>1
  <2> QED BY <2>1, <2>2, <2>3
<1>9. purse.wallet \in Int /\ purse.held \in Int /\ purse.gone \in Int /\ Fee \in Nat
  BY <1>1, CommandAssumption DEF PurseInv, Purse
<1>10. /\ purse' \in Purse
       /\ purse'.wallet + purse'.held + purse'.gone + Sum(CardFunds, Keys)' = Balance
  <2> DEFINE paid == IF c.kind \in {"ISSUE", "WITHDRAW"} THEN 1 + Fee ELSE 0
             back == IF c.kind \in {"RETIRE", "CANCEL"} THEN Sum(CardFunds, c.card) ELSE 0
             one == IF c.kind = "ISSUE" THEN 1 ELSE 0
  <2>1. purse' = [wallet |-> purse.wallet + back, held |-> purse.held - paid,
                  gone |-> purse.gone + paid - one]
    BY <1>2
  <2>2. paid \in Nat /\ one \in Nat
    BY <1>9
  <2>3. CASE \E t \in Keys : c.card = {t}
    <3>1. PICK t \in Keys : c.card = {t}
      BY <2>3
    <3>2. CardFunds[t] = card[t].funds /\ card[t].funds \in Nat
      BY <1>1, FundsAreNumbers
    <3>3. Sum(CardFunds, c.card) = card[t].funds
      <4>1. Sum(CardFunds, {} \cup {t}) = Sum(CardFunds, {}) + CardFunds[t]
        BY <3>2, SumAdds, FS_EmptySet
      <4>2. {} \cup {t} = c.card
        BY <3>1
      <4>3. Sum(CardFunds, c.card) = 0 + CardFunds[t]
        BY <4>1, <4>2, SumEmpty
      <4> QED BY <3>2, <4>3
    <3>4. c.kind \notin {"ISSUE", "WITHDRAW"} /\ paid = 0 /\ one = 0
      BY <1>4, <3>1
    <3>5. back \in Nat /\ card'[t].funds = card[t].funds - back
      BY <1>7, <3>1, <3>2, <3>3
    <3>6. \A s \in Keys \ {t} : card'[s].funds = card[s].funds
      BY <1>5, <3>1, <3>4
    <3> HIDE DEF paid, back, one
    <3>7. purse' \in Purse
      BY <1>9, <2>1, <3>4, <3>5 DEF Purse
    <3>8. purse'.wallet + purse'.held + purse'.gone + card'[t].funds =
            purse.wallet + purse.held + purse.gone + card[t].funds
      BY <1>9, <2>1, <3>2, <3>4, <3>5
    <3> QED BY <1>1, <3>6, <3>7, <3>8, FundsMove
  <2>4. CASE c.card = {}
    <3>1. c.kind \in {"ISSUE", "WITHDRAW", "THRESHOLDS"} /\ back = 0
      BY <1>4, <2>4 DEF CardKinds
    <3>2. \A s \in Keys \ {k} : card'[s].funds = card[s].funds
      BY <1>5, <2>4
    <3>3. card'[k].funds = card[k].funds + one /\ card[k].funds \in Nat
      <4>1. card[k].funds \in Nat
        BY <1>1 DEF CardsInv, CardRow
      <4>2. CASE c.kind = "ISSUE"
        <5>1. card[k].funds = 0
          BY <1>1, <1>2, <4>2 DEF PurseInv, Ends, InHand
        <5> QED BY <1>6, <4>2, <5>1
      <4>3. CASE c.kind # "ISSUE"
        BY <1>5, <2>4, <4>1, <4>3
      <4> QED BY <4>1, <4>2, <4>3
    <3> HIDE DEF paid, back, one
    <3>4. purse' \in Purse
      BY <1>9, <2>1, <2>2, <3>1 DEF Purse
    <3>5. purse'.wallet + purse'.held + purse'.gone + card'[k].funds =
            purse.wallet + purse.held + purse.gone + card[k].funds
      BY <1>9, <2>1, <2>2, <3>1, <3>3
    <3> QED BY <1>1, <3>2, <3>4, <3>5, FundsMove
  <2> QED BY <1>4, <2>3, <2>4 DEF CardKinds
<1>11. /\ \A l \in Keys : operation'[l].status = "none" =>
            card'[l].status = "none" /\ card'[l].funds = 0
       /\ \A l \in Keys : \A d \in operation'[l].command :
            /\ operation'[l].status \in InHand /\ d.kind = "ISSUE" => card'[l].funds = 0
            /\ operation'[l].status = "PENDING" => d.kind \in MayWait
            /\ d.kind = "ISSUE" => card'[l].status # "none"
            /\ \A t \in d.card : card'[t].status # "none"
  BY <1>1, <1>3, <1>8, EndedKeepsCards
<1> QED BY <1>10, <1>11 DEF PurseInv

LEMMA FailKeepsPurse ==
    ASSUME MoneyInv, CardsInv', NEW k \in Keys, Fail(k)
    PROVE  PurseInv'
<1>1. /\ CardsInv /\ PurseInv /\ operation \in [Keys -> OperationRow]
      /\ operation[k].status # "none"
  BY DEF MoneyInv, ProofsInv, Fail, Ends
<1>2. /\ operation'[k].status = "FAILED" /\ operation'[k].status \notin InHand \cup {"none"}
      /\ operation'[k].command = operation[k].command
      /\ \A l \in Keys : l # k => operation'[l] = operation[l]
  BY <1>1 DEF Fail, OperationRow, InHand
<1>3. PICK c \in operation[k].command :
        LET back == IF c.kind \in {"ISSUE", "WITHDRAW"} THEN 1 + Fee ELSE 0 IN
        /\ purse' = [purse EXCEPT !.wallet = @ + back, !.held = @ - back]
        /\ card' = IF c.kind = "ISSUE" THEN [card EXCEPT ![k].status = "CANCELLED"] ELSE card
  BY DEF Fail
<1>4. ASSUME c.kind = "ISSUE" PROVE card[k].status # "none"
  BY <1>1, <1>3, <1>4 DEF MoneyInv, ProofsInv, PurseInv
<1>5. ASSUME NEW t \in Keys
      PROVE  /\ card'[t].funds = card[t].funds
             /\ card[t].status = "none" => card'[t] = card[t]
             /\ card[t].status # "none" => card'[t].status # "none"
  <2>1. card \in [Keys -> CardRow] /\ card[t] \in CardRow
    BY <1>1 DEF CardsInv
  <2>2. CASE c.kind = "ISSUE" /\ t = k
    <3>1. card'[t] = [card[t] EXCEPT !.status = "CANCELLED"]
      BY <1>3, <2>1, <2>2
    <3> QED BY <1>4, <2>1, <2>2, <3>1 DEF CardRow
  <2>3. CASE ~(c.kind = "ISSUE" /\ t = k)
    BY <1>3, <2>1, <2>3
  <2> QED BY <2>2, <2>3
<1>6. /\ purse' \in Purse
      /\ purse'.wallet + purse'.held + purse'.gone + card'[k].funds =
            purse.wallet + purse.held + purse.gone + card[k].funds
  <2> DEFINE back == IF c.kind \in {"ISSUE", "WITHDRAW"} THEN 1 + Fee ELSE 0
  <2>1. purse \in Purse /\ back \in Nat /\ card[k].funds \in Nat
    BY <1>1, CommandAssumption DEF PurseInv, CardsInv, CardRow
  <2>2. purse' = [purse EXCEPT !.wallet = @ + back, !.held = @ - back]
    BY <1>3
  <2> HIDE DEF back
  <2> DEFINE w == purse.wallet + back
             h == purse.held - back
  <2>3. w \in Int /\ h \in Int /\ w + h = purse.wallet + purse.held /\ purse.gone \in Int
        /\ purse.wallet \in Int /\ purse.held \in Int
    BY <2>1 DEF Purse
  <2>4. purse' = [purse EXCEPT !.wallet = w, !.held = h]
    BY <2>2
  <2> HIDE DEF w, h
  <2>5. purse' \in Purse /\ purse'.wallet = w /\ purse'.held = h /\ purse'.gone = purse.gone
    BY <2>1, <2>3, <2>4 DEF Purse
  <2>6. card'[k].funds = card[k].funds
    BY <1>5
  <2> QED BY <2>1, <2>3, <2>5, <2>6
<1>7. purse'.wallet + purse'.held + purse'.gone + Sum(CardFunds, Keys)' = Balance
  BY <1>1, <1>5, <1>6, FundsMove
<1>8. /\ \A l \in Keys : operation'[l].status = "none" =>
            card'[l].status = "none" /\ card'[l].funds = 0
      /\ \A l \in Keys : \A d \in operation'[l].command :
            /\ operation'[l].status \in InHand /\ d.kind = "ISSUE" => card'[l].funds = 0
            /\ operation'[l].status = "PENDING" => d.kind \in MayWait
            /\ d.kind = "ISSUE" => card'[l].status # "none"
            /\ \A t \in d.card : card'[t].status # "none"
  BY <1>1, <1>2, <1>5, EndedKeepsCards
<1> QED BY <1>6, <1>7, <1>8 DEF PurseInv

\* The RETIRE of a card returns what is on it, or waits.
LEMMA RetiresItselfKeepsPurse ==
    ASSUME MoneyInv, CardsInv', NEW t \in Keys, RetiresItself(t)
    PROVE  PurseInv'
<1>1. /\ CardsInv /\ PurseInv /\ card[t] \in CardRow /\ operation' = operation
      /\ operation[t].status # "none"
  BY DEF MoneyInv, CardsInv, RetiresItself
<1>2. /\ \A s \in Keys \ {t} : card'[s] = card[s]
      /\ card'[t].status = card[t].status /\ card'[t].funds \in {0, card[t].funds}
  BY <1>1 DEF RetiresItself, CardsInv, CardRow
<1>3. /\ purse' \in Purse
      /\ purse'.wallet + purse'.held + purse'.gone + card'[t].funds =
            purse.wallet + purse.held + purse.gone + card[t].funds
  <2>1. purse \in Purse /\ card[t].funds \in Nat
    BY <1>1 DEF PurseInv, CardRow
  <2>2. CASE UNCHANGED purse /\ card'[t].funds = card[t].funds
    BY <2>1, <2>2
  <2>3. CASE purse' = [purse EXCEPT !.wallet = @ + card[t].funds] /\ card'[t].funds = 0
    <3> DEFINE w == purse.wallet + card[t].funds
    <3>1. w \in Int /\ purse.wallet \in Int /\ purse.held \in Int /\ purse.gone \in Int
      BY <2>1 DEF Purse
    <3>2. purse' = [purse EXCEPT !.wallet = w]
      BY <2>3
    <3> HIDE DEF w
    <3>3. purse' \in Purse /\ purse'.wallet = w /\ purse'.held = purse.held /\ purse'.gone = purse.gone
      BY <2>1, <3>1, <3>2 DEF Purse
    <3> QED BY <2>1, <2>3, <3>1, <3>3 DEF w
  <2>4. \/ UNCHANGED purse /\ card'[t].funds = card[t].funds
        \/ purse' = [purse EXCEPT !.wallet = @ + card[t].funds] /\ card'[t].funds = 0
    BY <1>1 DEF RetiresItself, CardsInv, CardRow
  <2> QED BY <2>2, <2>3, <2>4
<1>4. purse'.wallet + purse'.held + purse'.gone + Sum(CardFunds, Keys)' = Balance
  BY <1>1, <1>2, <1>3, FundsMove
<1>5. ASSUME NEW l \in Keys, operation[l].status = "none"
      PROVE  card'[l].status = "none" /\ card'[l].funds = 0
  <2>1. l # t
    BY <1>1, <1>5
  <2> QED BY <1>1, <1>2, <1>5, <2>1 DEF PurseInv
<1>6. ASSUME NEW l \in Keys, NEW d \in operation[l].command
      PROVE  /\ operation[l].status \in InHand /\ d.kind = "ISSUE" => card'[l].funds = 0
             /\ operation[l].status = "PENDING" => d.kind \in MayWait
             /\ d.kind = "ISSUE" => card'[l].status # "none"
             /\ \A s \in d.card : card'[s].status # "none"
  <2>1. d \in Requested
    BY <1>6 DEF MoneyInv, ProofsInv, OperationRow
  <2>2. d.card \subseteq Keys
    BY <2>1, CommandsNameOneCard
  <2> QED BY <1>1, <1>2, <1>6, <2>2 DEF PurseInv
<1> QED BY <1>1, <1>3, <1>4, <1>5, <1>6 DEF PurseInv

\* A step that moves no money.
LEMMA NoMoneyMoves ==
    ASSUME MoneyInv, UNCHANGED purse,
           \A t \in Keys : card'[t].status = card[t].status /\ card'[t].funds = card[t].funds,
           \A k \in Keys : /\ operation'[k].command = operation[k].command
                           /\ operation'[k].status = "none" <=> operation[k].status = "none"
                           /\ operation'[k].status \in InHand =>
                                \A c \in operation[k].command :
                                  operation[k].status \in InHand \/ c.kind # "ISSUE"
                           /\ operation'[k].status = "PENDING" =>
                                \A c \in operation[k].command :
                                  operation[k].status = "PENDING" \/ c.kind \in MayWait
    PROVE  PurseInv'
<1>1. CardFunds' = CardFunds
  BY DEF CardFunds
<1>2. Sum(CardFunds, Keys)' = Sum(CardFunds, Keys)
  BY <1>1 DEF Sum, Units
<1>3. ASSUME NEW k \in Keys, NEW c \in operation[k].command, NEW t \in c.card
      PROVE  t \in Keys
  <2>1. c \in Requested
    BY <1>3 DEF MoneyInv, ProofsInv, OperationRow
  <2> QED BY <1>3, <2>1, CommandsNameOneCard
<1> QED BY <1>2, <1>3 DEF MoneyInv, PurseInv

\* A card that is funded already is switched on.
LEMMA SwitchedOnKeepsPurse ==
    ASSUME MoneyInv, CardsInv', NEW k \in Keys, SwitchedOn(k)
    PROVE  PurseInv'
<1>1. /\ CardsInv /\ PurseInv /\ card[k] \in CardRow /\ operation \in [Keys -> OperationRow]
      /\ operation[k].status = "PENDING" /\ UNCHANGED purse
  BY DEF MoneyInv, ProofsInv, CardsInv, SwitchedOn
<1>2. /\ operation'[k].status = "SUCCEEDED" /\ operation'[k].command = operation[k].command
      /\ \A l \in Keys : l # k => operation'[l] = operation[l]
  BY <1>1 DEF SwitchedOn, OperationRow
<1>3. card[k].status # "none"
  BY <1>1 DEF SwitchedOn, PurseInv
<1>4. ASSUME NEW t \in Keys
      PROVE  /\ card'[t].funds = card[t].funds
             /\ card[t].status = "none" => card'[t] = card[t]
             /\ card[t].status # "none" => card'[t].status # "none"
  <2>1. card \in [Keys -> CardRow] /\ card[t] \in CardRow /\ Shown(k, TRUE) # "none"
    BY <1>1 DEF CardsInv, Shown
  <2>2. CASE t = k
    <3>1. card'[t] = [card[t] EXCEPT !.status = Shown(k, TRUE)]
      BY <2>1, <2>2 DEF SwitchedOn
    <3> QED BY <1>3, <2>1, <2>2, <3>1 DEF CardRow
  <2>3. CASE t # k
    BY <2>1, <2>3 DEF SwitchedOn
  <2> QED BY <2>2, <2>3
<1>5. purse' \in Purse
      /\ purse'.wallet + purse'.held + purse'.gone + Sum(CardFunds, Keys)' = Balance
  BY <1>1, <1>4, FundsMove DEF PurseInv
<1>6. /\ \A l \in Keys : operation'[l].status = "none" =>
            card'[l].status = "none" /\ card'[l].funds = 0
      /\ \A l \in Keys : \A d \in operation'[l].command :
            /\ operation'[l].status \in InHand /\ d.kind = "ISSUE" => card'[l].funds = 0
            /\ operation'[l].status = "PENDING" => d.kind \in MayWait
            /\ d.kind = "ISSUE" => card'[l].status # "none"
            /\ \A t \in d.card : card'[t].status # "none"
  BY <1>1, <1>2, <1>4, EndedKeepsCards DEF InHand
<1> QED BY <1>5, <1>6 DEF PurseInv

LEMMA PurseStays == MoneyInv /\ [CommandNext]_commandVars /\ ProofsInv' /\ CardsInv' => PurseInv'
<1> SUFFICES ASSUME MoneyInv, [CommandNext]_commandVars, ProofsInv', CardsInv' PROVE PurseInv'
  OBVIOUS
<1>1. ASSUME NEW k \in Keys, NEW c \in Requested, NEW p \in Proofs, Execute(k, c, p)
      PROVE  PurseInv'
  BY <1>1, ExecuteKeepsPurse
<1>2. ASSUME NEW k \in Keys, Work(k) PROVE PurseInv'
  <2>1. operation \in [Keys -> OperationRow] /\ UNCHANGED <<card, purse>>
    BY <1>2 DEF MoneyInv, ProofsInv, Work
  <2>2. ASSUME NEW l \in Keys
        PROVE  /\ operation'[l].command = operation[l].command
               /\ operation'[l].status = "none" <=> operation[l].status = "none"
               /\ operation'[l].status \in InHand =>
                    \A c \in operation[l].command : operation[l].status \in InHand \/ c.kind # "ISSUE"
               /\ operation'[l].status = "PENDING" =>
                    \A c \in operation[l].command :
                      operation[l].status = "PENDING" \/ c.kind \in MayWait
    <3>1. CASE l = k
      <4>1. PICK status \in StatusAfter(k) : operation' = [operation EXCEPT ![k].status = status]
        BY <1>2 DEF Work
      <4>2. /\ operation'[k].status = status /\ operation'[k].command = operation[k].command
            /\ operation[k] \in OperationRow
        BY <2>1, <4>1 DEF OperationRow
      <4>3. /\ operation[k].status \in Unfinished /\ status \in {"PROCESSING", "UNKNOWN", "PENDING"}
            /\ status = "PENDING" =>
                 \E c \in operation[k].command : c.kind \in {"RETIRE", "WITHDRAW"}
            /\ operation[k].status = "PENDING" /\ status # "PENDING" =>
                 \E c \in operation[k].command : c.kind = "RETIRE"
        BY <4>1 DEF StatusAfter, Unfinished, InHand
      <4>4. \A c, d \in operation[k].command : c = d
        BY DEF MoneyInv, ProofsInv
      <4> QED BY <3>1, <4>2, <4>3, <4>4 DEF Unfinished, InHand, MayWait
    <3>2. CASE l # k
      BY <1>2, <2>1, <3>2 DEF Work
    <3> QED BY <3>1, <3>2
  <2> QED BY <2>1, <2>2, NoMoneyMoves
<1>3. ASSUME NEW k \in Keys, Succeed(k) \/ Fail(k) PROVE PurseInv'
  BY <1>3, SucceedKeepsPurse, FailKeepsPurse
<1>4. ASSUME NEW t \in Keys, EnsureDue(t) PROVE PurseInv'
  <2>1. \A s \in Keys : card'[s].status = card[s].status /\ card'[s].funds = card[s].funds
    BY <1>4 DEF EnsureDue, MoneyInv, CardsInv, CardRow
  <2> QED BY <1>4, <2>1, NoMoneyMoves DEF EnsureDue
<1>5. ASSUME NEW t \in Keys, RetiresItself(t) PROVE PurseInv'
  BY <1>5, RetiresItselfKeepsPurse
<1>6. CASE UNCHANGED <<operation, card, purse>>
  BY <1>6, NoMoneyMoves
<1>7. ASSUME NEW k \in Keys, SwitchedOn(k) PROVE PurseInv'
  BY <1>7, SwitchedOnKeepsPurse
<1> QED BY <1>1, <1>2, <1>3, <1>4, <1>5, <1>6, <1>7
     DEF CommandNext, commandVars, IssueProof, ProofExpires, PlanEnds

\* FinanceService.execute and the worker: whatever is repeated, refused, uncertain or failed, what
\* a user had is in the wallet, in a hold, on a card, or was sent or paid by an operation that one
\* proof was used for.
THEOREM CommandsMoveMoneyOnce == CommandSpec => []OneProofOneOperation
<1>1. CommandSpec => []ProofsInv
  BY ProofsStart, ProofsStay, PTL DEF CommandSpec
<1>2. MoneyInv => OneProofOneOperation
  BY DEF MoneyInv, ProofsInv, PurseInv, OneProofOneOperation
<1>3. ProofsInv /\ CardsInv /\ PurseInv /\ [CommandNext]_commandVars /\ ProofsInv' /\ CardsInv'
        => PurseInv'
  BY PurseStays DEF MoneyInv
<1>4. CommandSpec => []PurseInv
  BY <1>1, <1>3, PurseStarts, CardsAreCards, PTL DEF CommandSpec
<1>5. ProofsInv /\ CardsInv /\ PurseInv => OneProofOneOperation
  BY <1>2 DEF MoneyInv
<1> QED BY <1>1, <1>4, <1>5, CardsAreCards, PTL

\* A card that is to be retired is marked, and only an ISSUE makes a card.
ActionInv ==
    /\ \A k \in Keys : \A c \in operation[k].command : \A t \in c.card :
         c.kind = "RETIRE" => card[t].retirement # "none"
    /\ \A k \in Keys : card[k].status # "none" => \E c \in operation[k].command : c.kind = "ISSUE"
    /\ OneActionPerCard

LEMMA ActionsStart == CommandInit => ActionInv
  BY DEF CommandInit, NoOperation, NoCard, ActionInv, OneActionPerCard, Acting, InHand

\* A step that makes no operation and no card, and takes no mark away.
LEMMA ActionsKeep ==
    ASSUME MoneyInv, ActionInv,
           \A k \in Keys : operation'[k].command = operation[k].command /\ (Acting(k)' => Acting(k)),
           \A t \in Keys : /\ card'[t].status = "none" <=> card[t].status = "none"
                           /\ card[t].retirement # "none" => card'[t].retirement # "none"
    PROVE  ActionInv'
<1>1. ASSUME NEW k \in Keys, NEW c \in operation'[k].command, NEW t \in c.card, c.kind = "RETIRE"
      PROVE  card'[t].retirement # "none"
  <2>1. c \in operation[k].command /\ c \in Requested
    BY <1>1 DEF MoneyInv, ProofsInv, OperationRow
  <2>2. t \in Keys
    BY <1>1, <2>1, CommandsNameOneCard
  <2> QED BY <1>1, <2>1, <2>2 DEF ActionInv
<1>2. \A k \in Keys : card'[k].status # "none" => \E c \in operation'[k].command : c.kind = "ISSUE"
  BY DEF ActionInv
<1>3. \A k, t \in Keys : On(k, t)' <=> On(k, t)
  BY DEF On
<1>4. OneActionPerCard'
  BY <1>3 DEF ActionInv, OneActionPerCard
<1> QED BY <1>1, <1>2, <1>4 DEF ActionInv

\* Another operation of the card that the check lets pass is a RETIRE waiting for settlement.
LEMMA OnlyRetireWaits ==
    ASSUME MoneyInv, ActionInv, NEW t \in Keys, card[t].status # "none", ~Busy(t),
           NEW l \in Keys, Acting(l), On(l, t)
    PROVE  card[t].retirement # "none" /\ \A d \in operation[l].command : d.kind = "RETIRE"
<1>1. operation[l].status = "PENDING" /\ \E d \in operation[l].command : d.kind # "ISSUE"
  BY DEF Busy, Acting
<1>2. \A c, d \in operation[l].command : c = d
  BY DEF MoneyInv, ProofsInv
<1>3. \A d \in operation[l].command : d.kind \in {"RETIRE", "WITHDRAW"} /\ d \in Requested
  BY <1>1, <1>2 DEF MoneyInv, PurseInv, ProofsInv, OperationRow, MayWait
<1>4. l # t
  BY <1>3 DEF ActionInv
<1>5. PICK c \in operation[l].command : c.card = {t}
  BY <1>4 DEF On
<1>6. c.kind = "RETIRE"
  BY <1>3, <1>5, CommandsNameOneCard
<1> QED BY <1>2, <1>5, <1>6 DEF ActionInv

LEMMA ExecuteKeepsActions ==
    ASSUME MoneyInv, ActionInv, NEW k \in Keys, NEW c \in Requested, NEW p \in Proofs,
           Execute(k, c, p)
    PROVE  ActionInv'
<1>1. /\ operation[k].status = "none" /\ card[k].status = "none"
      /\ operation'[k].command = {c}
      /\ \A l \in Keys : l # k => operation'[l] = operation[l]
  BY DEF Execute, MoneyInv, ProofsInv, PurseInv
<1>2. /\ c.card \subseteq Keys
      /\ c.kind \in CardKinds => \E t \in Keys : c.card = {t}
      /\ c.kind \in {"ISSUE", "WITHDRAW", "THRESHOLDS"} => c.card = {}
      /\ c.kind \in Kinds
  BY CommandsNameOneCard
<1>3. ASSUME NEW t \in c.card
      PROVE  /\ t \in Keys /\ t # k /\ card[t].status # "none" /\ ~Busy(t)
             /\ card[t].retirement # "none" => c.kind \in {"RETIRE", "CANCEL"}
  BY <1>1, <1>2, <1>3 DEF Execute, Acceptable, CardAccepts
<1>4. ASSUME NEW t \in Keys
      PROVE  /\ ~(c.kind = "ISSUE" /\ t = k) => (card'[t].status = "none" <=> card[t].status = "none")
             /\ card[t].status # "none" /\ card[t].retirement # "none" => card'[t].retirement # "none"
             /\ t \in c.card /\ c.kind = "RETIRE" => card'[t].retirement # "none"
  <2>1. card[t] \in CardRow
    BY DEF MoneyInv, CardsInv
  <2>2. CASE c.kind = "ISSUE" /\ t = k
    BY <1>1, <1>2, <2>2
  <2>3. CASE ~(c.kind = "ISSUE" /\ t = k) /\ t \notin c.card
    BY <2>3 DEF Execute, Apply
  <2>4. CASE ~(c.kind = "ISSUE" /\ t = k) /\ t \in c.card
    <3>1. /\ \/ card'[t] = card[t]
             \/ card'[t] = [card[t] EXCEPT !.funds = @ + 1]
             \/ card'[t] = [card[t] EXCEPT !.funds = @ - 1]
             \/ card'[t] = [card[t] EXCEPT !.version = @ + 1]
             \/ card'[t] = [card[t] EXCEPT !.retirement = IF @ = "none" THEN "RETIRING" ELSE @]
          /\ c.kind = "RETIRE" =>
               card'[t] = [card[t] EXCEPT !.retirement = IF @ = "none" THEN "RETIRING" ELSE @]
      BY <2>4 DEF Execute, Apply
    <3> QED BY <2>1, <2>4, <3>1 DEF CardRow
  <2> QED BY <2>2, <2>3, <2>4
<1>5. ASSUME NEW l \in Keys, NEW d \in operation'[l].command, NEW t \in d.card, d.kind = "RETIRE"
      PROVE  card'[t].retirement # "none"
  <2>1. CASE l = k
    <3>1. d = c
      BY <1>1, <1>5, <2>1
    <3> QED BY <1>3, <1>4, <1>5, <3>1
  <2>2. CASE l # k
    <3>1. d \in operation[l].command /\ d \in Requested
      BY <1>1, <1>5, <2>2 DEF MoneyInv, ProofsInv, OperationRow
    <3>2. t \in Keys /\ card[t].status # "none" /\ card[t].retirement # "none"
      BY <1>5, <3>1, CommandsNameOneCard DEF MoneyInv, PurseInv, ActionInv
    <3> QED BY <1>4, <3>2
  <2> QED BY <2>1, <2>2
<1>6. ASSUME NEW l \in Keys, card'[l].status # "none"
      PROVE  \E d \in operation'[l].command : d.kind = "ISSUE"
  BY <1>1, <1>4, <1>6 DEF ActionInv
\* The new operation beside another one of its card.
<1>7. ASSUME NEW t \in Keys, NEW l \in Keys, l # k, Acting(l), On(k, t)', On(l, t)
      PROVE  /\ c.kind \in {"RETIRE", "CANCEL"}
             /\ \A d \in operation[l].command : d.kind = "RETIRE"
  <2>1. CASE t = k
    <3>1. PICK d \in operation[l].command : d.card = {k}
      BY <1>7, <2>1 DEF On
    <3>2. card[k].status # "none"
      BY <3>1 DEF MoneyInv, PurseInv
    <3> QED BY <1>1, <3>2
  <2>2. CASE t # k
    <3>1. c.card = {t}
      BY <1>1, <1>7, <2>2 DEF On
    <3>2. card[t].status # "none" /\ ~Busy(t)
      BY <1>3, <3>1
    <3>3. card[t].retirement # "none" /\ \A d \in operation[l].command : d.kind = "RETIRE"
      BY <1>7, <3>2, OnlyRetireWaits
    <3> QED BY <1>3, <3>1, <3>3
  <2> QED BY <2>1, <2>2
<1>8. ASSUME NEW t \in Keys, NEW l \in Keys, NEW m \in Keys, l # m, Acting(l)', Acting(m)',
             On(l, t)', On(m, t)', NEW d \in operation'[l].command, NEW e \in operation'[m].command
      PROVE  {"RETIRE"} \subseteq {d.kind, e.kind} /\ {d.kind, e.kind} \subseteq {"RETIRE", "CANCEL"}
  <2>1. ASSUME NEW o \in Keys, o # k, On(o, t)', Acting(o)' PROVE On(o, t) /\ Acting(o)
    BY <1>1, <2>1 DEF On, Acting
  <2>2. CASE l = k
    <3>1. m # k /\ d = c /\ operation'[m] = operation[m]
      BY <1>1, <1>8, <2>2
    <3> QED BY <1>7, <1>8, <2>1, <2>2, <3>1
  <2>3. CASE m = k
    <3>1. l # k /\ e = c /\ operation'[l] = operation[l]
      BY <1>1, <1>8, <2>3
    <3> QED BY <1>7, <1>8, <2>1, <2>3, <3>1
  <2>4. CASE l # k /\ m # k
    BY <1>1, <1>8, <2>1, <2>4 DEF ActionInv, OneActionPerCard
  <2> QED BY <2>2, <2>3, <2>4
<1>9. OneActionPerCard'
  BY <1>8 DEF OneActionPerCard
<1> QED BY <1>5, <1>6, <1>9 DEF ActionInv

LEMMA ActionsStay == MoneyInv /\ ActionInv /\ [CommandNext]_commandVars => ActionInv'
<1> SUFFICES ASSUME MoneyInv, ActionInv, [CommandNext]_commandVars PROVE ActionInv'
  OBVIOUS
<1>1. /\ operation \in [Keys -> OperationRow] /\ card \in [Keys -> CardRow]
      /\ \A k \in Keys : operation[k] \in OperationRow /\ card[k] \in CardRow
  BY DEF MoneyInv, ProofsInv, CardsInv
<1>2. ASSUME NEW k \in Keys, NEW c \in Requested, NEW p \in Proofs, Execute(k, c, p)
      PROVE  ActionInv'
  BY <1>2, ExecuteKeepsActions
<1>3. ASSUME NEW k \in Keys, Work(k) PROVE ActionInv'
  <2>1. PICK status \in StatusAfter(k) : operation' = [operation EXCEPT ![k].status = status]
    BY <1>3 DEF Work
  <2>2. Acting(k)
    BY <2>1 DEF StatusAfter, Acting, InHand
  <2>3. ASSUME NEW l \in Keys
        PROVE  operation'[l].command = operation[l].command /\ (Acting(l)' => Acting(l))
    BY <1>1, <2>1, <2>2 DEF OperationRow, Acting
  <2> QED BY <1>3, <2>3, ActionsKeep DEF Work
<1>4. ASSUME NEW k \in Keys, Succeed(k) PROVE ActionInv'
  <2>1. \A l \in Keys : operation'[l].command = operation[l].command /\ (Acting(l)' => Acting(l))
    <3>1. PICK c \in operation[k].command, status \in {"PENDING", "SUCCEEDED", "SUPERSEDED"} :
            Ends(k, c) /\ operation' = [operation EXCEPT ![k].status = status]
      BY <1>4 DEF Succeed
    <3>2. Acting(k)
      BY <3>1 DEF Ends, Acting, InHand
    <3> QED BY <1>1, <3>1, <3>2 DEF OperationRow, Acting
  <2>2. ASSUME NEW t \in Keys
        PROVE  /\ card'[t].status = "none" <=> card[t].status = "none"
               /\ card[t].retirement # "none" => card'[t].retirement # "none"
    <3>1. PICK c \in operation[k].command, on \in BOOLEAN :
              card' = [s \in Keys |->
                IF c.kind = "ISSUE" /\ s = k THEN [card[s] EXCEPT !.funds = 1, !.status = Shown(s, on)]
                ELSE IF s \notin c.card \/ Overtaken(c) THEN card[s]
                ELSE CASE c.kind = "RETIRE" -> [card[s] EXCEPT !.funds = 0, !.retirement = Retired(card[s])]
                       [] c.kind = "CANCEL" -> [card[s] EXCEPT !.retirement = "CLOSED", !.funds = 0,
                                                               !.status = "CANCELLED"]
                       [] c.kind = "PAUSE"  -> [card[s] EXCEPT !.status = "PAUSED"]
                       [] c.kind = "RESUME" -> [card[s] EXCEPT !.status = "ACTIVE"]
                       [] OTHER -> card[s]]
      BY <1>4 DEF Succeed
    <3>2. /\ c.kind = "ISSUE" => card[k].status # "none"
          /\ \A s \in c.card : card[s].status # "none"
      BY <3>1 DEF MoneyInv, PurseInv
    <3>3. CASE c.kind = "ISSUE" /\ t = k
      BY <1>1, <3>1, <3>2, <3>3 DEF CardRow, Shown
    <3>4. CASE ~(c.kind = "ISSUE" /\ t = k) /\ t \notin c.card
      BY <3>1, <3>4
    <3>5. CASE ~(c.kind = "ISSUE" /\ t = k) /\ t \in c.card
      <4>1. \/ card'[t] = card[t]
            \/ card'[t] = [card[t] EXCEPT !.funds = 0, !.retirement = "RETIRED"]
            \/ card'[t] = [card[t] EXCEPT !.funds = 0, !.retirement = "CLOSED"]
            \/ card'[t] = [card[t] EXCEPT !.retirement = "CLOSED", !.funds = 0, !.status = "CANCELLED"]
            \/ card'[t] = [card[t] EXCEPT !.status = "PAUSED"]
            \/ card'[t] = [card[t] EXCEPT !.status = "ACTIVE"]
        BY <3>1, <3>5 DEF Retired
      <4> QED BY <1>1, <3>2, <3>5, <4>1 DEF CardRow
    <3> QED BY <3>3, <3>4, <3>5
  <2> QED BY <2>1, <2>2, ActionsKeep
<1>5. ASSUME NEW k \in Keys, Fail(k) PROVE ActionInv'
  <2>1. \A l \in Keys : operation'[l].command = operation[l].command /\ (Acting(l)' => Acting(l))
    BY <1>1, <1>5 DEF Fail, OperationRow, Acting, InHand
  <2>2. ASSUME NEW t \in Keys
        PROVE  /\ card'[t].status = "none" <=> card[t].status = "none"
               /\ card[t].retirement # "none" => card'[t].retirement # "none"
    <3>1. PICK c \in operation[k].command :
              card' = IF c.kind = "ISSUE" THEN [card EXCEPT ![k].status = "CANCELLED"] ELSE card
      BY <1>5 DEF Fail
    <3>2. c.kind = "ISSUE" => card[k].status # "none"
      BY <3>1 DEF MoneyInv, PurseInv
    <3> QED BY <1>1, <3>1, <3>2 DEF CardRow
  <2> QED BY <2>1, <2>2, ActionsKeep
<1>6. ASSUME NEW t \in Keys, EnsureDue(t) PROVE ActionInv'
  <2>1. \A s \in Keys : /\ card'[s].status = card[s].status
                        /\ card[s].retirement # "none" => card'[s].retirement # "none"
    BY <1>1, <1>6 DEF EnsureDue, CardRow
  <2> QED BY <1>6, <2>1, ActionsKeep DEF EnsureDue, Acting
<1>7. ASSUME NEW t \in Keys, RetiresItself(t) PROVE ActionInv'
  <2>1. \A s \in Keys : /\ card'[s].status = card[s].status
                        /\ card[s].retirement # "none" => card'[s].retirement # "none"
    BY <1>1, <1>7 DEF RetiresItself, Retired, CardRow
  <2> QED BY <1>7, <2>1, ActionsKeep DEF RetiresItself, Acting
<1>8. CASE UNCHANGED <<operation, card>>
  BY <1>8, ActionsKeep DEF Acting
<1>9. ASSUME NEW k \in Keys, SwitchedOn(k) PROVE ActionInv'
  <2>1. /\ \A c, d \in operation[k].command : c = d
        /\ \E c \in operation[k].command : c.kind = "ISSUE"
        /\ card[k].status # "none" /\ Shown(k, TRUE) # "none"
    BY <1>9 DEF SwitchedOn, Shown, MoneyInv, ProofsInv, PurseInv
  <2>2. \A l \in Keys : operation'[l].command = operation[l].command /\ (Acting(l)' => Acting(l))
    BY <1>1, <1>9 DEF SwitchedOn, OperationRow, Acting, InHand
  <2>3. ASSUME NEW t \in Keys
        PROVE  /\ card'[t].status = "none" <=> card[t].status = "none"
               /\ card[t].retirement # "none" => card'[t].retirement # "none"
    <3>1. card[t] \in CardRow
      BY <1>1
    <3>2. CASE t = k
      <4>1. card'[t] = [card[t] EXCEPT !.status = Shown(k, TRUE)]
        BY <1>1, <1>9, <3>2 DEF SwitchedOn
      <4> QED BY <2>1, <3>1, <3>2, <4>1 DEF CardRow
    <3>3. CASE t # k
      BY <1>1, <1>9, <3>3 DEF SwitchedOn
    <3> QED BY <3>2, <3>3
  <2> QED BY <2>2, <2>3, ActionsKeep
<1> QED BY <1>2, <1>3, <1>4, <1>5, <1>6, <1>7, <1>8, <1>9
     DEF CommandNext, commandVars, IssueProof, ProofExpires, PlanEnds

\* FinanceService.execute: two commands of one card are unfinished together only where one waits
\* as a RETIRE and the other retires or closes the card as well.
THEOREM CardsActOneByOne == CommandSpec => []OneActionPerCard
<1>1. CommandSpec => []MoneyInv
  <2>1. CommandSpec => []ProofsInv
    BY ProofsStart, ProofsStay, PTL DEF CommandSpec
  <2>2. ProofsInv /\ CardsInv /\ PurseInv /\ [CommandNext]_commandVars /\ ProofsInv' /\ CardsInv'
          => PurseInv'
    BY PurseStays DEF MoneyInv
  <2>3. CommandSpec => []PurseInv
    BY <2>1, <2>2, PurseStarts, CardsAreCards, PTL DEF CommandSpec
  <2>4. ProofsInv /\ CardsInv /\ PurseInv => MoneyInv
    BY DEF MoneyInv
  <2> QED BY <2>1, <2>3, <2>4, CardsAreCards, PTL
<1>2. ActionInv => OneActionPerCard
  BY DEF ActionInv
<1>3. CommandSpec => []ActionInv
  BY <1>1, ActionsStart, ActionsStay, PTL DEF CommandSpec
<1> QED BY <1>2, <1>3, PTL

(***************************************************************************)
(* CardRules: the uses and the budget of a card.                           *)
(***************************************************************************)
PurchaseStatus == {"NEW", "HELD", "CAPTURED", "REVERSED", "DECLINED"}
Alerts == [boundary : Boundaries, budget : Budgets, purchase : Purchases]

\* What is booked is captured, and the rules began with no more settled than is now.
RulesInv ==
    /\ rule \in [usageLimit : UsageLimits, monthlyLimit : Budgets, notify : SUBSET Boundaries]
    /\ purchase \in [Purchases -> PurchaseStatus] /\ booked \subseteq In("CAPTURED")
    /\ read \in [Purchases -> SUBSET Budgeted] /\ alerts \subseteq Alerts
    /\ retired \in BOOLEAN /\ outdated \in BOOLEAN
    /\ since \in Nat /\ since <= SettledThisMonth
    /\ AlertsAreExact /\ UsedUpIsRetired

LEMMA TotalsAreNumbers ==
    ASSUME NEW S \in SUBSET Purchases
    PROVE  IsFiniteSet(S) /\ Total(S) \in Nat /\ Cardinality(S) \in Nat
<1>1. IsFiniteSet(S) /\ \A p \in S : AmountOf[p] \in Nat
  BY CardRulesAssumption, FS_Subset
<1> QED BY <1>1, SumType, FS_CardinalityType DEF Total

LEMMA TotalAdds ==
    ASSUME NEW S \in SUBSET Purchases, NEW p \in Purchases \ S
    PROVE  /\ Total(S \cup {p}) = Total(S) + AmountOf[p]
           /\ Cardinality(S \cup {p}) = Cardinality(S) + 1
<1>1. /\ IsFiniteSet(S) /\ \A q \in S : AmountOf[q] \in Nat
      /\ AmountOf[p] \in Nat
  BY CardRulesAssumption, TotalsAreNumbers
<1> QED BY <1>1, SumAdds, FS_AddElement DEF Total

LEMMA RulesStart == CardRulesInit => RulesInv
<1> SUFFICES ASSUME CardRulesInit PROVE RulesInv
  OBVIOUS
<1>1. /\ rule \in [usageLimit : UsageLimits, monthlyLimit : Budgets, notify : SUBSET Boundaries]
      /\ purchase \in [Purchases -> PurchaseStatus] /\ retired = FALSE /\ booked = {}
      /\ since = 0 /\ alerts = {} /\ outdated = FALSE
      /\ read \in [Purchases -> SUBSET Budgeted]
      /\ In("CAPTURED") = {} /\ In("HELD") = {}
  BY DEF CardRulesInit, PurchaseStatus, In
<1>2. SettledThisMonth = 0
  BY <1>1, SumEmpty DEF SettledThisMonth, Total
<1>3. rule.usageLimit \in Nat \ {0} /\ rule.monthlyLimit \in Nat \ {0}
  BY <1>1, CardRulesAssumption
<1>4. AlertsAreExact
  <2>1. ASSUME NEW b \in rule.notify PROVE b * rule.monthlyLimit > 0
    BY <1>1, <1>3, <2>1 DEF Boundaries
  <2>2. AlertsAreComplete
    BY <1>2, <2>1 DEF AlertsAreComplete
  <2> QED BY <1>1, <2>2 DEF AlertsAreExact, AlertsAreTrue
<1>5. UsedUpIsRetired
  <2>1. Cardinality(In("CAPTURED")) = 0 /\ Cardinality(In("HELD")) = 0
    <3>1. Cardinality({}) = 0
      BY FS_EmptySet
    <3> QED BY <1>1, <3>1
  <2>2. CompletedUses = 0 /\ CardUses = 0
    BY <2>1 DEF CardUses, CompletedUses
  <2> QED BY <1>3, <2>2 DEF UsedUpIsRetired
<1>6. since \in Nat /\ since <= SettledThisMonth /\ alerts \subseteq Alerts
  BY <1>1, <1>2
<1>7. booked \subseteq In("CAPTURED") /\ retired \in BOOLEAN /\ outdated \in BOOLEAN
  BY <1>1
<1> QED BY <1>1, <1>4, <1>5, <1>6, <1>7 DEF RulesInv

\* A purchase that moves from one status to another.
LEMMA PurchaseMoves ==
    ASSUME purchase \in [Purchases -> PurchaseStatus], NEW p \in Purchases,
           NEW to \in PurchaseStatus, purchase' = [purchase EXCEPT ![p] = to]
    PROVE  /\ purchase' \in [Purchases -> PurchaseStatus]
           /\ \A s \in PurchaseStatus :
                In(s)' = IF s = to THEN In(s) \cup {p} ELSE In(s) \ {p}
  BY DEF In

LEMMA UsesAreNumbers ==
    /\ In("HELD") \subseteq Purchases /\ In("CAPTURED") \subseteq Purchases
    /\ CompletedUses \in Nat /\ Cardinality(In("HELD")) \in Nat
    /\ CardUses = CompletedUses + Cardinality(In("HELD"))
<1>1. In("HELD") \subseteq Purchases /\ In("CAPTURED") \subseteq Purchases
  BY DEF In
<1> QED BY <1>1, TotalsAreNumbers DEF CompletedUses, CardUses

\* The limits and totals of a card are numbers.
LEMMA RuleNumbers ==
    ASSUME RulesInv
    PROVE  /\ rule.usageLimit \in Nat \ {0} /\ rule.monthlyLimit \in Nat \ {0}
           /\ booked \subseteq Purchases /\ SettledThisMonth \in Nat
<1>1. rule.usageLimit \in Nat \ {0} /\ rule.monthlyLimit \in Nat \ {0}
  BY CardRulesAssumption DEF RulesInv
<1>2. booked \subseteq Purchases
  BY UsesAreNumbers DEF RulesInv
<1> QED BY <1>1, <1>2, TotalsAreNumbers DEF SettledThisMonth

\* A step that settles and announces nothing.
LEMMA AlertsStand ==
    ASSUME RulesInv, UNCHANGED <<rule, booked, alerts, since, outdated>>
    PROVE  AlertsAreExact'
<1>1. SettledThisMonth' = SettledThisMonth
  BY DEF SettledThisMonth, Total
<1> QED BY <1>1 DEF RulesInv, AlertsAreExact, AlertsAreTrue, AlertsAreComplete

LEMMA ReadKeepsRules ==
    ASSUME RulesInv, NEW p \in Purchases, ReadCard(p)
    PROVE  RulesInv'
<1>1. /\ read \in [Purchases -> SUBSET Budgeted] /\ read' = [read EXCEPT ![p] = {Current}]
      /\ UNCHANGED <<rule, purchase, booked, retired, alerts, since, outdated, changes>>
  BY DEF RulesInv, ReadCard
<1>2. Current \in Budgeted
  BY DEF RulesInv, Current, Budgeted
<1>3. read' \in [Purchases -> SUBSET Budgeted]
  BY <1>1, <1>2
<1>4. AlertsAreExact'
  BY <1>1, AlertsStand
<1>5. UsedUpIsRetired' /\ SettledThisMonth' = SettledThisMonth /\ In("CAPTURED")' = In("CAPTURED")
  BY <1>1 DEF RulesInv, UsedUpIsRetired, SettledThisMonth, Total, In, CardUses, CompletedUses
<1> QED BY <1>1, <1>3, <1>4, <1>5 DEF RulesInv

LEMMA AuthorizeKeepsRules ==
    ASSUME RulesInv, NEW p \in Purchases, AuthorizePurchase(p)
    PROVE  RulesInv'
<1>1. /\ purchase \in [Purchases -> PurchaseStatus] /\ purchase[p] = "NEW"
      /\ UNCHANGED <<rule, read, booked, retired, alerts, since, outdated, changes>>
  BY DEF RulesInv, AuthorizePurchase
<1>2. PICK to \in {"HELD", "DECLINED"} :
        /\ purchase' = [purchase EXCEPT ![p] = to]
        /\ to = "HELD" => ~retired /\ PolicyDecision(p)
  BY DEF AuthorizePurchase
<1>3. /\ purchase' \in [Purchases -> PurchaseStatus]
      /\ In("HELD")' = IF to = "HELD" THEN In("HELD") \cup {p} ELSE In("HELD")
      /\ In("CAPTURED")' = In("CAPTURED")
      /\ p \in Purchases \ In("HELD")
  <2>1. to \in PurchaseStatus /\ "HELD" \in PurchaseStatus /\ "CAPTURED" \in PurchaseStatus
    BY DEF PurchaseStatus
  <2>2. p \notin In("HELD") /\ p \notin In("CAPTURED")
    BY <1>1 DEF In
  <2>3. /\ purchase' \in [Purchases -> PurchaseStatus]
        /\ \A s \in PurchaseStatus : In(s)' = IF s = to THEN In(s) \cup {p} ELSE In(s) \ {p}
    BY <1>1, <1>2, <2>1, PurchaseMoves
  <2> QED BY <2>1, <2>2, <2>3
<1>4. SettledThisMonth' = SettledThisMonth
  BY <1>1 DEF SettledThisMonth, Total
<1>5. UsedUpIsRetired'
  <2>1. CompletedUses' = CompletedUses
    BY <1>3 DEF CompletedUses
  <2>2. CASE to = "HELD"
    <3>1. CardUses < rule.usageLimit
      BY <1>2, <2>2 DEF PolicyDecision
    <3>2. CardUses' = CardUses + 1
      <4>1. Cardinality(In("HELD"))' = Cardinality(In("HELD")) + 1
        BY <1>3, <2>2, TotalAdds, UsesAreNumbers
      <4> QED BY <2>1, <4>1, UsesAreNumbers DEF CardUses
    <3> QED BY <1>1, <2>1, <3>1, <3>2, RuleNumbers, UsesAreNumbers DEF UsedUpIsRetired, RulesInv
  <2>3. CASE to # "HELD"
    BY <1>1, <1>3, <2>1, <2>3 DEF UsedUpIsRetired, RulesInv, CardUses
  <2> QED BY <2>2, <2>3
<1>6. AlertsAreExact'
  BY <1>1, AlertsStand
<1> QED BY <1>1, <1>3, <1>4, <1>5, <1>6 DEF RulesInv

LEMMA CaptureKeepsRules ==
    ASSUME RulesInv, NEW p \in Purchases, CapturePurchase(p)
    PROVE  RulesInv'
<1>1. /\ purchase \in [Purchases -> PurchaseStatus] /\ purchase[p] = "HELD"
      /\ purchase' = [purchase EXCEPT ![p] = "CAPTURED"] /\ booked' = booked \cup {p}
      /\ retired' = (retired \/ CompletedUses' >= rule.usageLimit)
      /\ read \in [Purchases -> SUBSET Budgeted] /\ read' = [read EXCEPT ![p] = {}]
      /\ UNCHANGED <<rule, since, changes>>
  BY DEF RulesInv, CapturePurchase
<1>2. /\ purchase' \in [Purchases -> PurchaseStatus]
      /\ In("HELD")' = In("HELD") \ {p} /\ In("CAPTURED")' = In("CAPTURED") \cup {p}
      /\ p \in In("HELD") /\ p \in Purchases \ In("CAPTURED")
  <2>1. "HELD" \in PurchaseStatus /\ "CAPTURED" \in PurchaseStatus
    BY DEF PurchaseStatus
  <2>2. p \in In("HELD") /\ p \notin In("CAPTURED")
    BY <1>1 DEF In
  <2> QED BY <1>1, <2>1, <2>2, PurchaseMoves
<1>3. p \in Purchases \ booked
  BY <1>2 DEF RulesInv
<1>4. /\ SettledThisMonth' = SettledThisMonth + AmountOf[p]
      /\ SettledThisMonth \in Nat /\ AmountOf[p] \in Nat \ {0}
  BY <1>1, <1>3, TotalAdds, RuleNumbers, CardRulesAssumption DEF SettledThisMonth
\* The card that was read, the amount its boundaries stand for, and what is announced.
<1>5. PICK c \in read[p] :
        /\ alerts' = alerts \cup {[boundary |-> b, budget |-> c.monthlyLimit, purchase |-> p] :
                                    b \in BudgetAlertTitles(c, SettledThisMonth, AmountOf[p])}
        /\ outdated' = (outdated \/ c # Current)
  <2>1. SettledThisMonth' - AmountOf[p] = SettledThisMonth
    BY <1>4
  <2> QED BY <2>1 DEF CapturePurchase
<1> DEFINE titles == BudgetAlertTitles(c, SettledThisMonth, AmountOf[p])
           At(b) == b * c.monthlyLimit
<1>10. c.monthlyLimit \in Budgets /\ c.monthlyLimit \in Nat /\ c.notify \subseteq Boundaries
  <2>1. c \in Budgeted
    BY <1>1
  <2> QED BY <2>1, CardRulesAssumption DEF Budgeted
<1>11. ASSUME NEW b
       PROVE  b \in titles <=> /\ b \in c.notify /\ 10 * SettledThisMonth < At(b)
                               /\ At(b) <= 10 * (SettledThisMonth + AmountOf[p])
  BY DEF BudgetAlertTitles
<1> HIDE DEF titles
<1>12. ASSUME NEW n \in alerts'
       PROVE  \/ n \in alerts
              \/ \E b \in titles : n = [boundary |-> b, budget |-> c.monthlyLimit, purchase |-> p]
  BY <1>5, <1>12 DEF titles
<1>13. alerts' \subseteq Alerts
  <2>1. titles \subseteq Boundaries
    BY <1>10, <1>11
  <2> QED BY <1>10, <1>12, <2>1 DEF RulesInv, Alerts
<1>14. ASSUME NEW n \in alerts
       PROVE  /\ n.boundary * n.budget \in Nat
              /\ n.boundary * n.budget <= 10 * SettledThisMonth
  <2>1. n.boundary \in Boundaries /\ n.budget \in Budgets
    BY DEF RulesInv, Alerts
  <2>2. n.boundary \in Nat
    BY <2>1 DEF Boundaries
  <2>3. n.budget \in Nat
    BY <2>1, CardRulesAssumption
  <2> QED BY <2>2, <2>3 DEF RulesInv, AlertsAreExact, AlertsAreTrue
<1>15. ASSUME NEW b \in titles
       PROVE  /\ At(b) \in Nat /\ 10 * SettledThisMonth < At(b)
              /\ At(b) <= 10 * (SettledThisMonth + AmountOf[p])
  <2>1. b \in Nat
    BY <1>10, <1>11 DEF Boundaries
  <2> QED BY <1>10, <1>11, <2>1
<1>16. AlertsAreTrue'
  <2>1. ASSUME NEW n \in alerts, NEW b \in titles
        PROVE  ~(n.boundary = b /\ n.budget = c.monthlyLimit)
    BY <1>4, <1>14, <1>15
  <2>2. ASSUME NEW n \in alerts', NEW m \in alerts', n.boundary = m.boundary, n.budget = m.budget
        PROVE  n = m
    <3>1. CASE n \in alerts /\ m \in alerts
      BY <2>2, <3>1 DEF RulesInv, AlertsAreExact, AlertsAreTrue
    <3>2. CASE n \in alerts /\ m \notin alerts
      BY <1>12, <2>1, <2>2, <3>2
    <3>3. CASE n \notin alerts /\ m \in alerts
      BY <1>12, <2>1, <2>2, <3>3
    <3>4. CASE n \notin alerts /\ m \notin alerts
      BY <1>12, <2>2, <3>4
    <3> QED BY <3>1, <3>2, <3>3, <3>4
  <2>3. ASSUME NEW n \in alerts'
        PROVE  n.boundary * n.budget <= 10 * SettledThisMonth'
    <3>1. CASE n \in alerts
      BY <1>4, <1>14, <3>1
    <3>2. CASE n \notin alerts
      <4>1. PICK b \in titles : n = [boundary |-> b, budget |-> c.monthlyLimit, purchase |-> p]
        BY <1>12, <3>2
      <4>2. n.boundary * n.budget = At(b)
        BY <4>1
      <4> QED BY <1>4, <1>15, <4>2
    <3> QED BY <3>1, <3>2
  <2> QED BY <2>2, <2>3 DEF AlertsAreTrue
<1>17. AlertsAreComplete'
  <2>1. ASSUME NEW b \in rule.notify, ~(10 * since >= b * rule.monthlyLimit),
               ~(b * rule.monthlyLimit > 10 * SettledThisMonth'), ~outdated'
        PROVE  \E n \in alerts' : n.boundary = b /\ n.budget = rule.monthlyLimit
    <3>1. ~outdated /\ c = Current
      BY <1>5, <2>1
    <3>2. c.monthlyLimit = rule.monthlyLimit /\ c.notify = rule.notify
      BY <3>1 DEF Current
    <3>3. CASE ~(b * rule.monthlyLimit > 10 * SettledThisMonth)
      <4>1. \E n \in alerts : n.boundary = b /\ n.budget = rule.monthlyLimit
        BY <2>1, <3>1, <3>3 DEF RulesInv, AlertsAreExact, AlertsAreComplete
      <4> QED BY <1>5, <4>1
    <3>4. CASE b * rule.monthlyLimit > 10 * SettledThisMonth
      <4>1. b \in Nat /\ At(b) \in Nat /\ At(b) = b * rule.monthlyLimit
        BY <1>10, <3>2 DEF Boundaries
      <4> HIDE DEF At
      <4>2. 10 * SettledThisMonth < At(b) /\ At(b) <= 10 * (SettledThisMonth + AmountOf[p])
        BY <1>4, <2>1, <3>4, <4>1
      <4>3. b \in titles
        BY <1>11, <3>2, <4>2
      <4>4. [boundary |-> b, budget |-> c.monthlyLimit, purchase |-> p] \in alerts'
        BY <1>5, <4>3 DEF titles
      <4> QED BY <3>2, <4>4
    <3> QED BY <3>3, <3>4
  <2> QED BY <1>1, <2>1 DEF AlertsAreComplete
<1>6. UsedUpIsRetired'
  <2>1. CompletedUses' = CompletedUses + 1
    BY <1>2, TotalAdds, UsesAreNumbers DEF CompletedUses
  <2>2. Cardinality(In("HELD")') = Cardinality(In("HELD")) - 1
    BY <1>2, TotalsAreNumbers, UsesAreNumbers, FS_RemoveElement
  <2>3. CardUses' = CardUses
    <3>1. CardUses' = CompletedUses' + Cardinality(In("HELD")')
      BY DEF CardUses
    <3> QED BY <2>1, <2>2, <3>1, UsesAreNumbers
  <2> QED BY <1>1, <2>3 DEF UsedUpIsRetired, RulesInv
<1>7. since' <= SettledThisMonth'
  BY <1>1, <1>4 DEF RulesInv
<1>8. booked' \subseteq In("CAPTURED")'
  BY <1>1, <1>2 DEF RulesInv
<1>9. retired' \in BOOLEAN /\ outdated' \in BOOLEAN /\ read' \in [Purchases -> SUBSET Budgeted]
  BY <1>1, <1>5 DEF RulesInv
<1>18. AlertsAreExact'
  BY <1>16, <1>17 DEF AlertsAreExact
<1> QED BY <1>1, <1>2, <1>6, <1>7, <1>8, <1>9, <1>13, <1>18 DEF RulesInv

LEMMA ReverseKeepsRules ==
    ASSUME RulesInv, NEW p \in Purchases, ReversePurchase(p)
    PROVE  RulesInv'
<1>1. /\ purchase \in [Purchases -> PurchaseStatus] /\ purchase[p] = "HELD"
      /\ purchase' = [purchase EXCEPT ![p] = "REVERSED"]
      /\ read' = [read EXCEPT ![p] = {}] /\ read' \in [Purchases -> SUBSET Budgeted]
      /\ UNCHANGED <<rule, booked, retired, alerts, since, outdated, changes>>
  BY DEF RulesInv, ReversePurchase
<1>2. /\ purchase' \in [Purchases -> PurchaseStatus]
      /\ In("HELD")' = In("HELD") \ {p} /\ In("CAPTURED")' = In("CAPTURED")
      /\ p \in In("HELD")
  <2>1. /\ "HELD" \in PurchaseStatus /\ "CAPTURED" \in PurchaseStatus
        /\ "REVERSED" \in PurchaseStatus
    BY DEF PurchaseStatus
  <2>2. p \in In("HELD") /\ p \notin In("CAPTURED")
    BY <1>1 DEF In
  <2>3. /\ purchase' \in [Purchases -> PurchaseStatus]
        /\ \A s \in PurchaseStatus :
             In(s)' = IF s = "REVERSED" THEN In(s) \cup {p} ELSE In(s) \ {p}
    BY <1>1, <2>1, PurchaseMoves
  <2>4. In("HELD")' = In("HELD") \ {p} /\ In("CAPTURED")' = In("CAPTURED") \ {p}
    BY <2>1, <2>3
  <2> QED BY <2>2, <2>3, <2>4
<1>3. SettledThisMonth' = SettledThisMonth
  BY <1>1 DEF SettledThisMonth, Total
<1>4. UsedUpIsRetired'
  <2>1. CompletedUses' = CompletedUses
    BY <1>2 DEF CompletedUses
  <2>2. Cardinality(In("HELD")') = Cardinality(In("HELD")) - 1
    BY <1>2, TotalsAreNumbers, UsesAreNumbers, FS_RemoveElement
  <2>3. CardUses' = CardUses - 1 /\ CardUses \in Nat
    <3>1. CardUses' = CompletedUses' + Cardinality(In("HELD")')
      BY DEF CardUses
    <3> QED BY <2>1, <2>2, <3>1, UsesAreNumbers
  <2> QED BY <1>1, <2>1, <2>3, RuleNumbers DEF UsedUpIsRetired, RulesInv
<1>5. AlertsAreExact'
  BY <1>1, AlertsStand
<1> QED BY <1>1, <1>2, <1>3, <1>4, <1>5 DEF RulesInv

LEMMA UpdateKeepsRules ==
    ASSUME RulesInv, NEW limit \in UsageLimits, NEW budget \in Budgets,
           NEW notify \in {{}, Boundaries}, UpdateRules(limit, budget, notify)
    PROVE  RulesInv'
<1>1. /\ rule' = [usageLimit |-> limit, monthlyLimit |-> budget, notify |-> notify]
      /\ limit > CompletedUses /\ limit >= CardUses
      /\ since' = SettledThisMonth /\ outdated' = FALSE
      /\ UNCHANGED <<purchase, read, booked, retired, alerts>>
  BY DEF UpdateRules, UsageLimitMayBe
<1>2. SettledThisMonth' = SettledThisMonth /\ SettledThisMonth \in Nat
  BY <1>1, RuleNumbers DEF SettledThisMonth, Total
<1>3. /\ CompletedUses' = CompletedUses /\ CardUses' = CardUses
      /\ In("CAPTURED")' = In("CAPTURED")
  BY <1>1 DEF CompletedUses, CardUses, In
<1>4. rule' \in [usageLimit : UsageLimits, monthlyLimit : Budgets, notify : SUBSET Boundaries]
  BY <1>1
<1>5. AlertsAreExact'
  <2>1. ASSUME NEW b \in Boundaries
        PROVE  10 * SettledThisMonth >= b * budget \/ b * budget > 10 * SettledThisMonth
    <3>1. budget \in Nat
      BY CardRulesAssumption
    <3> DEFINE at == b * budget
    <3>2. at \in Nat
      BY <3>1 DEF Boundaries
    <3> HIDE DEF at
    <3>3. 10 * SettledThisMonth >= at \/ at > 10 * SettledThisMonth
      BY <1>2, <3>2
    <3> QED BY <3>3 DEF at
  <2>2. rule'.monthlyLimit = budget /\ rule'.notify \subseteq Boundaries
    BY <1>1
  <2>3. AlertsAreComplete'
    BY <1>1, <1>2, <2>1, <2>2 DEF AlertsAreComplete
  <2>4. AlertsAreTrue'
    BY <1>1, <1>2 DEF RulesInv, AlertsAreExact, AlertsAreTrue
  <2> QED BY <2>3, <2>4 DEF AlertsAreExact
<1>6. UsedUpIsRetired'
  <2>1. limit \in Nat
    BY CardRulesAssumption
  <2> QED BY <1>1, <1>3, <2>1, UsesAreNumbers DEF UsedUpIsRetired
<1>7. since' \in Nat /\ since' <= SettledThisMonth'
  BY <1>1, <1>2
<1>8. /\ booked' \subseteq In("CAPTURED")' /\ outdated' \in BOOLEAN /\ retired' \in BOOLEAN
  BY <1>1, <1>3 DEF RulesInv
<1>9. /\ purchase' \in [Purchases -> PurchaseStatus] /\ alerts' \subseteq Alerts
      /\ read' \in [Purchases -> SUBSET Budgeted]
  BY <1>1 DEF RulesInv
<1> QED BY <1>4, <1>5, <1>6, <1>7, <1>8, <1>9 DEF RulesInv

LEMMA RetireKeepsRules == RulesInv /\ RetireCard => RulesInv'
<1> SUFFICES ASSUME RulesInv, RetireCard PROVE RulesInv'
  OBVIOUS
<1>1. retired' = TRUE /\ UNCHANGED <<rule, purchase, read, booked, alerts, since, outdated, changes>>
  BY DEF RetireCard
<1>2. AlertsAreExact'
  BY <1>1, AlertsStand
<1> QED BY <1>1, <1>2 DEF RulesInv, UsedUpIsRetired, SettledThisMonth, Total, In, CardUses,
     CompletedUses

LEMMA MonthKeepsRules == RulesInv /\ NextBudgetMonth => RulesInv'
<1> SUFFICES ASSUME RulesInv, NextBudgetMonth PROVE RulesInv'
  OBVIOUS
<1>1. /\ booked' = {} /\ alerts' = {} /\ since' = 0 /\ outdated' = FALSE
      /\ UNCHANGED <<rule, purchase, read, retired, changes>>
  BY DEF NextBudgetMonth
<1>2. SettledThisMonth' = 0
  BY <1>1, SumEmpty DEF SettledThisMonth, Total
<1>3. AlertsAreExact'
  <2>1. ASSUME NEW b \in rule.notify PROVE b * rule.monthlyLimit > 0
    BY RuleNumbers DEF Boundaries, RulesInv
  <2>2. AlertsAreComplete'
    BY <1>1, <1>2, <2>1 DEF AlertsAreComplete
  <2> QED BY <1>1, <2>2 DEF AlertsAreExact, AlertsAreTrue
<1>4. UsedUpIsRetired'
  BY <1>1 DEF RulesInv, UsedUpIsRetired, In, CardUses, CompletedUses
<1>5. since' \in Nat /\ since' <= SettledThisMonth'
  BY <1>1, <1>2
<1>7. booked' \subseteq In("CAPTURED")' /\ outdated' \in BOOLEAN /\ alerts' \subseteq Alerts
  BY <1>1
<1>6. /\ rule' \in [usageLimit : UsageLimits, monthlyLimit : Budgets, notify : SUBSET Boundaries]
      /\ purchase' \in [Purchases -> PurchaseStatus] /\ retired' \in BOOLEAN
      /\ read' \in [Purchases -> SUBSET Budgeted]
  BY <1>1 DEF RulesInv
<1> QED BY <1>3, <1>4, <1>5, <1>6, <1>7 DEF RulesInv

LEMMA RulesStay == RulesInv /\ [CardRulesNext]_ruleVars => RulesInv'
<1> SUFFICES ASSUME RulesInv, [CardRulesNext]_ruleVars PROVE RulesInv'
  OBVIOUS
<1>1. CASE UNCHANGED ruleVars
  <2>1. AlertsAreExact'
    BY <1>1, AlertsStand DEF ruleVars
  <2> QED BY <1>1, <2>1 DEF ruleVars, RulesInv, UsedUpIsRetired, SettledThisMonth, Total, In,
     CardUses, CompletedUses
<1> QED BY <1>1, AuthorizeKeepsRules, ReadKeepsRules, CaptureKeepsRules, ReverseKeepsRules, UpdateKeepsRules,
     RetireKeepsRules, MonthKeepsRules DEF CardRulesNext

LEMMA RulesInvariant == CardRulesSpec => []RulesInv
  BY RulesStart, RulesStay, PTL DEF CardRulesSpec

\* budgetAlerts, with the card that was read before the lock: an amount that is a boundary of a
\* budget is announced once in a month and not before it is settled, in whatever sums purchases are
\* settled and however the rules change meanwhile, and none is left out but by a capture that went
\* by a card that was changed.
THEOREM AlertsAreSentOnce == CardRulesSpec => []AlertsAreExact
<1>1. RulesInv => AlertsAreExact
  BY DEF RulesInv
<1> QED BY <1>1, RulesInvariant, PTL

\* policyDecision and the RULES command: no more purchases than the usage limit are held or
\* captured, and a card whose limit is used up is retired, whatever limits the owner sets between.
THEOREM UsesAreLimited == CardRulesSpec => []UsedUpIsRetired
<1>1. RulesInv => UsedUpIsRetired
  BY DEF RulesInv
<1> QED BY <1>1, RulesInvariant, PTL

(***************************************************************************)
(* Ledger: a balance is what the committed entries of its account sum to.  *)
(***************************************************************************)
EntryRow == [reference : References, key : PostedKeys, amount : Int]

\* The rows a transaction holds are its own, and on top of what is committed.
RowsInv ==
    /\ DOMAIN written = Posters /\ written = [p \in Posters |-> written[p]]
    /\ \A p \in Posters : poster[p] # "lines" => DOMAIN written[p] = {}
    /\ \A p \in Posters : \A k \in DOMAIN written[p] :
         /\ k \in KeysOf(p) /\ written[p][k] = balance[k] + Merged(p)[k]
         /\ k \in OwnedKeys => written[p][k] >= 0
    /\ \A p, q \in Posters : p # q => DOMAIN written[p] \cap DOMAIN written[q] = {}

\* A reference that is being posted is not in the ledger and not posted by another.
ReferencesInv ==
    /\ \A p \in Posters : poster[p] = "lines" => \A e \in entries : e.reference # ReferenceOf[p]
    /\ \A p, q \in Posters :
         p # q /\ poster[p] = "lines" /\ poster[q] = "lines" => ReferenceOf[p] # ReferenceOf[q]

LedgerInv ==
    /\ balance \in [PostedKeys -> Int] /\ IsFiniteSet(entries) /\ entries \subseteq EntryRow
    /\ poster \in [Posters -> {"idle", "journal", "lines", "ended"}]
    /\ BalancesAreEntries /\ RowsInv /\ ReferencesInv

LEMMA LinesMerge ==
    ASSUME NEW p \in Posters
    PROVE  /\ KeysOf(p) \subseteq PostedKeys /\ IsFiniteSet(KeysOf(p))
           /\ Merged(p) \in [KeysOf(p) -> Int]
<1> DEFINE D == DOMAIN LinesOf[p]
           f == [i \in D |-> LinesOf[p][i].key]
<1>1. LinesOf[p] \in Seq([key : PostedKeys, amount : Int])
  BY LedgerAssumption
<1>2. D = 1 .. Len(LinesOf[p]) /\ Len(LinesOf[p]) \in Nat
      /\ \A i \in D : LinesOf[p][i] \in [key : PostedKeys, amount : Int]
  <2>1. ASSUME NEW T, NEW s \in Seq(T)
        PROVE  DOMAIN s = 1 .. Len(s) /\ Len(s) \in Nat /\ \A i \in DOMAIN s : s[i] \in T
    OBVIOUS
  <2> QED BY <1>1, <2>1
<1>3. IsFiniteSet(D)
  BY <1>2, FS_Interval
<1>4. f \in Surjection(D, KeysOf(p))
  BY DEF Surjection, KeysOf
<1>5. IsFiniteSet(KeysOf(p))
  <2> HIDE DEF f, D
  <2> QED BY <1>3, <1>4, FS_Surjection
<1>6. KeysOf(p) \subseteq PostedKeys
  BY <1>2 DEF KeysOf
<1>7. ASSUME NEW k \in KeysOf(p)
      PROVE  Net(Amounts(p), {i \in D : LinesOf[p][i].key = k}) \in Int
  <2> DEFINE S == {i \in D : LinesOf[p][i].key = k}
  <2>1. Amounts(p) \in [D -> Int]
    BY <1>2 DEF Amounts
  <2>2. S \in SUBSET D /\ IsFiniteSet(S)
    BY <1>3, FS_Subset
  <2> HIDE DEF S, D
  <2>3. Net(Amounts(p), S) \in Int
    BY <2>1, <2>2, NetType
  <2> QED BY <2>3 DEF S, D
<1>8. Merged(p) \in [KeysOf(p) -> Int]
  BY <1>7 DEF Merged
<1> QED BY <1>5, <1>6, <1>8

\* Entries of a larger set have the same amounts.
LEMMA BookedIn ==
    ASSUME NEW E, NEW S \in SUBSET E, \A e \in E : e.amount \in Int
    PROVE  Booked(S) = Net([e \in E |-> e.amount], S)
<1>1. [e \in S |-> e.amount] \in [S -> Int] /\ [e \in E |-> e.amount] \in [E -> Int]
  OBVIOUS
<1>2. S \in SUBSET (S \cap E)
  OBVIOUS
<1>3. \A e \in S : [d \in S |-> d.amount][e] = [d \in E |-> d.amount][e]
  OBVIOUS
<1> QED BY <1>1, <1>2, <1>3, NetAgrees DEF Booked

LEMMA BookedAdds ==
    ASSUME NEW S, IsFiniteSet(S), \A e \in S : e.amount \in Int, NEW x, x \notin S, x.amount \in Int
    PROVE  Booked(S \cup {x}) = Booked(S) + x.amount /\ Booked(S) \in Int
<1> DEFINE E == S \cup {x}
           A == [e \in E |-> e.amount]
<1>1. A \in [E -> Int] /\ S \in SUBSET E /\ x \in E \ S /\ A[x] = x.amount /\ E \in SUBSET E
      /\ \A e \in E : e.amount \in Int
  OBVIOUS
<1>2. Booked(S) = Net(A, S) /\ Booked(E) = Net(A, E)
  BY <1>1, BookedIn
<1>3. Net(A, S \cup {x}) = Net(A, S) + x.amount /\ Net(A, S) \in Int
  <2> HIDE DEF A, E
  <2>1. Net(A, S \cup {x}) = Net(A, S) + A[x]
    BY <1>1, NetAdds
  <2>2. Net(A, S) \in Int
    BY <1>1, NetType
  <2> QED BY <1>1, <2>1, <2>2
<1> QED BY <1>2, <1>3

LEMMA LedgerStarts == LedgerInit => LedgerInv
<1> SUFFICES ASSUME LedgerInit PROVE LedgerInv
  OBVIOUS
<1>1. /\ balance = [k \in PostedKeys |-> 0] /\ entries = {}
      /\ poster = [p \in Posters |-> "idle"] /\ written = [p \in Posters |-> <<>>]
  BY DEF LedgerInit
<1>2. IsFiniteSet({}) /\ Booked({}) = 0
  BY FS_EmptySet, NetEmpty DEF Booked
<1>3. BalancesAreEntries
  <2>1. \A k \in PostedKeys : {e \in entries : e.key = k} = {}
    BY <1>1
  <2>2. \A r \in References : {e \in entries : e.reference = r} = {}
    BY <1>1
  <2>3. OwnedKeys \subseteq PostedKeys
    BY LedgerAssumption
  <2> QED BY <1>1, <1>2, <2>1, <2>2, <2>3 DEF BalancesAreEntries
<1>4. \A p \in Posters : DOMAIN written[p] = {}
  BY <1>1
<1> QED BY <1>1, <1>2, <1>3, <1>4 DEF LedgerInv, RowsInv, ReferencesInv

LEMMA WaitingKeepsLedger ==
    ASSUME LedgerInv, NEW p \in Posters, LockOwner(p) \/ InsertJournal(p)
    PROVE  LedgerInv'
<1>1. /\ UNCHANGED <<balance, entries, written>>
      /\ poster[p] \in {"idle", "journal"}
      /\ poster' \in [Posters -> {"idle", "journal", "lines", "ended"}]
      /\ \A q \in Posters : q # p => poster'[q] = poster[q]
      /\ poster'[p] = "lines" =>
           /\ \A e \in entries : e.reference # ReferenceOf[p]
           /\ \A q \in Posters : poster[q] = "lines" => ReferenceOf[q] # ReferenceOf[p]
  BY DEF LedgerInv, LockOwner, InsertJournal
<1>2. RowsInv'
  BY <1>1 DEF LedgerInv, RowsInv
<1>3. ReferencesInv'
  BY <1>1 DEF LedgerInv, ReferencesInv
<1> QED BY <1>1, <1>2, <1>3 DEF LedgerInv, BalancesAreEntries

LEMMA WriteKeepsLedger ==
    ASSUME LedgerInv, NEW p \in Posters, WriteLine(p)
    PROVE  LedgerInv'
<1>1. poster[p] = "lines" /\ UNCHANGED <<balance, entries, poster>> /\ RowsInv
  BY DEF WriteLine, LedgerInv
<1>2. PICK i \in Left(p) :
        /\ RowFree(AccountKeys[i]) /\ Covers(AccountKeys[i], Merged(p)[AccountKeys[i]])
        /\ written' = [written EXCEPT ![p] =
             [k \in DOMAIN @ \cup {AccountKeys[i]} |->
                IF k = AccountKeys[i] THEN balance[k] + Merged(p)[k] ELSE @[k]]]
  BY DEF WriteLine
<1> DEFINE key == AccountKeys[i]
           sums == [k \in DOMAIN written[p] \cup {key} |->
                     IF k = key THEN balance[k] + Merged(p)[k] ELSE written[p][k]]
<1>3. key \in KeysOf(p) /\ \A q \in Posters : key \notin DOMAIN written[q]
  BY <1>2 DEF Left, RowFree
<1>4. key \in OwnedKeys => balance[key] + Merged(p)[key] >= 0
  BY <1>2 DEF Covers
<1>5. /\ DOMAIN written' = Posters /\ written' = [q \in Posters |-> written'[q]]
      /\ written'[p] = sums /\ \A q \in Posters : q # p => written'[q] = written[q]
  BY <1>1, <1>2 DEF RowsInv
<1>6. /\ DOMAIN written'[p] = DOMAIN written[p] \cup {key}
      /\ written'[p][key] = balance[key] + Merged(p)[key]
      /\ \A k \in DOMAIN written[p] : written'[p][k] = written[p][k]
  BY <1>3, <1>5
<1> HIDE DEF key, sums
<1>7. ASSUME NEW q \in Posters, NEW k \in DOMAIN written'[q]
      PROVE  /\ k \in KeysOf(q) /\ written'[q][k] = balance[k] + Merged(q)[k]
             /\ k \in OwnedKeys => written'[q][k] >= 0
  <2>1. CASE q = p /\ k = key
    BY <1>3, <1>4, <1>6, <2>1
  <2>2. CASE q = p /\ k # key
    <3>1. k \in DOMAIN written[p]
      BY <1>6, <1>7, <2>2
    <3> QED BY <1>1, <1>6, <2>2, <3>1 DEF RowsInv
  <2>3. CASE q # p
    BY <1>1, <1>5, <1>7, <2>3 DEF RowsInv
  <2> QED BY <2>1, <2>2, <2>3
<1>8. ASSUME NEW q \in Posters, NEW r \in Posters, q # r
      PROVE  DOMAIN written'[q] \cap DOMAIN written'[r] = {}
  <2>1. DOMAIN written[q] \cap DOMAIN written[r] = {}
    BY <1>1, <1>8 DEF RowsInv
  <2>2. CASE q = p
    BY <1>3, <1>5, <1>6, <1>8, <2>1, <2>2
  <2>3. CASE r = p
    BY <1>3, <1>5, <1>6, <1>8, <2>1, <2>3
  <2> QED BY <1>5, <2>1, <2>2, <2>3
<1>9. \A q \in Posters : poster'[q] # "lines" => DOMAIN written'[q] = {}
  BY <1>1, <1>5 DEF RowsInv
<1>10. RowsInv'
  <2>1. \A q \in Posters : KeysOf(q)' = KeysOf(q) /\ Merged(q)' = Merged(q)
    BY DEF KeysOf, Merged, Amounts
  <2> QED BY <1>1, <1>5, <1>7, <1>8, <1>9, <2>1 DEF RowsInv
<1> QED BY <1>1, <1>10 DEF LedgerInv, BalancesAreEntries, ReferencesInv

LEMMA RollbackKeepsLedger ==
    ASSUME LedgerInv, NEW p \in Posters, Rollback(p)
    PROVE  LedgerInv'
<1>1. /\ UNCHANGED <<balance, entries>> /\ RowsInv /\ ReferencesInv
      /\ poster' \in [Posters -> {"idle", "journal", "lines", "ended"}] /\ poster'[p] = "idle"
      /\ \A q \in Posters : q # p => poster'[q] = poster[q]
  BY DEF LedgerInv, Rollback
<1>2. /\ DOMAIN written' = Posters /\ written' = [q \in Posters |-> written'[q]]
      /\ DOMAIN written'[p] = {} /\ \A q \in Posters : q # p => written'[q] = written[q]
  BY <1>1 DEF Rollback, RowsInv
<1>3. RowsInv'
  BY <1>1, <1>2 DEF RowsInv
<1>4. ReferencesInv'
  BY <1>1 DEF ReferencesInv
<1> QED BY <1>1, <1>3, <1>4 DEF LedgerInv, BalancesAreEntries

\* The journal a transaction adds: one entry for every account it merged its lines to.
LEMMA JournalIsWhole ==
    ASSUME LedgerInv, NEW p \in Posters, Commit(p)
    PROVE  /\ EntriesOf(p) \subseteq EntryRow /\ IsFiniteSet(EntriesOf(p))
           /\ \A e \in EntriesOf(p) : e.reference = ReferenceOf[p] /\ e \notin entries
           /\ Booked(EntriesOf(p)) = 0
<1> DEFINE K == KeysOf(p)
           M == Merged(p)
           entry == [k \in K |-> [reference |-> ReferenceOf[p], key |-> k, amount |-> M[k]]]
           A == [e \in EntriesOf(p) |-> e.amount]
<1>1. K \subseteq PostedKeys /\ IsFiniteSet(K) /\ M \in [K -> Int] /\ ReferenceOf[p] \in References
  BY LinesMerge DEF References
<1>2. EntriesOf(p) \subseteq EntryRow
  BY <1>1 DEF EntriesOf, EntryRow
<1>3. /\ entry \in [K -> EntriesOf(p)] /\ \A k \in K : entry[k].key = k
      /\ \A e \in EntriesOf(p) : \E k \in K : entry[k] = e
  BY DEF EntriesOf
<1>4. entry \in Bijection(K, EntriesOf(p))
  <2> HIDE DEF entry, K, M
  <2> QED BY <1>3 DEF Bijection, Injection, Surjection, IsInjective
<1>5. IsFiniteSet(EntriesOf(p))
  <2>1. entry \in Surjection(K, EntriesOf(p))
    BY <1>4 DEF Bijection
  <2> HIDE DEF entry, K
  <2> QED BY <1>1, <2>1, FS_Surjection
<1>6. \A e \in EntriesOf(p) : e.reference = ReferenceOf[p] /\ e \notin entries
  BY DEF Commit, LedgerInv, ReferencesInv, EntriesOf
<1>7. A \in [EntriesOf(p) -> Int] /\ \A k \in K : A[entry[k]] = M[k]
  BY <1>2, <1>3 DEF EntryRow
<1>8. Net(A, EntriesOf(p)) = Net(M, K)
  <2> HIDE DEF A, M, K, entry
  <2> QED BY <1>1, <1>4, <1>7, NetMoves
<1>9. Net(M, K) = 0
  <2>1. DOMAIN M = K
    BY DEF Merged
  <2> QED BY <2>1 DEF Commit, Balanced
<1> QED BY <1>2, <1>5, <1>6, <1>8, <1>9 DEF Booked

\* What a transaction commits is on top of the balances that are committed when it ends.
LEMMA CommitWrites ==
    ASSUME LedgerInv, NEW p \in Posters, Commit(p)
    PROVE  /\ KeysOf(p) \subseteq PostedKeys /\ DOMAIN written[p] = KeysOf(p)
           /\ balance' = [k \in PostedKeys |-> IF k \in KeysOf(p) THEN balance[k] + Merged(p)[k]
                                                                 ELSE balance[k]]
           /\ \A k \in OwnedKeys \cap KeysOf(p) : balance'[k] >= 0
<1>1. KeysOf(p) \subseteq PostedKeys
  BY LinesMerge
<1>2. DOMAIN written[p] = KeysOf(p)
  <2>1. DOMAIN written[p] \subseteq KeysOf(p)
    BY DEF LedgerInv, RowsInv
  <2>2. ASSUME NEW k \in KeysOf(p), k \notin DOMAIN written[p] PROVE FALSE
    <3>1. PICK i \in DOMAIN AccountKeys : AccountKeys[i] = k
      BY <1>1 DEF PostedKeys
    <3>2. i \in Left(p)
      BY <2>2, <3>1 DEF Left
    <3> QED BY <3>2 DEF Commit
  <2> QED BY <2>1, <2>2
<1>3. \A k \in KeysOf(p) : /\ written[p][k] = balance[k] + Merged(p)[k]
                           /\ k \in OwnedKeys => written[p][k] >= 0
  BY <1>2 DEF LedgerInv, RowsInv
<1>4. balance' = [k \in PostedKeys |-> IF k \in KeysOf(p) THEN written[p][k] ELSE balance[k]]
  BY <1>2 DEF Commit
<1>5. balance' = [k \in PostedKeys |-> IF k \in KeysOf(p) THEN balance[k] + Merged(p)[k]
                                                        ELSE balance[k]]
  BY <1>3, <1>4
<1>6. ASSUME NEW k \in OwnedKeys \cap KeysOf(p) PROVE balance'[k] >= 0
  <2>1. k \in OwnedKeys /\ k \in KeysOf(p) /\ k \in PostedKeys
    BY <1>1
  <2>2. balance'[k] = written[p][k] /\ written[p][k] >= 0
    BY <1>3, <1>4, <2>1
  <2> QED BY <2>2
<1> QED BY <1>1, <1>2, <1>5, <1>6

LEMMA CommitKeepsBalances ==
    ASSUME LedgerInv, NEW p \in Posters, Commit(p)
    PROVE  BalancesAreEntries'
<1>1. /\ RowsInv /\ BalancesAreEntries /\ balance \in [PostedKeys -> Int]
      /\ IsFiniteSet(entries) /\ entries \subseteq EntryRow
      /\ entries' = entries \cup EntriesOf(p)
      /\ balance' = [k \in PostedKeys |-> IF k \in DOMAIN written[p] THEN written[p][k] ELSE balance[k]]
  BY DEF LedgerInv, Commit
<1>2. /\ EntriesOf(p) \subseteq EntryRow /\ IsFiniteSet(EntriesOf(p))
      /\ \A e \in EntriesOf(p) : e.reference = ReferenceOf[p] /\ e \notin entries
      /\ Booked(EntriesOf(p)) = 0
  BY JournalIsWhole
<1>3. KeysOf(p) \subseteq PostedKeys /\ Merged(p) \in [KeysOf(p) -> Int]
  BY LinesMerge
<1>4. DOMAIN written[p] = KeysOf(p)
  BY CommitWrites
<1>5. ASSUME NEW k \in PostedKeys
      PROVE  balance'[k] = Booked({e \in entries' : e.key = k})
  <2> DEFINE S == {e \in entries : e.key = k}
             x == [reference |-> ReferenceOf[p], key |-> k, amount |-> Merged(p)[k]]
  <2>1. balance[k] = Booked(S)
    BY <1>1 DEF BalancesAreEntries
  <2>2. CASE k \in KeysOf(p)
    <3>1. {e \in entries' : e.key = k} = S \cup {x} /\ x \in EntriesOf(p)
      BY <1>1, <2>2 DEF EntriesOf
    <3>2. x \notin S /\ x.amount = Merged(p)[k] /\ x.amount \in Int
      BY <1>2, <1>3, <2>2, <3>1
    <3>3. IsFiniteSet(S) /\ \A e \in S : e.amount \in Int
      BY <1>1, FS_Subset DEF EntryRow
    <3>4. Booked(S \cup {x}) = Booked(S) + x.amount
      <4> HIDE DEF S, x
      <4> QED BY <3>2, <3>3, BookedAdds
    <3>5. balance'[k] = balance[k] + Merged(p)[k]
      BY <1>1, <1>4, <2>2 DEF RowsInv
    <3> QED BY <2>1, <3>1, <3>2, <3>4, <3>5
  <2>3. CASE k \notin KeysOf(p)
    <3>1. {e \in entries' : e.key = k} = S
      BY <1>1, <2>3 DEF EntriesOf
    <3>2. balance'[k] = balance[k]
      BY <1>1, <1>4, <2>3
    <3> QED BY <2>1, <3>1, <3>2
  <2> QED BY <2>2, <2>3
<1>6. ASSUME NEW r \in References
      PROVE  Booked({e \in entries' : e.reference = r}) = 0
  <2>1. CASE r = ReferenceOf[p]
    <3>1. \A e \in entries : e.reference # r
      BY <2>1 DEF Commit, LedgerInv, ReferencesInv
    <3>2. {e \in entries' : e.reference = r} = EntriesOf(p)
      BY <1>1, <1>2, <2>1, <3>1
    <3> QED BY <1>2, <3>2
  <2>2. CASE r # ReferenceOf[p]
    <3>1. {e \in entries' : e.reference = r} = {e \in entries : e.reference = r}
      BY <1>1, <1>2, <2>2
    <3> QED BY <1>1, <3>1 DEF BalancesAreEntries
  <2> QED BY <2>1, <2>2
<1>7. ASSUME NEW k \in OwnedKeys PROVE balance'[k] >= 0
  <2>1. k \in PostedKeys
    BY LedgerAssumption
  <2> QED BY <1>1, <2>1 DEF RowsInv, BalancesAreEntries
<1> QED BY <1>5, <1>6, <1>7 DEF BalancesAreEntries

LEMMA CommitKeepsLedger ==
    ASSUME LedgerInv, NEW p \in Posters, Commit(p)
    PROVE  LedgerInv'
<1>1. /\ RowsInv /\ ReferencesInv /\ balance \in [PostedKeys -> Int]
      /\ poster[p] = "lines" /\ poster' \in [Posters -> {"idle", "journal", "lines", "ended"}]
      /\ poster'[p] = "ended" /\ \A q \in Posters : q # p => poster'[q] = poster[q]
      /\ IsFiniteSet(entries) /\ entries \subseteq EntryRow
      /\ entries' = entries \cup EntriesOf(p)
      /\ balance' = [k \in PostedKeys |-> IF k \in DOMAIN written[p] THEN written[p][k] ELSE balance[k]]
  BY DEF LedgerInv, Commit
<1>2. /\ DOMAIN written' = Posters /\ written' = [q \in Posters |-> written'[q]]
      /\ DOMAIN written'[p] = {} /\ \A q \in Posters : q # p => written'[q] = written[q]
  BY <1>1 DEF Commit, RowsInv
<1>3. EntriesOf(p) \subseteq EntryRow /\ IsFiniteSet(EntriesOf(p))
      /\ \A e \in EntriesOf(p) : e.reference = ReferenceOf[p]
  BY JournalIsWhole
<1>4. IsFiniteSet(entries') /\ entries' \subseteq EntryRow
  BY <1>1, <1>3, FS_Union
<1>5. balance' \in [PostedKeys -> Int]
  <2>1. \A k \in DOMAIN written[p] : written[p][k] \in Int
    <3>1. KeysOf(p) \subseteq PostedKeys /\ Merged(p) \in [KeysOf(p) -> Int]
      BY LinesMerge
    <3> QED BY <1>1, <3>1 DEF RowsInv
  <2> QED BY <1>1, <2>1
<1>6. RowsInv'
  <2>1. ASSUME NEW q \in Posters, NEW k \in DOMAIN written'[q]
        PROVE  /\ k \in KeysOf(q) /\ written'[q][k] = balance'[k] + Merged(q)[k]
               /\ k \in OwnedKeys => written'[q][k] >= 0
    <3>1. q # p /\ written'[q] = written[q]
      BY <1>2, <2>1
    <3>2. k \notin DOMAIN written[p]
      BY <1>1, <2>1, <3>1 DEF RowsInv
    <3>3. /\ k \in KeysOf(q) /\ written[q][k] = balance[k] + Merged(q)[k]
          /\ k \in OwnedKeys => written[q][k] >= 0
      BY <1>1, <2>1, <3>1 DEF RowsInv
    <3>4. k \in PostedKeys
      BY <3>3, LinesMerge
    <3>5. balance'[k] = balance[k]
      BY <1>1, <3>2, <3>4
    <3> QED BY <3>1, <3>3, <3>5
  <2>2. ASSUME NEW q \in Posters, NEW r \in Posters, q # r
        PROVE  DOMAIN written'[q] \cap DOMAIN written'[r] = {}
    BY <1>1, <1>2, <2>2 DEF RowsInv
  <2>3. \A q \in Posters : poster'[q] # "lines" => DOMAIN written'[q] = {}
    BY <1>1, <1>2 DEF RowsInv
  <2>4. \A q \in Posters : KeysOf(q)' = KeysOf(q) /\ Merged(q)' = Merged(q)
    BY DEF KeysOf, Merged, Amounts
  <2> QED BY <1>2, <2>1, <2>2, <2>3, <2>4 DEF RowsInv
<1>7. ReferencesInv'
  <2>1. ASSUME NEW q \in Posters, poster'[q] = "lines", NEW e \in entries'
        PROVE  e.reference # ReferenceOf[q]
    <3>1. q # p /\ poster[q] = "lines"
      BY <1>1, <2>1
    <3>2. CASE e \in entries
      BY <1>1, <3>1, <3>2 DEF ReferencesInv
    <3>3. CASE e \in EntriesOf(p)
      BY <1>1, <1>3, <3>1, <3>3 DEF ReferencesInv
    <3> QED BY <1>1, <2>1, <3>2, <3>3
  <2> QED BY <1>1, <2>1 DEF ReferencesInv
<1> QED BY <1>1, <1>4, <1>5, <1>6, <1>7, CommitKeepsBalances DEF LedgerInv

LEMMA LedgerStays == LedgerInv /\ [LedgerNext]_ledgerVars => LedgerInv'
<1> SUFFICES ASSUME LedgerInv, [LedgerNext]_ledgerVars PROVE LedgerInv'
  OBVIOUS
<1>1. CASE UNCHANGED ledgerVars
  BY <1>1 DEF ledgerVars, LedgerInv, BalancesAreEntries, RowsInv, ReferencesInv
<1> QED BY <1>1, WaitingKeepsLedger, WriteKeepsLedger, CommitKeepsLedger, RollbackKeepsLedger
     DEF LedgerNext

\* Type correctness of the ledger: every balance, entry and row being written is of an account.
THEOREM LedgerTypes == LedgerSpec => []LedgerTypeOK
<1>1. ASSUME LedgerInv PROVE LedgerTypeOK
  <2>1. \A p \in Posters : DOMAIN written[p] \subseteq PostedKeys
    BY <1>1, LinesMerge DEF LedgerInv, RowsInv
  <2> QED BY <1>1, <2>1 DEF LedgerInv, LedgerTypeOK, EntryRow
<1> QED BY <1>1, LedgerStarts, LedgerStays, PTL DEF LedgerSpec

\* LedgerService.post and finance_check_journal: however transactions meet on the accounts they
\* share and are rolled back and repeated, a cached balance is the sum of its entries, a journal
\* sums to zero and no customer's account is overdrawn.
THEOREM BalancesAreTheirEntries == LedgerSpec => []BalancesAreEntries
<1>1. LedgerInv => BalancesAreEntries
  BY DEF LedgerInv
<1> QED BY <1>1, LedgerStarts, LedgerStays, PTL DEF LedgerSpec

(***************************************************************************)
(* AtomicLedger is implemented: a commit is the posting of one journal,    *)
(* and no other step shows.                                                *)
(***************************************************************************)
LEMMA SameNets == \A w, S : Atomic!Net(w, S) = Net(w, S)
<1>1. \A S : Atomic!Cardinality(S) = Cardinality(S)
  BY DEF Atomic!Cardinality, Cardinality
<1>2. \A w, S : Atomic!Sum(w, S) = Sum(w, S)
  BY <1>1 DEF Atomic!Sum, Sum, Atomic!Units, Units
<1> QED BY <1>2 DEF Atomic!Net, Net, Atomic!Gains, Gains, Atomic!Losses, Losses

LEMMA CommitPosts ==
    ASSUME LedgerInv, NEW p \in Posters, Commit(p)
    PROVE  Atomic!AtomicNext
<1> DEFINE j == [reference |-> ReferenceOf[p], change |-> Merged(p)]
<1>1. j.reference = ReferenceOf[p] /\ j.change = Merged(p) /\ DOMAIN Merged(p) = KeysOf(p)
  BY DEF Merged
<1>2. \A e \in entries : e.reference # ReferenceOf[p]
  BY DEF Commit, LedgerInv, ReferencesInv
<1>3. Atomic!Net(Merged(p), KeysOf(p)) = 0
  BY <1>1, SameNets DEF Commit, Balanced
<1>4. entries' = entries \cup
        {[reference |-> ReferenceOf[p], key |-> k, amount |-> Merged(p)[k]] : k \in KeysOf(p)}
  BY DEF Commit, EntriesOf
<1>5. j \in Posted
  BY DEF Posted
<1> HIDE DEF j
<1>6. Atomic!PostJournal(j)
  BY <1>1, <1>2, <1>3, <1>4, CommitWrites DEF Atomic!PostJournal
<1> QED BY <1>5, <1>6 DEF Atomic!AtomicNext

\* LedgerService.post is atomic to its callers, for any transactions, lines and accounts: what
\* is committed changes by whole journals, each posted once, on the balances before it, summing
\* to zero and overdrawing no customer, though the transactions interleave.
THEOREM PostingIsAtomic == LedgerSpec => ImplementsAtomicLedger
<1>1. LedgerInit => Atomic!AtomicInit
  BY DEF LedgerInit, Atomic!AtomicInit
<1>2. LedgerInv /\ [LedgerNext]_ledgerVars => [Atomic!AtomicNext]_Atomic!atomicVars
  <2> SUFFICES ASSUME LedgerInv, [LedgerNext]_ledgerVars
               PROVE  Atomic!AtomicNext \/ UNCHANGED <<balance, entries>>
    BY DEF Atomic!atomicVars
  <2>1. ASSUME NEW p \in Posters, LockOwner(p) \/ InsertJournal(p) \/ WriteLine(p) \/ Rollback(p)
        PROVE  UNCHANGED <<balance, entries>>
    BY <2>1 DEF LockOwner, InsertJournal, WriteLine, Rollback
  <2> QED BY <2>1, CommitPosts DEF LedgerNext, ledgerVars
<1> QED BY <1>1, <1>2, LedgerStarts, LedgerStays, PTL
     DEF LedgerSpec, ImplementsAtomicLedger, Atomic!AtomicSpec
===============================================================================
