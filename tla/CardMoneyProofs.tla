---------------------------- MODULE CardMoneyProofs ----------------------------
(***************************************************************************)
(* Theorems of the money of a card (CardAuthorizations).  The invariant    *)
(* joins the properties: the budget holds because an authorization counts  *)
(* what is on hold, and a hold is what its row leaves of the amount; a     *)
(* retired card stays empty because no hold is left that a late reversal   *)
(* could give back; a row is the sum of its journals because a transaction *)
(* that was booked is not booked again, and one of Sudo's declines ends    *)
(* the authorization.                                                      *)
(***************************************************************************)
EXTENDS CardAuthorizations, SumLemmas

AuthRow == [status : AuthStatuses, settled : Nat, released : Nat, refunded : Nat]
Bookings == {"capture", "refund", "reversal", "declined"}

\* What waits to be booked, and where the event runs are.
QueueInv ==
    /\ stale \subseteq Auths /\ due \in BOOLEAN
    /\ inbox \in [Txns -> InboxStatuses] /\ tagged \subseteq Txns
    /\ run \in [Runs -> [pc : {"idle", "picked", "fetched", "RETRY", "REVIEW"},
                         txn : Txns \cup {"none"}]]
    /\ \A r \in Runs : run[r].pc # "idle" => run[r].txn \in Txns
    /\ posted \in [Txns -> {"none"} \cup Bookings]
    /\ heard \in [Auths -> {"none", "approved", "declined"}]

MoneyState ==
    /\ rules \in Rules /\ auth \in [Auths -> AuthRow]
    /\ code \in [Auths -> {"none", "00", "05", "51"}]
    /\ wallet \in Nat /\ card \in Nat /\ clearing \in Int /\ balance \in Int
    /\ hold \in [Auths -> Nat] /\ booked \in [Txns -> {"none"} \cup Bookings]
    /\ thisMonth \subseteq Txns /\ retirement \in {"none", "RETIRING", "RETIRED"}

RowsInv ==
    /\ \A t \in Txns : /\ booked[t] = "capture" => Kind[t] = "capture"
                       /\ booked[t] \in {"refund", "reversal"} => Kind[t] = "refund"
                       /\ booked[t] = "declined" => Kind[t] = "declined"
    /\ \A t \in thisMonth : booked[t] = "capture"
    /\ \A a \in Auths : auth[a].status = "none" =>
         auth[a].settled = 0 /\ auth[a].released = 0 /\ auth[a].refunded = 0
    /\ \A a \in Auths : Booked(a, "declined") # {} => auth[a].status = "DECLINED"

CardInv ==
    /\ MoneyState /\ RowsInv /\ BookedOnce /\ HoldFollowsAuthorization
    /\ MoneyStaysWhole /\ LimitsHoldOut /\ LastUseIsLast /\ RetiredStaysEmpty
    /\ ApprovalsAreSpent

\* The purchases that take a slot.
Slots == {a \in Auths \ Verification : auth[a].status = "HELD" \/ a \in Completed}

(***************************************************************************)
(* Sets, sums and sizes.                                                   *)
(***************************************************************************)
LEMMA SetsAreFinite ==
    /\ IsFiniteSet(Auths) /\ IsFiniteSet(Txns)
    /\ \A S \in SUBSET Auths : IsFiniteSet(S) /\ Cardinality(S) \in Nat
    /\ \A S \in SUBSET Txns : IsFiniteSet(S)
  BY RequestAssumption, TxnAssumption, FS_Subset, FS_CardinalityType

LEMMA Smaller ==
    ASSUME NEW S \in SUBSET Auths, NEW T \in SUBSET S
    PROVE  Cardinality(T) <= Cardinality(S)
  BY SetsAreFinite, FS_Subset

LEMMA OneMore ==
    ASSUME NEW S \in SUBSET Auths, NEW a \in Auths
    PROVE  /\ Cardinality(S \cup {a}) <= Cardinality(S) + 1
           /\ a \notin S => Cardinality(S \cup {a}) = Cardinality(S) + 1
<1>1. IsFiniteSet(S) /\ Cardinality(S) \in Nat
  BY SetsAreFinite
<1>2. Cardinality(S \cup {a}) = IF a \in S THEN Cardinality(S) ELSE Cardinality(S) + 1
  BY <1>1, FS_AddElement
<1> QED BY <1>1, <1>2

\* The snapshot's spending is what is captured this month and what is on hold.
LEMMA HeldIsHold ==
    ASSUME MoneyState, HoldFollowsAuthorization
    PROVE  HeldAmount = Sum(hold, Auths)
<1> DEFINE rest == [a \in Auths |-> Remaining(a)]
<1>1. \A a \in Held : rest[a] = hold[a]
  BY DEF Held, HoldFollowsAuthorization
<1>2. Held \subseteq Auths /\ \A a \in Auths \ Held : hold[a] = 0
  BY DEF Held, HoldFollowsAuthorization
<1>3. Sum(rest, Held) = Sum(hold, Held)
  BY <1>1, SumAgrees
<1>4. Sum(hold, Held) = Sum(hold, Auths)
  BY <1>2, SumNonzero
<1> QED BY <1>3, <1>4 DEF HeldAmount

LEMMA UsesAreSlots ==
    MoneyState => Uses = Cardinality(Slots) /\ Slots \subseteq Auths /\ Completed \subseteq Auths
<1> SUFFICES ASSUME MoneyState PROVE Uses = Cardinality(Slots)
  BY DEF Slots, Completed
<1>1. /\ Completed \in SUBSET Auths /\ Reserving \in SUBSET Auths
      /\ Completed \cap Reserving = {} /\ Completed \cup Reserving = Slots
  BY DEF Completed, Reserving, Held, Slots
<1>2. /\ IsFiniteSet(Completed) /\ Cardinality(Completed) \in Nat
      /\ IsFiniteSet(Reserving) /\ Cardinality(Reserving) \in Nat
  BY <1>1, SetsAreFinite
<1>3. Cardinality(Completed \cup Reserving) =
        Cardinality(Completed) + Cardinality(Reserving) - Cardinality(Completed \cap Reserving)
  BY <1>2, FS_Union
<1>4. Cardinality(Completed \cap Reserving) = 0
  BY <1>1, FS_EmptySet
<1> QED BY <1>1, <1>2, <1>3, <1>4 DEF Uses

\* The sum of the holds after the hold of a has changed.
LEMMA HoldsChange ==
    ASSUME MoneyState, NEW a \in Auths, NEW n \in Nat, hold' = [hold EXCEPT ![a] = n]
    PROVE  /\ hold' \in [Auths -> Nat] /\ hold'[a] = n
           /\ \A b \in Auths \ {a} : hold'[b] = hold[b]
           /\ Sum(hold', Auths) = Sum(hold, Auths) + n - hold[a]
           /\ Sum(hold, Auths) \in Nat /\ Sum(hold', Auths) \in Nat
<1>1. /\ hold' \in [Auths -> Nat] /\ hold'[a] = n
      /\ \A b \in Auths \ {a} : hold'[b] = hold[b]
  BY DEF MoneyState
<1>2. \A b \in Auths : hold[b] \in Nat /\ hold'[b] \in Nat
  BY <1>1 DEF MoneyState
<1>3. Sum(hold', Auths) = Sum(hold, Auths) + hold'[a] - hold[a]
  <2>1. \A b \in Auths \ {a} : hold[b] = hold'[b]
    BY <1>1
  <2>2. IsFiniteSet(Auths)
    BY SetsAreFinite
  <2>3. ASSUME NEW v, NEW w, \A b \in Auths : v[b] \in Nat /\ w[b] \in Nat,
               \A b \in Auths \ {a} : v[b] = w[b]
        PROVE  Sum(w, Auths) = Sum(v, Auths) + w[a] - v[a]
    BY <2>2, <2>3, SumChanges
  <2> QED BY <1>2, <2>1, <2>3
<1>4. Sum(hold, Auths) \in Nat /\ Sum(hold', Auths) \in Nat
  BY <1>2, SetsAreFinite, SumType
<1> QED BY <1>1, <1>3, <1>4

\* A booking of t adds its value to one row of journals.
LEMMA BooksOnce ==
    ASSUME MoneyState, NEW t \in Txns, NEW what \in Bookings,
           booked[t] = "none", booked' = [booked EXCEPT ![t] = what]
    PROVE  /\ booked' \in [Txns -> {"none"} \cup Bookings] /\ booked'[t] = what
           /\ \A s \in Txns \ {t} : booked'[s] = booked[s]
           /\ \A a \in Auths, w \in Bookings :
                /\ a = Auth[t] /\ w = what => /\ Booked(a, w)' = Booked(a, w) \cup {t}
                                              /\ Sum(Value, Booked(a, w)') =
                                                   Sum(Value, Booked(a, w)) + Value[t]
                /\ ~(a = Auth[t] /\ w = what) => Booked(a, w)' = Booked(a, w)
                /\ Sum(Value, Booked(a, w)) \in Nat
<1>1. /\ booked' \in [Txns -> {"none"} \cup Bookings] /\ booked'[t] = what
      /\ \A s \in Txns \ {t} : booked'[s] = booked[s]
  BY DEF MoneyState, Bookings
<1>2. \A a \in Auths, w \in Bookings :
        /\ a = Auth[t] /\ w = what => Booked(a, w)' = Booked(a, w) \cup {t}
        /\ ~(a = Auth[t] /\ w = what) => Booked(a, w)' = Booked(a, w)
        /\ t \notin Booked(a, w) /\ Booked(a, w) \subseteq Txns
  BY <1>1 DEF Booked, Bookings
<1>3. \A s \in Txns : Value[s] \in Nat
  BY TxnAssumption
<1>4. ASSUME NEW a \in Auths, NEW w \in Bookings
      PROVE  /\ Sum(Value, Booked(a, w) \cup {t}) = Sum(Value, Booked(a, w)) + Value[t]
             /\ Sum(Value, Booked(a, w)) \in Nat
  <2>1. IsFiniteSet(Booked(a, w)) /\ \A s \in Booked(a, w) : Value[s] \in Nat
    BY <1>2, <1>3, SetsAreFinite
  <2>2. t \notin Booked(a, w) /\ Value[t] \in Nat
    BY <1>2, <1>3
  <2> QED BY <2>1, <2>2, SumAdds, SumType
<1> QED BY <1>1, <1>2, <1>4

(***************************************************************************)
(* Steps that book nothing.                                                *)
(***************************************************************************)
\* A marker is set once and stays.
MayMark == retirement' = retirement \/ (retirement = "none" /\ retirement' = "RETIRING")

LEMMA RowsStay ==
    ASSUME CardInv, UNCHANGED <<auth, hold, booked>>, thisMonth' \subseteq thisMonth
    PROVE  RowsInv' /\ BookedOnce' /\ HoldFollowsAuthorization'
<1>1. \A a \in Auths, w \in Bookings : Booked(a, w)' = Booked(a, w)
  BY DEF Booked
<1>2. RowsInv'
  BY <1>1 DEF CardInv, RowsInv, Bookings
<1>3. BookedOnce'
  BY <1>1 DEF CardInv, BookedOnce, Bookings
<1>4. HoldFollowsAuthorization'
  BY DEF CardInv, HoldFollowsAuthorization, Remaining
<1> QED BY <1>2, <1>3, <1>4

LEMMA QuietKeeps ==
    ASSUME CardInv, UNCHANGED <<rules, auth, code, moneyVars, thisMonth>>, MayMark
    PROVE  CardInv'
<1>1. MoneyState'
  BY DEF CardInv, MoneyState, moneyVars, MayMark
<1>2. RowsInv' /\ BookedOnce' /\ HoldFollowsAuthorization'
  BY RowsStay DEF moneyVars
<1>3. Completed' = Completed /\ Held' = Held /\ SettledAmount' = SettledAmount
  BY DEF Completed, Held, SettledAmount, moneyVars
<1>4. MoneyStaysWhole' /\ LimitsHoldOut' /\ ApprovalsAreSpent'
  BY <1>3 DEF CardInv, MoneyStaysWhole, LimitsHoldOut, ApprovalsAreSpent, moneyVars
<1>5. LastUseIsLast' /\ RetiredStaysEmpty'
  BY <1>3 DEF CardInv, LastUseIsLast, RetiredStaysEmpty, Retired, MayMark, moneyVars
<1> QED BY <1>1, <1>2, <1>4, <1>5 DEF CardInv

\* The row of one authorization becomes row.
RowStep(a, row) ==
    /\ auth' \in [Auths -> AuthRow] /\ auth'[a] = row
    /\ \A b \in Auths \ {a} : auth'[b] = auth[b]

LEMMA RowSteps ==
    ASSUME MoneyState, NEW a \in Auths, NEW row \in AuthRow, auth' = [auth EXCEPT ![a] = row]
    PROVE  RowStep(a, row)
  BY DEF MoneyState, RowStep

LEMMA StatusKeeps ==
    ASSUME CardInv, NEW a \in Auths, auth[a].status \in {"none", "AWAITING_APPROVAL"},
           NEW s \in {"DECLINED", "AWAITING_APPROVAL", "RETRY_APPROVED"},
           auth' = [auth EXCEPT ![a].status = s], code' \in [Auths -> {"none", "00", "05", "51"}],
           \A b \in Auths : code'[b] = "00" => code[b] = "00",
           UNCHANGED <<rules, moneyVars, thisMonth>>, MayMark
    PROVE  CardInv'
<1> DEFINE row == [auth[a] EXCEPT !.status = s]
<1>1. /\ row \in AuthRow /\ row.status = s /\ row.settled = auth[a].settled
      /\ row.released = auth[a].released /\ row.refunded = auth[a].refunded
  BY DEF CardInv, MoneyState, AuthRow, AuthStatuses
<1>2. auth' = [auth EXCEPT ![a] = row]
  BY DEF CardInv, MoneyState
<1> HIDE DEF row
<1>3. RowStep(a, row)
  BY <1>1, <1>2, RowSteps DEF CardInv
<1>4. MoneyState'
  BY <1>3 DEF CardInv, MoneyState, RowStep, moneyVars, MayMark
<1>5. \A b \in Auths : /\ auth'[b].settled = auth[b].settled /\ auth'[b].released = auth[b].released
                       /\ auth'[b].refunded = auth[b].refunded
                       /\ auth'[b].status = "HELD" <=> auth[b].status = "HELD"
                       /\ auth[b].status \in {"DECLINED", "APPROVAL_USED"} =>
                            auth'[b].status = auth[b].status
                       /\ auth'[b].status \in {"none", "APPROVAL_USED"} =>
                            auth[b].status = auth'[b].status
  BY <1>1, <1>3 DEF RowStep
<1>6. /\ \A b \in Auths, w \in Bookings : Booked(b, w)' = Booked(b, w)
      /\ Completed' = Completed /\ Held' = Held /\ SettledAmount' = SettledAmount
  BY <1>5 DEF Booked, Completed, Held, SettledAmount, moneyVars
<1>7. RowsInv' /\ BookedOnce' /\ HoldFollowsAuthorization'
  BY <1>5, <1>6 DEF CardInv, RowsInv, BookedOnce, HoldFollowsAuthorization, Remaining, moneyVars,
     Bookings
<1>8. MoneyStaysWhole'
  BY DEF CardInv, MoneyStaysWhole, moneyVars
<1>9. LimitsHoldOut'
  <2>1. {b \in Auths \ Verification : auth'[b].status = "HELD" \/ b \in Completed'}
          = {b \in Auths \ Verification : auth[b].status = "HELD" \/ b \in Completed}
    BY <1>5, <1>6
  <2> QED BY <1>6, <2>1 DEF CardInv, LimitsHoldOut, moneyVars
<1>10. ApprovalsAreSpent'
  <2>1. {g \in Auths : auth'[g].status = "APPROVAL_USED"} =
          {g \in Auths : auth[g].status = "APPROVAL_USED"}
    BY <1>5
  <2>2. rules \in Rules /\ rules.large \subseteq Auths
    BY LimitAssumption DEF CardInv, MoneyState
  <2> DEFINE let == {b \in rules.large \ Verification : code[b] = "00"}
             lets == {b \in rules.large \ Verification : code'[b] = "00"}
             used == {g \in Auths : auth[g].status = "APPROVAL_USED"}
  <2>3. lets \subseteq let /\ let \subseteq Auths /\ used \subseteq Auths
    BY <2>2
  <2>4. Cardinality(let) <= Cardinality(used)
    BY DEF CardInv, ApprovalsAreSpent
  <2>5. Cardinality(lets) <= Cardinality(used)
    <3> HIDE DEF let, lets, used
    <3>1. Cardinality(lets) <= Cardinality(let)
      BY <2>3, Smaller
    <3>2. /\ Cardinality(lets) \in Nat /\ Cardinality(let) \in Nat /\ Cardinality(used) \in Nat
      BY <2>3, SetsAreFinite
    <3> QED BY <2>4, <3>1, <3>2
  <2> QED BY <2>1, <2>5 DEF ApprovalsAreSpent
<1>11. LastUseIsLast' /\ RetiredStaysEmpty'
  BY <1>6 DEF CardInv, LastUseIsLast, RetiredStaysEmpty, Retired, MayMark, moneyVars
<1> QED BY <1>4, <1>7, <1>8, <1>9, <1>10, <1>11 DEF CardInv

\* Money moves between wallet and card, or the month begins.
LEMMA MovesKeep ==
    ASSUME CardInv, Allocate \/ Return \/ NewMonth, rules' = rules
    PROVE  CardInv'
<1>1. /\ wallet' \in Nat /\ card' \in Nat /\ balance' \in Int /\ wallet' + card' = wallet + card
      /\ UNCHANGED <<auth, code, hold, clearing, booked, retirement, rules>>
      /\ (thisMonth' = thisMonth \/ thisMonth' = {})
      /\ retirement = "RETIRED" => card' = card
  <2>1. CASE Allocate \/ Return
    <3>1. PICK n \in {Lot, -Lot} : Move(n) /\ ~Reason
      BY <2>1 DEF Allocate, Return
    <3>2. n \in Int /\ wallet \in Nat /\ card \in Nat
      BY LimitAssumption DEF CardInv, MoneyState
    <3>3. /\ wallet' = wallet - n /\ card' = card + n /\ wallet - n >= 0 /\ card + n >= 0
          /\ balance' = card + n
      BY <3>1 DEF Move
    <3>4. wallet' \in Nat /\ card' \in Nat /\ balance' \in Int /\ wallet' + card' = wallet + card
      <4> HIDE DEF Move
      <4> QED BY <3>2, <3>3
    <3>5. retirement # "RETIRED"
      BY <3>1 DEF Reason, Retired
    <3> QED BY <2>1, <3>1, <3>4, <3>5 DEF Allocate, Return, Move
  <2>2. CASE NewMonth
    BY <2>2 DEF NewMonth, moneyVars, CardInv, MoneyState
  <2> QED BY <2>1, <2>2
<1>2. MoneyState'
  BY <1>1 DEF CardInv, MoneyState
<1>3. RowsInv' /\ BookedOnce' /\ HoldFollowsAuthorization'
  BY <1>1, RowsStay
<1>4. Completed' = Completed /\ Held' = Held
  BY <1>1 DEF Completed, Held
<1>5. MoneyStaysWhole'
  <2>1. Sum(hold, Auths) \in Nat /\ clearing \in Int /\ wallet \in Nat /\ card \in Nat
    <3>1. \A a \in Auths : hold[a] \in Nat
      BY DEF CardInv, MoneyState
    <3> QED BY <3>1, SetsAreFinite, SumType DEF CardInv, MoneyState
  <2> QED BY <1>1, <2>1 DEF CardInv, MoneyStaysWhole
<1>6. LimitsHoldOut'
  <2>1. SettledAmount' <= SettledAmount
    <3>1. \A t \in thisMonth : Value[t] \in Nat
      BY TxnAssumption DEF CardInv, MoneyState
    <3>2. Sum(Value, thisMonth) \in Nat
      BY <3>1, SetsAreFinite, SumType DEF CardInv, MoneyState
    <3>3. Sum(Value, {}) = 0
      BY SumEmpty
    <3>4. thisMonth' = thisMonth => Sum(Value, thisMonth') = Sum(Value, thisMonth)
      OBVIOUS
    <3>5. thisMonth' = {} => Sum(Value, thisMonth') = 0
      BY <3>3
    <3> QED BY <1>1, <3>2, <3>4, <3>5 DEF SettledAmount
  <2>2. /\ SettledAmount \in Nat /\ SettledAmount' \in Nat /\ Sum(hold, Auths) \in Nat
    <3>1. /\ \A t \in Txns : Value[t] \in Nat
          /\ thisMonth \subseteq Txns /\ thisMonth' \subseteq Txns /\ \A a \in Auths : hold[a] \in Nat
      BY <1>2, TxnAssumption DEF CardInv, MoneyState
    <3>2. IsFiniteSet(thisMonth) /\ IsFiniteSet(thisMonth') /\ IsFiniteSet(Auths)
      BY <3>1, SetsAreFinite
    <3>3. Sum(Value, thisMonth) \in Nat
      BY <3>1, <3>2, SumType
    <3>4. Sum(Value, thisMonth') \in Nat
      BY <3>1, <3>2, SumType
    <3>5. Sum(hold, Auths) \in Nat
      BY <3>1, <3>2, SumType
    <3> QED BY <3>3, <3>4, <3>5 DEF SettledAmount
  <2>3. rules.monthlyLimit \in Nat
    BY LimitAssumption DEF CardInv, MoneyState
  <2> QED BY <1>1, <1>4, <2>1, <2>2, <2>3 DEF CardInv, LimitsHoldOut
<1>7. LastUseIsLast' /\ RetiredStaysEmpty' /\ ApprovalsAreSpent'
  BY <1>1, <1>4 DEF CardInv, LastUseIsLast, RetiredStaysEmpty, ApprovalsAreSpent, Retired
<1> QED BY <1>2, <1>3, <1>5, <1>6, <1>7 DEF CardInv

LEMMA FinishKeeps ==
    ASSUME CardInv, FinishRetirement, rules' = rules
    PROVE  CardInv'
<1>1. /\ wallet' = wallet + card /\ card' = 0 /\ balance' = 0 /\ retirement' = "RETIRED"
      /\ UNCHANGED <<auth, code, hold, clearing, booked, thisMonth, rules>> /\ Held = {}
      /\ wallet \in Nat /\ card \in Nat /\ clearing \in Int
  BY DEF FinishRetirement, CardInv, MoneyState
<1>2. MoneyState'
  BY <1>1 DEF CardInv, MoneyState
<1>3. RowsInv' /\ BookedOnce' /\ HoldFollowsAuthorization'
  BY <1>1, RowsStay
<1>4. Completed' = Completed /\ Held' = Held /\ SettledAmount' = SettledAmount
  BY <1>1 DEF Completed, Held, SettledAmount
<1>5. MoneyStaysWhole'
  <2>1. \A a \in Auths : hold[a] \in Nat
    BY DEF CardInv, MoneyState
  <2>2. Sum(hold, Auths) \in Nat
    BY <2>1, SetsAreFinite, SumType
  <2> QED BY <1>1, <2>2 DEF CardInv, MoneyStaysWhole
<1>6. LimitsHoldOut' /\ ApprovalsAreSpent' /\ LastUseIsLast' /\ RetiredStaysEmpty'
  BY <1>1, <1>4 DEF CardInv, LimitsHoldOut, ApprovalsAreSpent, LastUseIsLast, RetiredStaysEmpty,
     Retired
<1> QED BY <1>2, <1>3, <1>5, <1>6 DEF CardInv

(***************************************************************************)
(* An approval.                                                            *)
(***************************************************************************)
LEMMA Facts ==
    ASSUME CardInv
    PROVE  /\ Sum(hold, Auths) \in Nat /\ SettledAmount \in Nat
           /\ rules.monthlyLimit \in Nat /\ rules.usageLimit \in Nat \ {0} /\ rules.large \subseteq Auths
           /\ \A a \in Auths : Amount[a] \in Nat /\ auth[a] \in AuthRow /\ hold[a] \in Nat
           /\ \A t \in Txns : Value[t] \in Nat /\ Auth[t] \in Auths
<1>1. /\ \A a \in Auths : Amount[a] \in Nat /\ auth[a] \in AuthRow /\ hold[a] \in Nat
      /\ \A t \in Txns : Value[t] \in Nat /\ Auth[t] \in Auths
  BY RequestAssumption, TxnAssumption DEF CardInv, MoneyState
<1>2. Sum(hold, Auths) \in Nat
  BY <1>1, SetsAreFinite, SumType
<1>3. thisMonth \subseteq Txns /\ IsFiniteSet(thisMonth)
  BY SetsAreFinite DEF CardInv, MoneyState
<1>4. SettledAmount \in Nat
  BY <1>1, <1>3, SumType DEF SettledAmount
<1>5. /\ rules.monthlyLimit \in Nat /\ rules.usageLimit \in Nat \ {0} /\ rules.large \subseteq Auths
  BY LimitAssumption DEF CardInv, MoneyState
<1> QED BY <1>1, <1>2, <1>4, <1>5

LEMMA ApproveKeeps ==
    ASSUME CardInv, NEW a \in Auths, NEW used \in SUBSET Grants(a),
           auth[a].status = "none", ~Declinable(a), ~(card < Amount[a]), Approve00(a, used),
           a \in rules.large \ Verification => \E g \in used : used = {g},
           used = {} \/ \E g \in used : used = {g},
           UNCHANGED <<rules, thisMonth>>
    PROVE  CardInv'
<1> DEFINE s == IF Amount[a] = 0 THEN "VERIFIED" ELSE "HELD"
           row == [auth[a] EXCEPT !.status = s]
<1>1. /\ row \in AuthRow /\ row.status = s /\ row.settled = 0 /\ row.released = 0 /\ row.refunded = 0
      /\ s \in {"VERIFIED", "HELD"}
  <2>1. auth[a] \in AuthRow /\ auth[a].settled = 0 /\ auth[a].released = 0 /\ auth[a].refunded = 0
    BY DEF CardInv, MoneyState, RowsInv
  <2> QED BY <2>1 DEF AuthRow, AuthStatuses
<1>2. \A g \in used : g \in Auths /\ auth[g].status = "RETRY_APPROVED" /\ g # a
  BY DEF Grants
<1>3. /\ auth' = [b \in Auths |-> IF b = a THEN row
                                  ELSE IF b \in used THEN [auth[b] EXCEPT !.status = "APPROVAL_USED"]
                                  ELSE auth[b]]
      /\ code' = [code EXCEPT ![a] = "00"] /\ hold' = [hold EXCEPT ![a] = hold[a] + Amount[a]]
      /\ card' = card - Amount[a] /\ balance' = balance - Amount[a]
      /\ UNCHANGED <<wallet, clearing, booked, retirement>>
  BY DEF Approve00, CreditCard, CardInv, MoneyState
<1> HIDE DEF row, s
<1>4. ASSUME NEW b \in Auths
      PROVE  /\ auth'[b] \in AuthRow /\ auth'[b].settled = auth[b].settled
             /\ auth'[b].released = auth[b].released /\ auth'[b].refunded = auth[b].refunded
             /\ b = a => auth'[b].status = s
             /\ b \in used => auth[b].status = "RETRY_APPROVED" /\ auth'[b].status = "APPROVAL_USED"
             /\ b # a /\ b \notin used => auth'[b].status = auth[b].status
  <2>1. auth[b] \in AuthRow
    BY DEF CardInv, MoneyState
  <2>2. CASE b = a
    BY <1>1, <1>2, <1>3, <2>2 DEF CardInv, RowsInv
  <2>3. CASE b \in used
    BY <1>2, <1>3, <2>1, <2>3 DEF AuthRow, AuthStatuses
  <2>4. CASE b # a /\ b \notin used
    BY <1>3, <2>1, <2>4
  <2> QED BY <2>2, <2>3, <2>4
<1>5. hold[a] = 0 /\ hold' = [hold EXCEPT ![a] = Amount[a]]
  <2>1. hold[a] = 0 /\ Amount[a] \in Nat
    BY Facts DEF CardInv, HoldFollowsAuthorization
  <2>2. hold[a] + Amount[a] = Amount[a]
    BY <2>1
  <2> QED BY <1>3, <2>1, <2>2
<1>6. /\ hold' \in [Auths -> Nat] /\ hold'[a] = Amount[a] /\ \A b \in Auths \ {a} : hold'[b] = hold[b]
      /\ Sum(hold', Auths) = Sum(hold, Auths) + Amount[a]
  <2>1. MoneyState /\ Amount[a] \in Nat
    BY Facts DEF CardInv
  <2>2. /\ hold' \in [Auths -> Nat] /\ hold'[a] = Amount[a]
        /\ \A b \in Auths \ {a} : hold'[b] = hold[b]
        /\ Sum(hold', Auths) = Sum(hold, Auths) + Amount[a] - hold[a]
        /\ Sum(hold, Auths) \in Nat
    BY <1>5, <2>1, HoldsChange
  <2> QED BY <1>5, <2>1, <2>2
<1>7. card \in Nat /\ balance \in Int /\ wallet \in Nat /\ clearing \in Int /\ Amount[a] \in Nat
      /\ card' \in Nat /\ balance' \in Int
  BY <1>3, Facts DEF CardInv, MoneyState
<1>8. MoneyState'
  <2>1. auth' \in [Auths -> AuthRow] /\ code' \in [Auths -> {"none", "00", "05", "51"}]
    BY <1>3, <1>4 DEF CardInv, MoneyState
  <2> QED BY <1>3, <1>6, <1>7, <2>1 DEF CardInv, MoneyState
<1>9. /\ \A b \in Auths, w \in Bookings : Booked(b, w)' = Booked(b, w)
      /\ Completed' = Completed /\ SettledAmount' = SettledAmount
  BY <1>3 DEF Booked, Completed, SettledAmount
<1>10. RowsInv'
  <2>1. \A b \in Auths : /\ auth'[b].status = "none" => auth[b].status = "none"
                         /\ auth[b].status = "DECLINED" => auth'[b].status = "DECLINED"
    BY <1>1, <1>4
  <2>2. \A t \in Txns : /\ booked'[t] = "capture" => Kind[t] = "capture"
                        /\ booked'[t] \in {"refund", "reversal"} => Kind[t] = "refund"
                        /\ booked'[t] = "declined" => Kind[t] = "declined"
    BY <1>3 DEF CardInv, RowsInv
  <2>3. \A t \in thisMonth' : booked'[t] = "capture"
    BY <1>3 DEF CardInv, RowsInv
  <2>4. \A b \in Auths : auth'[b].status = "none" =>
          auth'[b].settled = 0 /\ auth'[b].released = 0 /\ auth'[b].refunded = 0
    BY <1>4, <2>1 DEF CardInv, RowsInv
  <2>5. \A b \in Auths : Booked(b, "declined")' # {} => auth'[b].status = "DECLINED"
    BY <1>9, <2>1 DEF CardInv, RowsInv, Bookings
  <2> QED BY <2>2, <2>3, <2>4, <2>5 DEF RowsInv
<1>11. BookedOnce'
  BY <1>4, <1>9 DEF CardInv, BookedOnce, Bookings
<1>12. HoldFollowsAuthorization'
  <2>1. ASSUME NEW b \in Auths
        PROVE  hold'[b] = IF auth'[b].status = "HELD"
                          THEN Amount[b] - auth'[b].settled - auth'[b].released ELSE 0
    <3>1. CASE b = a
      <4>1. auth'[b].settled = 0 /\ auth'[b].released = 0
        BY <1>4, <3>1 DEF CardInv, RowsInv
      <4> QED BY <1>4, <1>6, <1>7, <3>1, <4>1 DEF s
    <3>2. CASE b # a
      BY <1>4, <1>6, <3>2 DEF CardInv, HoldFollowsAuthorization, Remaining
    <3> QED BY <3>1, <3>2
  <2> QED BY <2>1 DEF HoldFollowsAuthorization, Remaining
<1>13. MoneyStaysWhole'
  BY <1>3, <1>6, <1>7, Facts DEF CardInv, MoneyStaysWhole
<1>14. LimitsHoldOut'
  <2>1. Spent = SettledAmount + Sum(hold, Auths) /\ ~(Spent + Amount[a] > rules.monthlyLimit)
    BY HeldIsHold DEF Spent, CardInv, Declinable
  <2>2. SettledAmount' + Sum(hold', Auths) <= rules.monthlyLimit
    BY <1>6, <1>7, <1>9, <2>1, Facts
  <2>3. Uses = Cardinality(Slots) /\ Slots \subseteq Auths
    BY UsesAreSlots DEF CardInv
  <2>4. Slots' \subseteq Slots \cup ({a} \ Verification)
    BY <1>4, <1>9 DEF Slots
  <2>5. Cardinality(Slots') <= rules.usageLimit
    <3>1. Cardinality(Slots) \in Nat /\ Cardinality(Slots') \in Nat /\ Slots' \subseteq Auths
      BY <2>3, SetsAreFinite DEF Slots
    <3>2. Cardinality(Slots) <= rules.usageLimit
      BY DEF CardInv, LimitsHoldOut, Slots
    <3>3. CASE a \in Verification
      <4>1. Slots' \subseteq Slots
        BY <2>4, <3>3
      <4> QED BY <2>3, <3>1, <3>2, <4>1, Smaller, Facts
    <3>4. CASE a \notin Verification
      <4>1. Slots' \subseteq Slots \cup {a} /\ Slots \cup {a} \in SUBSET Auths
        BY <2>3, <2>4
      <4>2. Cardinality(Slots') <= Cardinality(Slots \cup {a}) /\ Cardinality(Slots \cup {a}) \in Nat
        BY <4>1, Smaller, SetsAreFinite
      <4>3. Cardinality(Slots \cup {a}) <= Cardinality(Slots) + 1
        BY <2>3, OneMore
      <4>4. ~(Cardinality(Slots) >= rules.usageLimit)
        BY <2>3, <3>4 DEF Declinable
      <4> QED BY <3>1, <4>2, <4>3, <4>4, Facts
    <3> QED BY <3>3, <3>4
  <2> QED BY <2>2, <2>5 DEF LimitsHoldOut, Slots
<1>15. LastUseIsLast' /\ RetiredStaysEmpty'
  <2>1. retirement = "none"
    BY DEF Declinable, Reason, Retired
  <2> QED BY <1>3, <1>9, <2>1 DEF CardInv, LastUseIsLast, RetiredStaysEmpty, Retired
<1>16. ApprovalsAreSpent'
  <2> DEFINE let == {b \in rules.large \ Verification : code[b] = "00"}
             lets == {b \in rules.large \ Verification : code'[b] = "00"}
             spent == {g \in Auths : auth[g].status = "APPROVAL_USED"}
             spents == {g \in Auths : auth'[g].status = "APPROVAL_USED"}
  <2>1. /\ lets \subseteq let \cup ({a} \cap (rules.large \ Verification))
        /\ spents = spent \cup used /\ used \cap spent = {}
        /\ let \subseteq Auths /\ spent \subseteq Auths /\ used \subseteq Auths
    BY <1>1, <1>2, <1>3, <1>4, Facts DEF CardInv, MoneyState
  <2>2. Cardinality(let) <= Cardinality(spent)
    BY DEF CardInv, ApprovalsAreSpent
  <2>3. Cardinality(lets) <= Cardinality(spents)
    <3> HIDE DEF let, lets, spent, spents
    <3>1. /\ Cardinality(let) \in Nat /\ Cardinality(spent) \in Nat /\ Cardinality(lets) \in Nat
          /\ Cardinality(spents) \in Nat /\ lets \subseteq Auths
      BY <2>1, SetsAreFinite
    <3>2. Cardinality(spent) <= Cardinality(spents)
      BY <2>1, Smaller
    <3>3. CASE a \notin rules.large \ Verification
      <4>1. lets \subseteq let
        BY <2>1, <3>3
      <4>2. Cardinality(lets) <= Cardinality(let)
        BY <2>1, <4>1, Smaller
      <4> QED BY <2>2, <3>1, <3>2, <4>2
    <3>4. CASE a \in rules.large \ Verification
      <4>1. PICK g \in used : used = {g}
        BY <3>4
      <4>2. Cardinality(spents) = Cardinality(spent) + 1
        BY <2>1, <4>1, OneMore
      <4>3. lets \subseteq let \cup {a} /\ let \cup {a} \in SUBSET Auths
        BY <2>1
      <4>4. Cardinality(lets) <= Cardinality(let \cup {a}) /\ Cardinality(let \cup {a}) \in Nat
        BY <4>3, Smaller, SetsAreFinite
      <4>5. Cardinality(let \cup {a}) <= Cardinality(let) + 1
        BY <2>1, OneMore
      <4> QED BY <2>2, <3>1, <4>2, <4>4, <4>5
    <3> QED BY <3>3, <3>4
  <2> QED BY <2>3 DEF ApprovalsAreSpent
<1> QED BY <1>8, <1>10, <1>11, <1>12, <1>13, <1>14, <1>15, <1>16 DEF CardInv

(***************************************************************************)
(* A booking: one transaction, one row, one hold.                          *)
(***************************************************************************)
\* What the postings of each kind leave of the row, the hold and the accounts.
BookingOf(t, what, a, row, n) ==
    /\ booked[t] = "none" /\ booked' = [booked EXCEPT ![t] = what]
    /\ auth' = [auth EXCEPT ![a] = row] /\ hold' = [hold EXCEPT ![a] = n]
    /\ UNCHANGED <<rules, code>>
    /\ Kind[t] = IF what = "reversal" THEN "refund" ELSE what
    /\ what # "refund" => auth[a].status = "HELD"
    /\ what = "refund" => row.status = auth[a].status /\ n = hold[a]
    /\ row.status \notin {"none", "APPROVAL_USED"} \/ row.status = auth[a].status
    /\ row.status # "none"
    /\ row.settled = auth[a].settled + (IF what = "capture" THEN Value[t] ELSE 0)
    /\ row.refunded = auth[a].refunded + (IF what = "refund" THEN Value[t] ELSE 0)
    /\ what = "declined" => row.released = Amount[a] /\ row.status = "DECLINED"
    /\ what # "declined" =>
         row.released = auth[a].released + (IF what = "reversal" THEN Value[t] ELSE 0)
    /\ n = IF row.status = "HELD" THEN Amount[a] - row.settled - row.released ELSE 0
    /\ n <= hold[a] /\ (what = "capture" => hold[a] = n + Value[t])
    /\ thisMonth' = IF what = "capture" THEN thisMonth \cup {t} ELSE thisMonth
    /\ wallet' \in Nat /\ card' \in Nat /\ clearing' \in Int /\ balance' \in Int
    /\ wallet' + card' + clearing' = wallet + card + clearing + hold[a] - n
    /\ MayMark
    /\ retirement' = "RETIRED" => card' = 0
    /\ what = "capture" => (Cardinality(Completed') >= rules.usageLimit => Retired')

\* What Envelope sees of it: what leaves the hold or comes to the card, and a hold that is
\* empty is no longer HELD.
ShownOf(t, what, a, row, n) ==
    /\ what # "refund" => (row.status = "HELD" <=> n # 0)
    /\ what # "capture" => retirement' = retirement
    /\ what \in {"reversal", "declined"} => auth[a].settled = 0
    /\ what = "refund" => Value[t] > 0 /\ row.refunded <= row.settled
    /\ what = "capture" => Value[t] > 0
    /\ wallet' = IF what = "refund" /\ Retired THEN wallet + Value[t] ELSE wallet
    /\ what \in {"reversal", "declined"} => card' = card + (hold[a] - n)
    /\ what = "capture" \/ (what = "refund" /\ Retired) => card' = card
    /\ what = "refund" /\ ~Retired => card' = card + Value[t]

\* What a run books of the event it works on.
Books(r) ==
    \E what \in Bookings, row \in AuthRow, n \in Nat :
        /\ BookingOf(run[r].txn, what, Auth[run[r].txn], row, n)
        /\ ShownOf(run[r].txn, what, Auth[run[r].txn], row, n)
Idles(r) == Skip(r) \/ Throw(r, "RETRY") \/ Throw(r, "REVIEW")

LEMMA BookingKeeps ==
    ASSUME CardInv, NEW t \in Txns, NEW what \in Bookings, NEW row \in AuthRow, NEW n \in Nat,
           BookingOf(t, what, Auth[t], row, n)
    PROVE  CardInv'
<1> DEFINE a == Auth[t]
<1> HIDE DEF a
<1>1. a \in Auths /\ a = Auth[t] /\ Value[t] \in Nat /\ BookingOf(t, what, a, row, n)
  BY Facts DEF a
<1>2. RowStep(a, row)
  BY <1>1, RowSteps DEF CardInv, BookingOf
<1>3. /\ hold' \in [Auths -> Nat] /\ hold'[a] = n
      /\ \A b \in Auths \ {a} : hold'[b] = hold[b]
      /\ Sum(hold', Auths) = Sum(hold, Auths) + n - hold[a]
      /\ Sum(hold, Auths) \in Nat /\ Sum(hold', Auths) \in Nat
  <2>1. hold' = [hold EXCEPT ![a] = n] /\ MoneyState
    BY <1>1 DEF BookingOf, CardInv
  <2> QED BY <1>1, <2>1, HoldsChange
<1>4. /\ booked' \in [Txns -> {"none"} \cup Bookings] /\ booked'[t] = what
      /\ \A s \in Txns \ {t} : booked'[s] = booked[s]
      /\ \A b \in Auths, w \in Bookings :
           /\ b = a /\ w = what => /\ Booked(b, w)' = Booked(b, w) \cup {t}
                                   /\ Sum(Value, Booked(b, w)') =
                                        Sum(Value, Booked(b, w)) + Value[t]
           /\ ~(b = a /\ w = what) => Booked(b, w)' = Booked(b, w)
           /\ Sum(Value, Booked(b, w)) \in Nat
  <2>1. booked[t] = "none" /\ booked' = [booked EXCEPT ![t] = what] /\ MoneyState
    BY <1>1 DEF BookingOf, CardInv
  <2>2. /\ booked' \in [Txns -> {"none"} \cup Bookings] /\ booked'[t] = what
        /\ \A s \in Txns \ {t} : booked'[s] = booked[s]
        /\ \A b \in Auths, w \in Bookings :
             /\ b = Auth[t] /\ w = what => /\ Booked(b, w)' = Booked(b, w) \cup {t}
                                           /\ Sum(Value, Booked(b, w)') =
                                                Sum(Value, Booked(b, w)) + Value[t]
             /\ ~(b = Auth[t] /\ w = what) => Booked(b, w)' = Booked(b, w)
             /\ Sum(Value, Booked(b, w)) \in Nat
    BY <2>1, BooksOnce
  <2> QED BY <1>1, <2>2
<1>5. auth[a] \in AuthRow /\ hold[a] \in Nat /\ Amount[a] \in Nat
  BY <1>1, Facts
<1>6. MoneyState'
  BY <1>1, <1>2, <1>3, <1>4 DEF CardInv, MoneyState, BookingOf, RowStep, MayMark
<1>7. \A b \in Auths : /\ auth'[b].status = "HELD" => auth[b].status = "HELD"
                       /\ auth'[b].status = "APPROVAL_USED" <=> auth[b].status = "APPROVAL_USED"
  BY <1>1, <1>2 DEF BookingOf, RowStep
<1>8. RowsInv'
  <2>1. \A s \in Txns : /\ booked'[s] = "capture" => Kind[s] = "capture"
                        /\ booked'[s] \in {"refund", "reversal"} => Kind[s] = "refund"
                        /\ booked'[s] = "declined" => Kind[s] = "declined"
    BY <1>1, <1>4 DEF CardInv, RowsInv, BookingOf, Bookings
  <2>2. \A s \in thisMonth' : booked'[s] = "capture"
    BY <1>1, <1>4 DEF CardInv, RowsInv, MoneyState, BookingOf
  <2>3. \A b \in Auths : auth'[b].status = "none" =>
          auth'[b].settled = 0 /\ auth'[b].released = 0 /\ auth'[b].refunded = 0
    BY <1>1, <1>2 DEF CardInv, RowsInv, BookingOf, RowStep
  <2>4. ASSUME NEW b \in Auths, Booked(b, "declined")' # {}
        PROVE  auth'[b].status = "DECLINED"
    <3>1. CASE b = a /\ what = "declined"
      BY <1>1, <1>2, <3>1 DEF BookingOf, RowStep
    <3>2. CASE b = a /\ what # "declined"
      BY <1>1, <1>2, <1>4, <2>4, <3>2 DEF CardInv, RowsInv, BookingOf, RowStep, Bookings
    <3>3. CASE b # a
      BY <1>2, <1>4, <2>4, <3>3 DEF CardInv, RowsInv, RowStep, Bookings
    <3> QED BY <3>1, <3>2, <3>3
  <2> QED BY <2>1, <2>2, <2>3, <2>4 DEF RowsInv
<1>9. BookedOnce'
  <2>1. ASSUME NEW b \in Auths
        PROVE  /\ auth'[b].settled = Sum(Value, Booked(b, "capture")')
               /\ auth'[b].refunded = Sum(Value, Booked(b, "refund")')
               /\ auth'[b].released = IF Booked(b, "declined")' # {}
                                      THEN Amount[b] ELSE Sum(Value, Booked(b, "reversal")')
    <3>1. /\ auth[b].settled = Sum(Value, Booked(b, "capture"))
          /\ auth[b].refunded = Sum(Value, Booked(b, "refund"))
          /\ auth[b].released = IF Booked(b, "declined") # {}
                                THEN Amount[b] ELSE Sum(Value, Booked(b, "reversal"))
          /\ auth[b].status = "HELD" => Booked(b, "declined") = {}
      BY DEF CardInv, BookedOnce, RowsInv
    <3>2. CASE b # a
      BY <1>2, <1>4, <3>1, <3>2 DEF RowStep, Bookings
    <3>3. CASE b = a
      <4>1. auth'[b] = row /\ auth[b] \in AuthRow
        BY <1>2, <1>5, <3>3 DEF RowStep
      <4>2. row.settled = Sum(Value, Booked(b, "capture")')
        BY <1>1, <1>4, <1>5, <3>1, <3>3 DEF BookingOf, Bookings, AuthRow
      <4>3. row.refunded = Sum(Value, Booked(b, "refund")')
        BY <1>1, <1>4, <1>5, <3>1, <3>3 DEF BookingOf, Bookings, AuthRow
      <4>4. CASE what = "declined"
        <5>1. Booked(b, "declined")' # {}
          BY <1>4, <3>3, <4>4 DEF Bookings
        <5> QED BY <1>1, <3>3, <4>1, <4>2, <4>3, <4>4, <5>1 DEF BookingOf
      <4>5. CASE what = "reversal"
        <5>1. Booked(b, "declined")' = {}
          BY <1>1, <1>4, <3>1, <3>3, <4>5 DEF BookingOf, Bookings
        <5>2. row.released = Sum(Value, Booked(b, "reversal")')
          BY <1>1, <1>4, <3>1, <3>3, <4>5 DEF BookingOf, Bookings
        <5> QED BY <4>1, <4>2, <4>3, <5>1, <5>2
      <4>6. CASE what \notin {"declined", "reversal"}
        <5>1. /\ Booked(b, "declined")' = Booked(b, "declined")
              /\ Booked(b, "reversal")' = Booked(b, "reversal")
          BY <1>4, <3>3, <4>6 DEF Bookings
        <5>2. row.released = auth[b].released
          BY <1>1, <1>5, <3>3, <4>6 DEF BookingOf, AuthRow
        <5> QED BY <3>1, <4>1, <4>2, <4>3, <5>1, <5>2
      <4> QED BY <4>4, <4>5, <4>6
    <3> QED BY <3>2, <3>3
  <2> QED BY <2>1 DEF BookedOnce
<1>10. HoldFollowsAuthorization'
  <2>1. ASSUME NEW b \in Auths
        PROVE  hold'[b] = IF auth'[b].status = "HELD"
                          THEN Amount[b] - auth'[b].settled - auth'[b].released ELSE 0
    <3>1. CASE b = a
      BY <1>1, <1>2, <1>3, <3>1 DEF BookingOf, RowStep
    <3>2. CASE b # a
      BY <1>2, <1>3, <3>2 DEF CardInv, HoldFollowsAuthorization, Remaining, RowStep
    <3> QED BY <3>1, <3>2
  <2> QED BY <2>1 DEF HoldFollowsAuthorization, Remaining
<1>11. MoneyStaysWhole'
  <2>1. wallet + card + Sum(hold, Auths) + clearing = Deposit
    BY DEF CardInv, MoneyStaysWhole
  <2>2. /\ wallet \in Nat /\ card \in Nat /\ clearing \in Int
        /\ wallet' \in Nat /\ card' \in Nat /\ clearing' \in Int
        /\ wallet' + card' + clearing' = wallet + card + clearing + hold[a] - n
    BY <1>1 DEF CardInv, MoneyState, BookingOf
  <2>3. wallet' + card' + Sum(hold', Auths) + clearing' = Deposit
    BY <1>3, <1>5, <2>1, <2>2
  <2> QED BY <2>3 DEF MoneyStaysWhole
<1>12. LimitsHoldOut'
  <2>1. SettledAmount' + Sum(hold', Auths) <= rules.monthlyLimit
    <3>1. SettledAmount' = SettledAmount + (IF what = "capture" THEN Value[t] ELSE 0)
      <4>1. CASE what = "capture"
        <5>1. t \notin thisMonth /\ thisMonth \subseteq Txns
          BY <1>1 DEF CardInv, RowsInv, MoneyState, BookingOf
        <5>2. IsFiniteSet(thisMonth) /\ \A s \in thisMonth : Value[s] \in Nat
          BY <5>1, Facts, SetsAreFinite
        <5>3. Sum(Value, thisMonth \cup {t}) = Sum(Value, thisMonth) + Value[t]
          BY <1>1, <5>1, <5>2, SumAdds
        <5> QED BY <1>1, <4>1, <5>3 DEF SettledAmount, BookingOf
      <4>2. CASE what # "capture"
        BY <1>1, <4>2, Facts DEF SettledAmount, BookingOf
      <4> QED BY <4>1, <4>2
    <3>2. SettledAmount + Sum(hold, Auths) <= rules.monthlyLimit
      BY DEF CardInv, LimitsHoldOut
    <3>3. n <= hold[a] /\ (what = "capture" => hold[a] = n + Value[t])
      BY <1>1 DEF BookingOf
    <3> QED BY <1>1, <1>3, <1>5, <3>1, <3>2, <3>3, Facts
  <2>2. Slots' \subseteq Slots /\ Slots \subseteq Auths
    <3>1. \A b \in Auths : b \in Completed' => b \in Completed \/ (b = a /\ what = "capture")
      BY <1>1, <1>4 DEF Completed
    <3>2. what = "capture" => auth[a].status = "HELD"
      BY <1>1 DEF BookingOf
    <3> QED BY <1>7, <3>1, <3>2 DEF Slots
  <2>3. Cardinality(Slots') <= Cardinality(Slots) /\ Cardinality(Slots') \in Nat
        /\ Cardinality(Slots) \in Nat
    BY <2>2, Smaller, SetsAreFinite
  <2>4. Cardinality(Slots) <= rules.usageLimit
    BY DEF CardInv, LimitsHoldOut, Slots
  <2>5. Cardinality(Slots') <= rules.usageLimit
    BY <2>3, <2>4, Facts
  <2>6. rules' = rules
    BY <1>1 DEF BookingOf
  <2> QED BY <2>1, <2>5, <2>6 DEF LimitsHoldOut, Slots
<1>13. LastUseIsLast'
  <2>1. CASE what = "capture"
    BY <1>1, <2>1 DEF BookingOf, LastUseIsLast
  <2>2. CASE what # "capture"
    <3>1. Completed' = Completed
      BY <1>1, <1>4, <2>2 DEF Completed, BookingOf
    <3> QED BY <1>1, <3>1 DEF BookingOf, CardInv, LastUseIsLast, Retired, MayMark
  <2> QED BY <2>1, <2>2
<1>14. RetiredStaysEmpty'
  <2>1. Held' \subseteq Held
    BY <1>7 DEF Held
  <2> QED BY <1>1, <2>1 DEF BookingOf, CardInv, RetiredStaysEmpty, MayMark
<1>15. ApprovalsAreSpent'
  <2>1. {g \in Auths : auth'[g].status = "APPROVAL_USED"} =
          {g \in Auths : auth[g].status = "APPROVAL_USED"}
    BY <1>7
  <2> QED BY ZenonT(30), <1>1, <2>1 DEF BookingOf, CardInv, ApprovalsAreSpent
<1> QED BY <1>6, <1>8, <1>9, <1>10, <1>11, <1>12, <1>13, <1>14, <1>15 DEF CardInv

(***************************************************************************)
(* The four postings are bookings.                                         *)
(***************************************************************************)
LEMMA RowOfHold ==
    ASSUME CardInv, NEW a \in Auths, hold[a] > 0
    PROVE  /\ auth[a].status = "HELD" /\ retirement # "RETIRED"
           /\ hold[a] = Amount[a] - auth[a].settled - auth[a].released
<1>1. auth[a].status = "HELD" /\ hold[a] = Remaining(a)
  BY Facts DEF CardInv, HoldFollowsAuthorization
<1> QED BY <1>1 DEF CardInv, RetiredStaysEmpty, Held, Remaining

\* Which transaction a run works on, and what it may find.
LEMMA Applied ==
    ASSUME CardInv, QueueInv, NEW r \in Runs, NEW k, Applying(r, k)
    PROVE  /\ run[r].txn \in Txns /\ Auth[run[r].txn] \in Auths /\ Kind[run[r].txn] = k
           /\ Value[run[r].txn] \in Nat /\ (k # "declined" => Value[run[r].txn] > 0)
           /\ auth[Auth[run[r].txn]] \in AuthRow /\ hold[Auth[run[r].txn]] \in Nat
           /\ Amount[Auth[run[r].txn]] \in Nat
<1>1. run[r].txn \in Txns
  BY DEF Applying, QueueInv
<1> QED BY <1>1, Facts DEF Applying

LEMMA SkipKeeps ==
    ASSUME CardInv, rules' = rules, NEW r \in Runs, Idles(r)
    PROVE  CardInv'
  BY QuietKeeps DEF Idles, Skip, Commit, Throw, MayMark

LEMMA BooksKeeps ==
    ASSUME CardInv, QueueInv, NEW r \in Runs, run[r].pc = "fetched", Books(r)
    PROVE  CardInv'
<1>1. run[r].txn \in Txns
  BY DEF QueueInv
<1> QED BY <1>1, BookingKeeps DEF Books

\* What is left of a hold that covers v.
LEMMA Rest ==
    ASSUME NEW h \in Nat, NEW v \in Nat, v > 0, ~(h < v)
    PROVE  h > 0 /\ h - v \in Nat /\ h - v <= h /\ h = (h - v) + v
  OBVIOUS

LEMMA CaptureBooks ==
    ASSUME CardInv, QueueInv, rules' = rules, NEW r \in Runs, ApplyCapture(r)
    PROVE  Idles(r) \/ Books(r)
<1> DEFINE t == run[r].txn
           a == Auth[t]
           v == Value[t]
           n == hold[a] - v
           s == StatusAfter(a, v, "SETTLED")
           row == [auth[a] EXCEPT !.settled = @ + v, !.status = s]
<1>1. /\ t \in Txns /\ a \in Auths /\ Kind[t] = "capture" /\ v \in Nat /\ v > 0
      /\ auth[a] \in AuthRow /\ hold[a] \in Nat /\ Amount[a] \in Nat
  BY Applied DEF ApplyCapture
<1>2. CASE Skip(r) \/ Throw(r, "RETRY")
  BY <1>2 DEF Idles
<1>3. CASE /\ booked[t] = "none" /\ ~(auth[a].settled + v + auth[a].released > Amount[a])
           /\ ~(hold[a] < v) /\ ReleaseHold(a, v) /\ clearing' = clearing + v
           /\ booked' = [booked EXCEPT ![t] = "capture"] /\ thisMonth' = thisMonth \cup {t}
           /\ auth' = [auth EXCEPT ![a].settled = @ + v,
                                   ![a].status = StatusAfter(a, v, "SETTLED")]
           /\ MarkIfLast /\ Commit(r) /\ UNCHANGED <<wallet, card, balance>>
  <2>1. /\ hold[a] > 0 /\ auth[a].status = "HELD" /\ retirement # "RETIRED"
        /\ hold[a] = Amount[a] - auth[a].settled - auth[a].released
    <3>1. hold[a] > 0
      BY <1>1, <1>3, Rest
    <3> QED BY <1>1, <3>1, RowOfHold
  <2>2. n \in Nat /\ n <= hold[a] /\ hold[a] = n + v
    BY <1>1, <1>3, Rest
  <2>3. /\ s = IF n = 0 THEN "SETTLED" ELSE "HELD"
    BY <1>1, <2>1 DEF StatusAfter, Remaining, AuthRow
  <2>4. /\ row \in AuthRow /\ row.settled = auth[a].settled + v /\ row.status = s
        /\ row.released = auth[a].released /\ row.refunded = auth[a].refunded
    <3>1. s \in AuthStatuses
      BY <2>3 DEF AuthStatuses
    <3> HIDE DEF s, v, a
    <3>2. auth[a].settled + v \in Nat
      BY <1>1 DEF AuthRow
    <3> DEFINE m == auth[a].settled + v
    <3>3. row = [auth[a] EXCEPT !.settled = m, !.status = s] /\ m = auth[a].settled + v
      BY DEF a, v
    <3> HIDE DEF m, row
    <3> QED BY <1>1, <3>1, <3>2, <3>3 DEF AuthRow
  <2>5. auth' = [auth EXCEPT ![a] = row]
    BY <1>1, <1>3 DEF CardInv, MoneyState
  <2>6. hold' = [hold EXCEPT ![a] = n] /\ code' = code
    BY <1>3 DEF ReleaseHold, Commit
  <2>7. MayMark /\ (Cardinality(Completed') >= rules.usageLimit => Retired')
        /\ retirement' # "RETIRED"
    BY <1>3, <2>1 DEF MarkIfLast, Mark, MayMark, Retired, CardInv, MoneyState
  <2>8. /\ wallet \in Nat /\ card \in Nat /\ clearing \in Int /\ balance \in Int
    BY DEF CardInv, MoneyState
  <2>9. n = IF row.status = "HELD" THEN Amount[a] - row.settled - row.released ELSE 0
    <3> HIDE DEF row, s, n
    <3>1. auth[a].settled \in Nat /\ auth[a].released \in Nat
      BY <1>1 DEF AuthRow
    <3> QED BY <1>1, <2>1, <2>2, <2>3, <2>4, <3>1
  <2>10. /\ row.refunded = auth[a].refunded + 0 /\ row.released = auth[a].released + 0
    <3> HIDE DEF row
    <3>1. auth[a].refunded \in Nat /\ auth[a].released \in Nat
      BY <1>1 DEF AuthRow
    <3> QED BY <2>4, <3>1
  <2>11. /\ wallet' + card' + clearing' = wallet + card + clearing + hold[a] - n
         /\ wallet' \in Nat /\ card' \in Nat /\ clearing' \in Int /\ balance' \in Int
    <3>1. clearing' = clearing + v /\ UNCHANGED <<wallet, card, balance>>
      BY <1>3
    <3> HIDE DEF n, a, v
    <3> QED BY <1>1, <2>2, <2>8, <3>1
  <2>12. "capture" \in Bookings
    BY DEF Bookings
  <2> HIDE DEF row, s, n, a, v
  <2>13. BookingOf(t, "capture", a, row, n)
    BY <1>1, <1>3, <2>1, <2>2, <2>3, <2>4, <2>5, <2>6, <2>7, <2>9, <2>10, <2>11 DEF BookingOf, v
  <2>14. ShownOf(t, "capture", a, row, n)
    BY <1>1, <1>3, <2>2, <2>3, <2>4 DEF ShownOf, v
  <2> QED BY <2>2, <2>4, <2>12, <2>13, <2>14 DEF a, Books
<1> QED
  <2>1. \/ Skip(r) \/ Throw(r, "RETRY")
        \/ /\ ~Done(t) /\ ~(auth[a].settled + v + auth[a].released > Amount[a] \/ hold[a] < v)
           /\ ReleaseHold(a, v) /\ clearing' = clearing + v
           /\ booked' = [booked EXCEPT ![t] = "capture"] /\ thisMonth' = thisMonth \cup {t}
           /\ auth' = [auth EXCEPT ![a].settled = @ + v,
                                   ![a].status = StatusAfter(a, v, "SETTLED")]
           /\ MarkIfLast /\ Commit(r) /\ UNCHANGED <<wallet, card, balance>>
    BY DEF ApplyCapture
  <2> QED BY <1>2, <1>3, <2>1 DEF Done

LEMMA ReversalBooks ==
    ASSUME CardInv, QueueInv, rules' = rules, NEW r \in Runs, ApplyReversal(r)
    PROVE  Idles(r) \/ Books(r)
<1> DEFINE t == run[r].txn
           a == Auth[t]
           v == Value[t]
           n == hold[a] - v
           s == StatusAfter(a, v, "REVERSED")
           row == [auth[a] EXCEPT !.released = @ + v, !.status = s]
<1>1. /\ t \in Txns /\ a \in Auths /\ Kind[t] = "refund" /\ v \in Nat /\ v > 0
      /\ auth[a] \in AuthRow /\ hold[a] \in Nat /\ Amount[a] \in Nat
  BY Applied DEF ApplyReversal
<1>2. CASE Throw(r, "RETRY")
  BY <1>2 DEF Idles
<1>3. CASE /\ booked[t] = "none" /\ auth[a].settled = 0 /\ auth[a].status = "HELD"
           /\ ~(v > Remaining(a)) /\ ReleaseHold(a, v) /\ CreditCard(v)
           /\ booked' = [booked EXCEPT ![t] = "reversal"]
           /\ auth' = [auth EXCEPT ![a].released = @ + v,
                                   ![a].status = StatusAfter(a, v, "REVERSED")]
           /\ Commit(r) /\ UNCHANGED <<wallet, clearing, thisMonth, retirement>>
  <2>1. /\ hold[a] >= v /\ hold[a] > 0 /\ retirement # "RETIRED"
        /\ hold[a] = Amount[a] - auth[a].settled - auth[a].released
    <3>1. hold[a] = Remaining(a)
      BY <1>1, <1>3 DEF CardInv, HoldFollowsAuthorization
    <3>2. ~(v > hold[a])
      BY <1>3, <3>1
    <3>3. hold[a] >= v /\ hold[a] > 0
      BY <1>1, <3>2
    <3> QED BY <1>1, <3>3, RowOfHold
  <2>2. n \in Nat /\ n <= hold[a] /\ hold[a] = n + v
    BY <1>1, <2>1
  <2>3. s = IF n = 0 THEN "REVERSED" ELSE "HELD"
    BY SMTT(30), <1>1, <2>1 DEF StatusAfter, Remaining, AuthRow
  <2>4. /\ row \in AuthRow /\ row.released = auth[a].released + v /\ row.status = s
        /\ row.settled = auth[a].settled /\ row.refunded = auth[a].refunded
    <3>1. s \in AuthStatuses
      BY <2>3 DEF AuthStatuses
    <3> HIDE DEF s, v, a
    <3>2. auth[a].released + v \in Nat
      BY <1>1 DEF AuthRow
    <3> DEFINE m == auth[a].released + v
    <3>3. row = [auth[a] EXCEPT !.released = m, !.status = s] /\ m = auth[a].released + v
      BY DEF a, v
    <3> HIDE DEF m, row
    <3> QED BY <1>1, <3>1, <3>2, <3>3 DEF AuthRow
  <2>5. auth' = [auth EXCEPT ![a] = row]
    BY <1>1, <1>3 DEF CardInv, MoneyState
  <2>6. hold' = [hold EXCEPT ![a] = n] /\ code' = code
    BY <1>3 DEF ReleaseHold, Commit
  <2>8. /\ wallet \in Nat /\ card \in Nat /\ clearing \in Int /\ balance \in Int
    BY DEF CardInv, MoneyState
  <2>9. n = IF row.status = "HELD" THEN Amount[a] - row.settled - row.released ELSE 0
    <3> HIDE DEF row, s, n
    <3>1. auth[a].settled \in Nat /\ auth[a].released \in Nat
      BY <1>1 DEF AuthRow
    <3> QED BY <1>1, <2>1, <2>2, <2>3, <2>4, <3>1
  <2>10. /\ row.refunded = auth[a].refunded + 0 /\ row.settled = auth[a].settled + 0
    <3> HIDE DEF row
    <3>1. auth[a].refunded \in Nat /\ auth[a].settled \in Nat
      BY <1>1 DEF AuthRow
    <3> QED BY <2>4, <3>1
  <2>11. /\ wallet' + card' + clearing' = wallet + card + clearing + hold[a] - n
         /\ wallet' \in Nat /\ card' \in Nat /\ clearing' \in Int /\ balance' \in Int
    <3>1. card' = card + v /\ balance' = balance + v /\ UNCHANGED <<wallet, clearing>>
      BY <1>3 DEF CreditCard
    <3> HIDE DEF n, a, v
    <3> QED BY <1>1, <2>2, <2>8, <3>1
  <2>12. "reversal" \in Bookings
    BY DEF Bookings
  <2> HIDE DEF row, s, n, a, v
  <2>13. BookingOf(t, "reversal", a, row, n)
    BY <1>1, <1>3, <2>1, <2>2, <2>3, <2>4, <2>5, <2>6, <2>9, <2>10, <2>11 DEF BookingOf, MayMark, v
  <2>14. ShownOf(t, "reversal", a, row, n)
    <3>1. card' = card + (hold[a] - n)
      <4>1. card' = card + v
        BY <1>3 DEF CreditCard
      <4> QED BY <1>1, <2>2, <2>8, <4>1
    <3> QED BY <1>3, <2>2, <2>3, <2>4, <3>1 DEF ShownOf
  <2> QED BY <2>2, <2>4, <2>12, <2>13, <2>14 DEF a, Books
<1> QED
  <2>1. /\ ~Done(t) /\ ReversesHold(a)
        /\ \/ Throw(r, "RETRY")
           \/ /\ ~(v > Remaining(a)) /\ ReleaseHold(a, v) /\ CreditCard(v)
              /\ booked' = [booked EXCEPT ![t] = "reversal"]
              /\ auth' = [auth EXCEPT ![a].released = @ + v,
                                      ![a].status = StatusAfter(a, v, "REVERSED")]
              /\ Commit(r) /\ UNCHANGED <<wallet, clearing, thisMonth, retirement>>
    BY DEF ApplyReversal
  <2> QED BY <1>2, <1>3, <2>1 DEF Done, ReversesHold

LEMMA RefundBooks ==
    ASSUME CardInv, QueueInv, rules' = rules, NEW r \in Runs, ApplyRefund(r)
    PROVE  Idles(r) \/ Books(r)
<1> DEFINE t == run[r].txn
           a == Auth[t]
           v == Value[t]
           row == [auth[a] EXCEPT !.refunded = @ + v]
<1>1. /\ t \in Txns /\ a \in Auths /\ Kind[t] = "refund" /\ v \in Nat /\ v > 0
      /\ auth[a] \in AuthRow /\ hold[a] \in Nat /\ Amount[a] \in Nat
  BY Applied DEF ApplyRefund
<1>2. CASE Skip(r) \/ Throw(r, "RETRY")
  BY <1>2 DEF Idles
<1>3. CASE /\ booked[t] = "none" /\ ~(auth[a].refunded + v > auth[a].settled)
           /\ clearing' = clearing - v
           /\ booked' = [booked EXCEPT ![t] = "refund"]
           /\ auth' = [auth EXCEPT ![a].refunded = @ + v]
           /\ IF ToWallet THEN wallet' = wallet + v /\ UNCHANGED <<card, balance>>
                          ELSE CreditCard(v) /\ UNCHANGED wallet
           /\ Commit(r) /\ UNCHANGED <<hold, thisMonth, retirement>>
  <2>1. auth[a].settled > 0 /\ auth[a].status # "none"
    <3>1. auth[a].settled > 0
      BY <1>1, <1>3 DEF AuthRow
    <3> QED BY <1>1, <3>1 DEF CardInv, RowsInv
  <2>2. /\ row \in AuthRow /\ row.released = auth[a].released /\ row.status = auth[a].status
        /\ row.settled = auth[a].settled /\ row.refunded = auth[a].refunded + v
    BY <1>1 DEF AuthRow
  <2>3. auth' = [auth EXCEPT ![a] = row]
    BY <1>1, <1>3 DEF CardInv, MoneyState
  <2>4. hold' = [hold EXCEPT ![a] = hold[a]] /\ code' = code
    BY <1>3 DEF Commit, CardInv, MoneyState
  <2>5. /\ wallet \in Nat /\ card \in Nat /\ clearing \in Int /\ balance \in Int
    BY DEF CardInv, MoneyState
  <2>6. hold[a] = IF row.status = "HELD" THEN Amount[a] - row.settled - row.released ELSE 0
    BY <1>1, <2>2 DEF CardInv, HoldFollowsAuthorization, Remaining
  <2>7. /\ row.settled = auth[a].settled + 0 /\ row.released = auth[a].released + 0
    <3> HIDE DEF row
    <3>1. auth[a].settled \in Nat /\ auth[a].released \in Nat
      BY <1>1 DEF AuthRow
    <3> QED BY <2>2, <3>1
  <2>8. /\ wallet' + card' + clearing' = wallet + card + clearing
        /\ wallet' \in Nat /\ card' \in Nat /\ clearing' \in Int /\ balance' \in Int
        /\ retirement' = "RETIRED" => card' = 0
    <3>1. CASE Retired
      BY <1>1, <1>3, <2>5, <3>1 DEF ToWallet, CardInv, RetiredStaysEmpty
    <3>2. CASE ~Retired
      <4>1. card' = card + v /\ balance' = balance + v /\ wallet' = wallet /\ retirement' = "none"
        BY <1>3, <3>2 DEF ToWallet, CreditCard, Retired
      <4> QED BY <1>1, <1>3, <2>5, <4>1
    <3> QED BY <3>1, <3>2
  <2>9. wallet + card + clearing = wallet + card + clearing + hold[a] - hold[a]
        /\ hold[a] <= hold[a]
    BY <1>1, <2>5
  <2>10. "refund" \in Bookings
    BY DEF Bookings
  <2> HIDE DEF row, a, v
  <2>11. BookingOf(t, "refund", a, row, hold[a])
    BY <1>1, <1>3, <2>1, <2>2, <2>3, <2>4, <2>6, <2>7, <2>8, <2>9 DEF BookingOf, MayMark, v
  <2>12. ShownOf(t, "refund", a, row, hold[a])
    <3>1. row.refunded <= row.settled
      BY <1>1, <1>3, <2>2 DEF AuthRow
    <3> QED BY <1>1, <1>3, <3>1 DEF ShownOf, ToWallet, CreditCard, v
  <2> QED BY <1>1, <2>2, <2>10, <2>11, <2>12 DEF a, Books
<1> QED
  <2>1. \/ Skip(r) \/ Throw(r, "RETRY")
        \/ /\ ~Done(t) /\ ~(auth[a].refunded + v > auth[a].settled)
           /\ clearing' = clearing - v
           /\ booked' = [booked EXCEPT ![t] = "refund"]
           /\ auth' = [auth EXCEPT ![a].refunded = @ + v]
           /\ IF ToWallet THEN wallet' = wallet + v /\ UNCHANGED <<card, balance>>
                          ELSE CreditCard(v) /\ UNCHANGED wallet
           /\ Commit(r) /\ UNCHANGED <<hold, thisMonth, retirement>>
    BY DEF ApplyRefund
  <2> QED BY <1>2, <1>3, <2>1 DEF Done

\* A declined authorization is not declined twice: after the first it is not HELD.
LEMMA DeclineBooks ==
    ASSUME CardInv, QueueInv, rules' = rules, NEW r \in Runs, ApplyDecline(r)
    PROVE  Idles(r) \/ Books(r)
<1> DEFINE t == run[r].txn
           a == Auth[t]
           rest == Amount[a] - auth[a].released
           n == hold[a] - rest
           row == [auth[a] EXCEPT !.released = Amount[a], !.status = "DECLINED"]
<1>1. /\ t \in Txns /\ a \in Auths /\ Kind[t] = "declined"
      /\ auth[a] \in AuthRow /\ hold[a] \in Nat /\ Amount[a] \in Nat
  BY Applied DEF ApplyDecline
<1>2. CASE Skip(r)
  BY <1>2 DEF Idles
<1>3. CASE /\ auth[a].settled = 0 /\ auth[a].status = "HELD"
           /\ ReleaseHold(a, rest) /\ CreditCard(rest)
           /\ booked' = [booked EXCEPT ![t] = "declined"]
           /\ auth' = [auth EXCEPT ![a].released = Amount[a], ![a].status = "DECLINED"]
           /\ Commit(r) /\ UNCHANGED <<wallet, clearing, thisMonth, retirement>>
  <2>1. booked[t] = "none"
    <3>1. Booked(a, "declined") = {}
      BY <1>1, <1>3 DEF CardInv, RowsInv
    <3>2. booked[t] # "declined"
      BY <1>1, <3>1 DEF Booked
    <3>3. booked[t] \in {"none"} \cup Bookings
      BY <1>1 DEF CardInv, MoneyState
    <3> QED BY <1>1, <3>2, <3>3 DEF CardInv, RowsInv, Bookings
  <2>2. hold[a] = rest /\ n = 0 /\ rest \in Nat /\ retirement # "RETIRED"
    <3>1. hold[a] = Remaining(a) /\ a \in Held
      BY <1>1, <1>3 DEF CardInv, HoldFollowsAuthorization, Held
    <3>2. auth[a].released \in Nat
      BY <1>1 DEF AuthRow
    <3>3. hold[a] = rest
      <4> HIDE DEF a
      <4>1. hold[a] = Amount[a] - auth[a].settled - auth[a].released
        BY <3>1 DEF Remaining
      <4> QED BY <1>1, <1>3, <3>2, <4>1
    <3>4. retirement # "RETIRED"
      BY <3>1 DEF CardInv, RetiredStaysEmpty
    <3> QED BY <1>1, <3>3, <3>4
  <2>3. /\ row \in AuthRow /\ row.released = Amount[a] /\ row.status = "DECLINED"
        /\ row.settled = auth[a].settled /\ row.refunded = auth[a].refunded
    BY <1>1 DEF AuthRow, AuthStatuses
  <2>4. auth' = [auth EXCEPT ![a] = row]
    BY <1>1, <1>3 DEF CardInv, MoneyState
  <2>5. hold' = [hold EXCEPT ![a] = n] /\ code' = code
    BY <1>3 DEF ReleaseHold, Commit
  <2>6. /\ wallet \in Nat /\ card \in Nat /\ clearing \in Int /\ balance \in Int
    BY DEF CardInv, MoneyState
  <2>7. /\ row.refunded = auth[a].refunded + 0 /\ row.settled = auth[a].settled + 0
    <3> HIDE DEF row
    <3>1. auth[a].refunded \in Nat /\ auth[a].settled \in Nat
      BY <1>1 DEF AuthRow
    <3> QED BY <2>3, <3>1
  <2>8. /\ wallet' + card' + clearing' = wallet + card + clearing + hold[a] - n
        /\ wallet' \in Nat /\ card' \in Nat /\ clearing' \in Int /\ balance' \in Int
    <3>1. card' = card + rest /\ balance' = balance + rest
      BY <1>3 DEF CreditCard
    <3> HIDE DEF n, rest
    <3> QED BY SMTT(30), <1>1, <1>3, <2>2, <2>6, <3>1
  <2>9. "declined" \in Bookings
    BY DEF Bookings
  <2> HIDE DEF row, n, a, rest
  <2>10. BookingOf(t, "declined", a, row, n)
    <3>1. n <= hold[a] /\ n = IF row.status = "HELD" THEN Amount[a] - row.settled - row.released
                                                      ELSE 0
      BY <1>1, <2>2, <2>3
    <3> QED BY <1>1, <1>3, <2>1, <2>2, <2>3, <2>4, <2>5, <2>7, <2>8, <3>1 DEF BookingOf, MayMark
  <2>11. ShownOf(t, "declined", a, row, n)
    <3>1. card' = card + (hold[a] - n)
      <4>1. card' = card + rest /\ hold[a] - n = rest
        BY <1>1, <1>3, <2>2 DEF CreditCard
      <4> QED BY <4>1
    <3> QED BY <1>3, <2>2, <2>3, <3>1 DEF ShownOf
  <2> QED BY <2>2, <2>3, <2>9, <2>10, <2>11 DEF a, Books
<1> QED
  <2>1. \/ Skip(r)
        \/ /\ ReversesHold(a) /\ ReleaseHold(a, rest) /\ CreditCard(rest)
           /\ booked' = [booked EXCEPT ![t] = "declined"]
           /\ auth' = [auth EXCEPT ![a].released = Amount[a], ![a].status = "DECLINED"]
           /\ Commit(r) /\ UNCHANGED <<wallet, clearing, thisMonth, retirement>>
    BY DEF ApplyDecline
  <2> QED BY <1>2, <1>3, <2>1 DEF ReversesHold

(***************************************************************************)
(* The other steps of the money.                                           *)
(***************************************************************************)
LEMMA AuthorizeKeeps ==
    ASSUME CardInv, NEW a \in Auths, Authorize(a), rules' = rules
    PROVE  CardInv'
<1>1. auth[a].status = "none" /\ thisMonth' = thisMonth
  BY DEF Authorize
<1>2. CASE \E c \in {"05", "51"} : Decline(a, c)
  <2>1. PICK c \in {"05", "51"} : Decline(a, c)
    BY <1>2
  <2>2. /\ auth' = [auth EXCEPT ![a].status = "DECLINED"] /\ code' = [code EXCEPT ![a] = c]
        /\ UNCHANGED moneyVars /\ MayMark
    BY <2>1 DEF Decline, SetAuth, Mark, Retired, MayMark, CardInv, MoneyState
  <2>3. /\ code' \in [Auths -> {"none", "00", "05", "51"}]
        /\ \A b \in Auths : code'[b] = "00" => code[b] = "00"
    BY <2>2 DEF CardInv, MoneyState
  <2> QED BY <1>1, <2>2, <2>3, StatusKeeps
<1>3. CASE Ask(a)
  <2>1. /\ auth' = [auth EXCEPT ![a].status = "AWAITING_APPROVAL"]
        /\ code' = [code EXCEPT ![a] = "05"] /\ UNCHANGED moneyVars /\ MayMark
    BY <1>3 DEF Ask, SetAuth, MayMark
  <2>2. /\ code' \in [Auths -> {"none", "00", "05", "51"}]
        /\ \A b \in Auths : code'[b] = "00" => code[b] = "00"
    BY <2>1 DEF CardInv, MoneyState
  <2> QED BY <1>1, <2>1, <2>2, StatusKeeps
<1>4. CASE /\ ~Declinable(a) /\ ~(card < Amount[a]) /\ ~NeedsApproval(a)
           /\ Approve00(a, {})
  <2>1. a \notin rules.large \ Verification
    BY <1>4 DEF NeedsApproval
  <2> QED BY <1>1, <1>4, <2>1, ApproveKeeps
<1>5. CASE /\ ~Declinable(a) /\ ~(card < Amount[a])
           /\ \E g \in Grants(a) : Approve00(a, {g})
  <2>1. PICK g \in Grants(a) : Approve00(a, {g})
    BY <1>5
  <2>2. {g} \in SUBSET Grants(a) /\ \E h \in {g} : {g} = {h}
    OBVIOUS
  <2> QED BY <1>1, <1>5, <2>1, <2>2, ApproveKeeps
<1> QED BY <1>2, <1>3, <1>4, <1>5 DEF Authorize

LEMMA AnswerKeeps ==
    ASSUME CardInv, NEW a \in Auths, OwnerApproves(a) \/ OwnerDeclines(a), rules' = rules
    PROVE  CardInv'
<1>1. PICK s \in {"DECLINED", "AWAITING_APPROVAL", "RETRY_APPROVED"} : Answer(a, s)
  BY DEF OwnerApproves, OwnerDeclines
<1>2. /\ auth[a].status = "AWAITING_APPROVAL" /\ auth' = [auth EXCEPT ![a].status = s]
      /\ UNCHANGED <<code, moneyVars, thisMonth>> /\ MayMark
  BY <1>1 DEF Answer, MayMark
<1>3. code' \in [Auths -> {"none", "00", "05", "51"}]
  BY <1>2 DEF CardInv, MoneyState
<1> QED BY <1>2, <1>3, StatusKeeps

LEMMA EventKeeps ==
    ASSUME CardInv, QueueInv, NEW r \in Runs, EventStep(r), rules' = rules
    PROVE  CardInv'
<1>1. CASE Fetch(r) \/ FetchFails(r) \/ RecordFailure(r)
  BY <1>1, QuietKeeps DEF Fetch, FetchFails, RecordFailure, MayMark
<1>2. CASE ApplyZero(r)
  BY <1>2, SkipKeeps DEF ApplyZero, Idles
<1>3. ASSUME run[r].pc = "fetched", Idles(r) \/ Books(r)
      PROVE  CardInv'
  BY <1>3, SkipKeeps, BooksKeeps
<1>4. ApplyCapture(r) \/ ApplyReversal(r) \/ ApplyRefund(r) \/ ApplyDecline(r) =>
        run[r].pc = "fetched" /\ (Idles(r) \/ Books(r))
  BY CaptureBooks, ReversalBooks, RefundBooks, DeclineBooks DEF ApplyCapture, ApplyReversal,
     ApplyRefund, ApplyDecline, Applying
<1> QED BY <1>1, <1>2, <1>3, <1>4 DEF EventStep

LEMMA StepKeeps ==
    ASSUME CardInv, QueueInv, CardStep(Auths, Txns, Runs), rules' = rules
    PROVE  CardInv'
<1>1. CASE \E a \in Auths : \/ Authorize(a) \/ OwnerApproves(a) \/ OwnerDeclines(a)
                            \/ ApprovalExpires(a) \/ Hear(a)
  <2>1. PICK a \in Auths : \/ Authorize(a) \/ OwnerApproves(a) \/ OwnerDeclines(a)
                           \/ ApprovalExpires(a) \/ Hear(a)
    BY <1>1
  <2>2. CASE ApprovalExpires(a) \/ Hear(a)
    BY <2>2, QuietKeeps DEF ApprovalExpires, Hear, MayMark
  <2> QED BY <2>1, <2>2, AuthorizeKeeps, AnswerKeeps
<1>2. CASE \E t \in Txns : SudoPosts(t) \/ Receive(t) \/ AdminRetry(t)
  BY <1>2, QuietKeeps DEF SudoPosts, Receive, AdminRetry, MayMark
<1>3. CASE \E r \in Runs : EventStep(r)
  BY <1>3, EventKeeps
<1>4. CASE \E r \in Runs : \E t \in Txns : Pick(r, t)
  BY <1>4, QuietKeeps DEF Pick, MayMark
<1>5. CASE Allocate \/ Return \/ NewMonth
  BY <1>5, MovesKeep
<1>6. CASE Retire \/ DeadlinePasses
  BY <1>6, QuietKeeps DEF Retire, DeadlinePasses, Mark, Retired, MayMark
<1>7. CASE FinishRetirement
  BY <1>7, FinishKeeps
<1> QED BY <1>1, <1>2, <1>3, <1>4, <1>5, <1>6, <1>7 DEF CardStep

(***************************************************************************)
(* The queue.                                                              *)
(***************************************************************************)
\* A run is freed, or a field of it changes, and a transaction gets a status.
LEMMA QueueKeeps ==
    ASSUME QueueInv, CardStep(Auths, Txns, Runs)
    PROVE  QueueInv'
<1> USE DEF Bookings, InboxStatuses
<1>1. CASE \E a \in Auths : \/ Authorize(a) \/ OwnerApproves(a) \/ OwnerDeclines(a)
                            \/ ApprovalExpires(a) \/ Hear(a)
  <2>1. PICK a \in Auths : \/ Authorize(a) \/ OwnerApproves(a) \/ OwnerDeclines(a)
                           \/ ApprovalExpires(a) \/ Hear(a)
    BY <1>1
  <2>2. stale' \subseteq Auths /\ due' = due /\ UNCHANGED <<inbox, tagged, run, posted>>
    BY <2>1 DEF QueueInv, Authorize, Decline, Ask, Approve00, OwnerApproves, OwnerDeclines, Answer,
       ApprovalExpires, Hear, inboxVars, sudoVars
  <2>3. heard' \in [Auths -> {"none", "approved", "declined"}]
    BY <2>1 DEF QueueInv, Authorize, OwnerApproves, OwnerDeclines, Answer, ApprovalExpires, Hear,
       sudoVars
  <2> QED BY <2>2, <2>3 DEF QueueInv
<1>2. CASE \E t \in Txns : SudoPosts(t) \/ Receive(t) \/ AdminRetry(t)
  <2>1. PICK t \in Txns : SudoPosts(t) \/ Receive(t) \/ AdminRetry(t)
    BY <1>2
  <2>2. /\ inbox' \in [Txns -> InboxStatuses] /\ posted' \in [Txns -> {"none"} \cup Bookings]
        /\ UNCHANGED <<stale, due, tagged, run, heard>>
    BY <2>1 DEF QueueInv, SudoPosts, Receive, AdminRetry, inboxVars, sudoVars
  <2> QED BY <2>2 DEF QueueInv
<1>3. CASE \E r \in Runs : EventStep(r) \/ \E t \in Txns : Pick(r, t)
  <2>1. PICK r \in Runs : EventStep(r) \/ \E t \in Txns : Pick(r, t)
    BY <1>3
  <2>2. /\ UNCHANGED <<stale, due, posted, heard>> /\ tagged' \subseteq Txns
        /\ \/ run' = [run EXCEPT ![r] = Free]
           \/ \E t \in Txns : run' = [run EXCEPT ![r] = [pc |-> "picked", txn |-> t]]
           \/ \E s \in {"fetched", "RETRY", "REVIEW"} :
                run[r].pc # "idle" /\ run' = [run EXCEPT ![r].pc = s]
        /\ \/ inbox' = inbox
           \/ \E s \in InboxStatuses : inbox' = [inbox EXCEPT ![run[r].txn] = s]
    <3>1. CASE Fetch(r)
      BY <3>1 DEF QueueInv, Fetch, sudoVars
    <3>2. CASE FetchFails(r)
      BY <3>2 DEF QueueInv, FetchFails, sudoVars
    <3>3. CASE RecordFailure(r)
      BY <3>3 DEF QueueInv, RecordFailure, sudoVars
    <3>4. CASE Commit(r)
      BY <3>4 DEF QueueInv, Commit, sudoVars
    <3>5. CASE run[r].pc = "fetched" /\ (Throw(r, "RETRY") \/ Throw(r, "REVIEW"))
      BY <3>5 DEF QueueInv, Throw, inboxVars, sudoVars
    <3>6. CASE \E t \in Txns : Pick(r, t)
      BY <3>6 DEF QueueInv, Pick, inboxVars, sudoVars
    <3>7. ApplyZero(r) \/ ApplyCapture(r) \/ ApplyReversal(r) \/ ApplyRefund(r) \/ ApplyDecline(r)
            => Commit(r) \/ (run[r].pc = "fetched" /\ (Throw(r, "RETRY") \/ Throw(r, "REVIEW")))
      BY DEF ApplyZero, ApplyCapture, ApplyReversal, ApplyRefund, ApplyDecline, Applying, Skip
    <3> QED BY <2>1, <3>1, <3>2, <3>3, <3>4, <3>5, <3>6, <3>7 DEF EventStep
  <2>3. inbox' \in [Txns -> InboxStatuses]
    BY <2>2 DEF QueueInv
  <2>4. /\ run' \in [Runs -> [pc : {"idle", "picked", "fetched", "RETRY", "REVIEW"},
                              txn : Txns \cup {"none"}]]
        /\ \A q \in Runs : run'[q].pc # "idle" => run'[q].txn \in Txns
    <3>1. CASE run' = [run EXCEPT ![r] = Free]
      BY <3>1 DEF QueueInv, Free
    <3>2. CASE \E t \in Txns : run' = [run EXCEPT ![r] = [pc |-> "picked", txn |-> t]]
      BY <3>2 DEF QueueInv
    <3>3. CASE \E s \in {"fetched", "RETRY", "REVIEW"} :
                 run[r].pc # "idle" /\ run' = [run EXCEPT ![r].pc = s]
      BY <3>3 DEF QueueInv
    <3> QED BY <2>2, <3>1, <3>2, <3>3
  <2> QED BY <2>2, <2>3, <2>4 DEF QueueInv
<1>4. CASE Allocate \/ Return \/ Retire \/ NewMonth \/ DeadlinePasses \/ FinishRetirement
  BY <1>4 DEF QueueInv, Allocate, Return, Retire, NewMonth, DeadlinePasses, FinishRetirement,
     inboxVars, sudoVars
<1> QED BY <1>1, <1>2, <1>3, <1>4 DEF CardStep

(***************************************************************************)
(* The theorems.                                                           *)
(***************************************************************************)
LEMMA Starts == Init => CardInv /\ QueueInv
<1> SUFFICES ASSUME Init PROVE CardInv /\ QueueInv
  OBVIOUS
<1>1. /\ rules \in Rules /\ rules.monthlyLimit \in Nat /\ rules.usageLimit \in Nat \ {0}
      /\ rules.large \subseteq Auths
  BY LimitAssumption DEF Init
<1>2. \A a \in Auths : /\ auth[a].status = "none" /\ auth[a].settled = 0
                       /\ auth[a].released = 0 /\ auth[a].refunded = 0 /\ code[a] = "none"
                       /\ hold[a] = 0
  BY DEF Init, NoAuth
<1>3. MoneyState /\ QueueInv
  <2>1. auth \in [Auths -> AuthRow]
    BY DEF Init, NoAuth, AuthRow, AuthStatuses
  <2>2. run \in [Runs -> [pc : {"idle", "picked", "fetched", "RETRY", "REVIEW"},
                         txn : Txns \cup {"none"}]]
    BY DEF Init, Free
  <2>3. Deposit \in Nat /\ Deposit \in Int
    BY LimitAssumption
  <2>4. MoneyState
    BY <2>1, <2>3 DEF Init, MoneyState
  <2>5. QueueInv
    BY <2>2 DEF Init, QueueInv, InboxStatuses, Free
  <2> QED BY <2>4, <2>5
<1>4. \A a \in Auths, w \in Bookings : Booked(a, w) = {}
  BY DEF Init, Booked, Bookings
<1>5. Completed = {} /\ Held = {} /\ Sum(Value, {}) = 0 /\ Cardinality({}) = 0
  BY <1>2, SumEmpty, FS_EmptySet DEF Init, Completed, Held
<1>6. RowsInv
  BY <1>2, <1>4 DEF Init, RowsInv, Bookings
<1>7. BookedOnce
  BY <1>2, <1>4, <1>5 DEF BookedOnce, Bookings
<1>8. HoldFollowsAuthorization
  BY <1>2 DEF HoldFollowsAuthorization
<1>9. Sum(hold, Auths) = 0
  BY <1>2, SumZero
<1>10. MoneyStaysWhole
  BY <1>9, LimitAssumption DEF Init, MoneyStaysWhole
<1>11. LimitsHoldOut
  <2>1. {a \in Auths \ Verification : auth[a].status = "HELD" \/ a \in Completed} = {}
    BY <1>2, <1>5
  <2>2. Cardinality({a \in Auths \ Verification : auth[a].status = "HELD" \/ a \in Completed})
          <= rules.usageLimit
    BY <1>1, <1>5, <2>1
  <2>3. SettledAmount + Sum(hold, Auths) <= rules.monthlyLimit
    BY <1>1, <1>5, <1>9 DEF Init, SettledAmount
  <2> QED BY <2>2, <2>3 DEF LimitsHoldOut
<1>12. LastUseIsLast /\ RetiredStaysEmpty
  BY <1>1, <1>5 DEF Init, LastUseIsLast, RetiredStaysEmpty
<1>13. ApprovalsAreSpent
  <2>1. /\ {a \in rules.large \ Verification : code[a] = "00"} = {}
        /\ {g \in Auths : auth[g].status = "APPROVAL_USED"} = {}
    BY <1>1, <1>2
  <2> DEFINE let == {a \in rules.large \ Verification : code[a] = "00"}
             used == {g \in Auths : auth[g].status = "APPROVAL_USED"}
  <2>2. Cardinality(let) <= Cardinality(used)
    <3>1. let = {} /\ used = {}
      BY <2>1
    <3> HIDE DEF let, used
    <3> QED BY <1>5, <3>1
  <2> QED BY <2>2 DEF ApprovalsAreSpent
<1> QED BY <1>3, <1>6, <1>7, <1>8, <1>10, <1>11, <1>12, <1>13 DEF CardInv

LEMMA Stays == (CardInv /\ QueueInv) /\ [Next]_vars => (CardInv /\ QueueInv)'
<1> SUFFICES ASSUME CardInv, QueueInv, [Next]_vars PROVE CardInv' /\ QueueInv'
  OBVIOUS
<1>1. CASE Next
  BY <1>1, StepKeeps, QueueKeeps DEF Next
<1>2. CASE UNCHANGED vars
  <2>1. CardInv'
    BY <1>2, QuietKeeps DEF vars, MayMark
  <2>2. QueueInv'
    BY <1>2 DEF vars, inboxVars, sudoVars, QueueInv
  <2> QED BY <2>1, <2>2
<1> QED BY <1>1, <1>2

\* The invariant holds in every reachable state, for every card, schedule and set of rules.
THEOREM CardInvariant == Spec => [](CardInv /\ QueueInv)
<1> QED BY Starts, Stays, PTL DEF Spec

\* Every row, account and queue entry has the values the columns allow: in particular no
\* wallet, card or hold is ever negative.
THEOREM CardTypes == Spec => []TypeOK
<1>1. CardInv /\ QueueInv => TypeOK
  BY DEF CardInv, QueueInv, MoneyState, TypeOK, AuthRow, Bookings
<1> QED BY <1>1, CardInvariant, PTL

\* No authorization, webhook, command or retirement makes or loses money.
THEOREM MoneyIsWhole == Spec => []MoneyStaysWhole
<1>1. CardInv => MoneyStaysWhole
  BY DEF CardInv
<1> QED BY <1>1, CardInvariant, PTL

\* The budget and the number of uses hold for any number of authorizations and concurrent
\* event runs (FinancePolicy.snapshot counts holds and captures under the owner's lock).
THEOREM LimitsAreKept == Spec => []LimitsHoldOut
<1>1. CardInv => LimitsHoldOut
  BY DEF CardInv
<1> QED BY <1>1, CardInvariant, PTL

\* The capture that completes the last allowed purchase marks the card for retirement.
THEOREM LastUseRetires == Spec => []LastUseIsLast
<1>1. CardInv => LastUseIsLast
  BY DEF CardInv
<1> QED BY <1>1, CardInvariant, PTL

\* No refund, reversal or decline puts money on a retired card (FinanceRetirement.process).
THEOREM RetiredIsEmpty == Spec => []RetiredStaysEmpty
<1>1. CardInv => RetiredStaysEmpty
  BY DEF CardInv
<1> QED BY <1>1, CardInvariant, PTL

\* However often sudoEvent runs for a transaction, it posts one journal, and the hold is
\* what the authorization's row leaves of its amount.
THEOREM RowsFollowJournals == Spec => []RowsAreJournals
<1>1. CardInv => RowsAreJournals
  BY DEF CardInv, RowsAreJournals
<1> QED BY <1>1, CardInvariant, PTL

\* Each approval of the owner lets one large purchase through (FinanceAuthorizations).
THEOREM ApprovalsAreUsedOnce == Spec => []ApprovalsAreSpent
<1>1. CardInv => ApprovalsAreSpent
  BY DEF CardInv
<1> QED BY <1>1, CardInvariant, PTL

(***************************************************************************)
(* Envelope is implemented.  What it sees of a row is its phase, which     *)
(* needs the recorded answer, and the amounts captured and refunded.       *)
(***************************************************************************)
AnswerInv ==
    \A a \in Auths : /\ auth[a].status = "HELD" => code[a] = "00"
                     /\ code[a] = "00" => auth[a].status # "none"

Taken == [a \in Auths |-> auth[a].settled]
Returned == [a \in Auths |-> auth[a].refunded]
Phases == [a \in Auths |-> Phase(a)]
Shown == <<Limit(rules), wallet, card, hold, Taken, Returned, Phases, Completed, SettledAmount,
           Stage>>

\* Envelope's sizes and sums are those of the card.
LEMMA SameSizes ==
    /\ \A S : E!Cardinality(S) = Cardinality(S)
    /\ \A w, S : E!Sum(w, S) = Sum(w, S)
<1>1. \A S : E!Cardinality(S) = Cardinality(S)
  BY DEF E!Cardinality, Cardinality
<1> QED BY <1>1 DEF E!Sum, Sum, E!Units, Units

LEMMA SameRows ==
    ASSUME UNCHANGED <<auth, code>>
    PROVE  UNCHANGED <<Taken, Returned, Phases>> /\ (AnswerInv => AnswerInv')
  BY DEF Taken, Returned, Phases, Phase, AnswerInv

LEMMA SameAccounts ==
    /\ booked' = booked => Completed' = Completed
    /\ thisMonth' = thisMonth => SettledAmount' = SettledAmount
    /\ retirement' = retirement => Stage' = Stage
    /\ rules' = rules => Limit(rules)' = Limit(rules)
  BY DEF Completed, SettledAmount, Stage, Retired, Limit

\* A step that Envelope does not see, or at most as the end of its card.
LEMMA HiddenSteps ==
    ASSUME CardInv, UNCHANGED <<rules, moneyVars, thisMonth, Taken, Returned, Phases>>, MayMark
    PROVE  E!Close \/ UNCHANGED Shown
<1>1. UNCHANGED <<Limit(rules), wallet, card, hold, Completed, SettledAmount>>
  BY SameAccounts DEF moneyVars
<1>2. CASE retirement' = retirement
  BY <1>1, <1>2, SameAccounts DEF Shown
<1>3. CASE retirement = "none" /\ retirement' = "RETIRING"
  <2>1. Stage = "open" /\ Stage' = "closing"
    BY <1>3 DEF Stage, Retired
  <2> QED BY <1>1, <2>1 DEF E!Close, Taken, Returned, Phases
<1> QED BY <1>2, <1>3 DEF MayMark

LEMMA FillShows ==
    ASSUME CardInv, Allocate \/ Return
    PROVE  E!Fill
<1>1. PICK n \in {Lot, -Lot} : Move(n) /\ ~Reason
  BY DEF Allocate, Return
<1>2. /\ n \in Int /\ wallet \in Nat /\ card \in Nat
      /\ wallet' = wallet - n /\ card' = card + n /\ wallet - n >= 0 /\ card + n >= 0
      /\ UNCHANGED <<hold, booked>> /\ UNCHANGED <<auth, code, thisMonth, retirement>>
  BY <1>1, LimitAssumption DEF Move, CardInv, MoneyState, Allocate, Return
<1>3. wallet' \in 0 .. wallet + card /\ card' = wallet + card - wallet'
  BY <1>2
<1>4. UNCHANGED <<Taken, Returned, Phases, Completed, SettledAmount, Stage>>
  BY <1>2, SameRows, SameAccounts
<1>5. Stage = "open"
  BY <1>1 DEF Stage, Reason, Retired
<1> QED BY <1>2, <1>3, <1>4, <1>5 DEF E!Fill, Taken, Returned, Phases

LEMMA MonthShows ==
    ASSUME NewMonth
    PROVE  E!NewMonth
<1>1. SettledAmount' = 0
  BY SumEmpty DEF NewMonth, SettledAmount
<1>2. UNCHANGED <<wallet, card, hold, Taken, Returned, Phases, Completed, Stage>>
  BY SameRows, SameAccounts DEF NewMonth, moneyVars
<1> QED BY <1>1, <1>2 DEF E!NewMonth, Taken, Returned, Phases

LEMMA FinishShows ==
    ASSUME FinishRetirement
    PROVE  E!Empty
<1>1. UNCHANGED <<hold, Taken, Returned, Phases, Completed, SettledAmount>>
  BY SameRows, SameAccounts DEF FinishRetirement
<1>2. Stage = "closing" /\ Stage' = "closed" /\ wallet' = wallet + card /\ card' = 0
  BY DEF FinishRetirement, Stage, Retired
<1>3. \A a \in Auths : Phases[a] # "open"
  BY DEF FinishRetirement, Held, Phases, Phase
<1> QED BY <1>1, <1>2, <1>3 DEF E!Empty, Taken, Returned, Phases

\* A row that neither becomes HELD nor was it keeps its place in Envelope.
LEMMA StatusShows ==
    ASSUME CardInv, AnswerInv, NEW a \in Auths, auth[a].status \in {"none", "AWAITING_APPROVAL"},
           NEW s \in {"DECLINED", "AWAITING_APPROVAL", "RETRY_APPROVED"},
           auth' = [auth EXCEPT ![a].status = s],
           \A b \in Auths : code'[b] = "00" <=> code[b] = "00"
    PROVE  UNCHANGED <<Taken, Returned, Phases>> /\ AnswerInv'
<1>1. ASSUME NEW b \in Auths
      PROVE  /\ auth'[b].settled = auth[b].settled /\ auth'[b].refunded = auth[b].refunded
             /\ auth'[b].status = IF b = a THEN s ELSE auth[b].status
  <2>1. auth[b] \in AuthRow /\ auth \in [Auths -> AuthRow]
    BY DEF CardInv, MoneyState
  <2> QED BY <2>1 DEF AuthRow
<1>2. \A b \in Auths : Phase(b)' = Phase(b)
  BY <1>1 DEF Phase
<1>3. UNCHANGED <<Taken, Returned, Phases>>
  BY <1>1, <1>2 DEF Taken, Returned, Phases
<1>4. AnswerInv'
  BY <1>1 DEF AnswerInv
<1> QED BY <1>3, <1>4

LEMMA ApproveShows ==
    ASSUME CardInv, AnswerInv, NEW a \in Auths, NEW used \in SUBSET Grants(a),
           auth[a].status = "none", ~Declinable(a), ~(card < Amount[a]), Approve00(a, used),
           UNCHANGED <<rules, thisMonth>>, CardInv'
    PROVE  AnswerInv' /\ (E!Reserve(a) \/ E!Verify(a))
<1> DEFINE s == IF Amount[a] = 0 THEN "VERIFIED" ELSE "HELD"
<1>1. \A g \in used : g \in Auths /\ auth[g].status = "RETRY_APPROVED" /\ g # a
  BY DEF Grants
<1>2. ASSUME NEW b \in Auths
      PROVE  /\ auth'[b].settled = auth[b].settled /\ auth'[b].refunded = auth[b].refunded
             /\ b = a => auth'[b].status = s /\ code'[b] = "00"
             /\ b # a => /\ auth'[b].status = auth[b].status
                            \/ {auth'[b].status, auth[b].status} = {"RETRY_APPROVED", "APPROVAL_USED"}
                         /\ code'[b] = code[b]
  <2>1. auth[b] \in AuthRow /\ auth[a] \in AuthRow /\ code \in [Auths -> {"none", "00", "05", "51"}]
    BY DEF CardInv, MoneyState
  <2>2. CASE b = a
    BY <2>1, <2>2 DEF Approve00, AuthRow
  <2>3. CASE b # a /\ b \in used
    BY <1>1, <2>1, <2>3 DEF Approve00, AuthRow
  <2>4. CASE b # a /\ b \notin used
    BY <2>1, <2>4 DEF Approve00
  <2> QED BY <2>2, <2>3, <2>4
<1>3. AnswerInv'
  BY <1>2 DEF AnswerInv
<1>4. /\ Phases[a] = "none" /\ Phases' = [Phases EXCEPT ![a] = IF Amount[a] = 0 THEN "done" ELSE "open"]
      /\ UNCHANGED <<Taken, Returned>>
  <2>1. Phase(a) = "none" /\ Phase(a)' = IF Amount[a] = 0 THEN "done" ELSE "open"
    BY <1>2 DEF AnswerInv, Phase
  <2>2. \A b \in Auths \ {a} : Phase(b)' = Phase(b)
    BY <1>2 DEF Phase
  <2>3. UNCHANGED <<Taken, Returned>>
    BY <1>2 DEF Taken, Returned
  <2> QED BY <2>1, <2>2, <2>3 DEF Phases
<1>5. /\ UNCHANGED <<wallet, Completed, SettledAmount, Stage>> /\ Stage = "open"
      /\ card' = card - Amount[a] /\ hold' = [hold EXCEPT ![a] = hold[a] + Amount[a]]
  BY SameAccounts DEF Approve00, CreditCard, Stage, Retired, Declinable, Reason
<1>6. /\ Amount[a] \in Nat /\ card \in Nat /\ hold[a] = 0 /\ hold \in [Auths -> Nat]
  BY Facts DEF CardInv, MoneyState, HoldFollowsAuthorization
<1>7. CASE Amount[a] = 0
  <2>1. card' = card /\ hold' = hold
    BY <1>5, <1>6, <1>7
  <2> QED BY <1>3, <1>4, <1>5, <1>7, <2>1 DEF E!Verify, Taken, Returned, Phases
<1>8. CASE Amount[a] # 0
  <2>1. hold' = [hold EXCEPT ![a] = Amount[a]] /\ Amount[a] \in 1 .. card
    <3>1. hold[a] + Amount[a] = Amount[a] /\ Amount[a] \in 1 .. card
      BY <1>6, <1>8
    <3> QED BY <1>5, <3>1
  <2>2. SettledAmount + Sum(hold', Auths) <= rules.monthlyLimit
    BY <1>5 DEF CardInv, LimitsHoldOut
  <2>3. a \notin Verification => Cardinality(Slots) < rules.usageLimit
    <3>1. Uses = Cardinality(Slots) /\ Cardinality(Slots) \in Nat /\ rules.usageLimit \in Nat
      BY UsesAreSlots, SetsAreFinite, Facts DEF CardInv
    <3> QED BY <3>1 DEF Declinable
  <2>4. Slots = {b \in Auths \ Verification : Phases[b] = "open" \/ b \in Completed}
    BY DEF Slots, Phases, Phase
  <2>5. Limit(rules).uses = rules.usageLimit /\ Limit(rules).budget = rules.monthlyLimit
    BY DEF Limit
  <2>6. E!Reserve(a)
    <3>1. a \notin Verification => E!Cardinality(E!Buyers) < Limit(rules).uses
      BY <2>3, <2>4, <2>5, SameSizes DEF E!Buyers, Phases
    <3>2. SettledAmount + E!Sum(hold', Auths) <= Limit(rules).budget
      BY <2>2, <2>5, SameSizes
    <3> QED BY <1>4, <1>5, <1>8, <2>1, <3>1, <3>2 DEF E!Reserve, Taken, Returned, Phases
  <2> QED BY <1>3, <2>6
<1> QED BY <1>7, <1>8

\* The part of a hold that a capture, a reversal or a decline uses; a refund uses none.
LEMMA BookingShows ==
    ASSUME CardInv, AnswerInv, CardInv', NEW t \in Txns, NEW what \in Bookings,
           NEW row \in AuthRow, NEW n \in Nat,
           BookingOf(t, what, Auth[t], row, n), ShownOf(t, what, Auth[t], row, n)
    PROVE  AnswerInv' /\ E!EnvelopeNext
<1> DEFINE a == Auth[t]
           m == hold[a] - n
<1> HIDE DEF a
<1>1. /\ a \in Auths /\ Value[t] \in Nat /\ hold[a] \in Nat /\ auth[a] \in AuthRow
      /\ BookingOf(t, what, a, row, n) /\ ShownOf(t, what, a, row, n) /\ a = Auth[t]
  BY Facts DEF a
<1>2. RowStep(a, row) /\ hold \in [Auths -> Nat]
  <2>1. auth' = [auth EXCEPT ![a] = row] /\ MoneyState
    BY <1>1 DEF BookingOf, CardInv
  <2> QED BY <1>1, <2>1, RowSteps DEF MoneyState
<1>3. what = "declined" => n = 0
  BY <1>1 DEF BookingOf
<1>4. /\ n <= hold[a] /\ m \in 0 .. hold[a] /\ n = hold[a] - m /\ (m = hold[a] <=> n = 0)
      /\ hold' = [hold EXCEPT ![a] = n]
      /\ what = "capture" => m = Value[t] /\ m > 0
  <2>1. /\ n <= hold[a] /\ hold' = [hold EXCEPT ![a] = n]
        /\ what = "capture" => hold[a] = n + Value[t] /\ Value[t] > 0
    BY <1>1 DEF BookingOf, ShownOf
  <2> QED BY <1>1, <2>1
<1>5. AnswerInv'
  <2>1. ASSUME NEW b \in Auths
        PROVE  /\ auth'[b].status = "HELD" => auth[b].status = "HELD"
               /\ auth'[b].status = "none" => auth[b].status = "none"
    BY <1>1, <1>2 DEF BookingOf, RowStep
  <2>2. code' = code
    BY <1>1 DEF BookingOf
  <2> QED BY <2>1, <2>2 DEF AnswerInv
<1>6. Taken' = IF what = "capture" THEN [Taken EXCEPT ![a] = @ + m] ELSE Taken
  <2>1. row.settled = IF what = "capture" THEN auth[a].settled + m ELSE auth[a].settled
    <3>1. row.settled = auth[a].settled + (IF what = "capture" THEN Value[t] ELSE 0)
      BY <1>1 DEF BookingOf
    <3>2. auth[a].settled \in Nat
      BY <1>1 DEF AuthRow
    <3> HIDE DEF m
    <3> QED BY <1>4, <3>1, <3>2
  <2> HIDE DEF m
  <2> QED BY <1>1, <1>2, <2>1 DEF Taken, RowStep
<1>7. Returned' = IF what = "refund" THEN [Returned EXCEPT ![a] = @ + Value[t]] ELSE Returned
  <2>1. row.refunded = IF what = "refund" THEN auth[a].refunded + Value[t] ELSE auth[a].refunded
    <3>1. row.refunded = auth[a].refunded + (IF what = "refund" THEN Value[t] ELSE 0)
      BY <1>1 DEF BookingOf
    <3>2. auth[a].refunded \in Nat
      BY <1>1 DEF AuthRow
    <3> QED BY <1>1, <3>1, <3>2
  <2> QED BY <1>1, <1>2, <2>1 DEF Returned, RowStep
<1>8. /\ what # "refund" => /\ Phases[a] = "open"
                            /\ Phases' = IF n = 0 THEN [Phases EXCEPT ![a] = "done"] ELSE Phases
      /\ what = "refund" => Phases' = Phases
  <2>1. code' = code /\ \A b \in Auths \ {a} : Phase(b)' = Phase(b)
    BY <1>1, <1>2 DEF BookingOf, RowStep, Phase
  <2>2. CASE what = "refund"
    <3>1. Phase(a)' = Phase(a)
      BY <1>1, <1>2, <2>1, <2>2 DEF BookingOf, RowStep, Phase
    <3> QED BY <2>1, <2>2, <3>1 DEF Phases
  <2>3. CASE what # "refund"
    <3>1. auth[a].status = "HELD" /\ code[a] = "00" /\ (row.status = "HELD" <=> n # 0)
      BY <1>1, <2>3 DEF BookingOf, ShownOf, AnswerInv
    <3>2. Phase(a) = "open" /\ Phase(a)' = IF n = 0 THEN "done" ELSE "open"
      BY <1>1, <1>2, <2>1, <3>1 DEF RowStep, Phase
    <3> QED BY <1>1, <2>1, <2>3, <3>2 DEF Phases
  <2> QED BY <2>2, <2>3
<1>9. /\ what # "capture" => UNCHANGED <<Completed, SettledAmount, Stage>>
      /\ what = "capture" => /\ Completed' = Completed \cup ({a} \cap (Auths \ Verification))
                             /\ SettledAmount' = SettledAmount + m
  <2>1. /\ booked[t] = "none" /\ booked' = [booked EXCEPT ![t] = what]
        /\ booked \in [Txns -> {"none"} \cup Bookings]
    BY <1>1 DEF BookingOf, CardInv, MoneyState
  <2>2. CASE what # "capture"
    <3>1. Completed' = Completed
      BY <2>1, <2>2 DEF Completed
    <3>2. thisMonth' = thisMonth /\ retirement' = retirement
      BY <1>1, <2>2 DEF BookingOf, ShownOf
    <3> QED BY <2>2, <3>1, <3>2, SameAccounts
  <2>3. CASE what = "capture"
    <3>1. Completed' = Completed \cup ({a} \cap (Auths \ Verification))
      BY <1>1, <2>1, <2>3 DEF Completed
    <3>2. /\ thisMonth' = thisMonth \cup {t} /\ t \notin thisMonth /\ thisMonth \subseteq Txns
      BY <1>1, <2>1, <2>3 DEF BookingOf, CardInv, RowsInv, MoneyState
    <3>3. IsFiniteSet(thisMonth) /\ \A s \in thisMonth : Value[s] \in Nat
      BY <3>2, Facts, SetsAreFinite
    <3>4. Sum(Value, thisMonth') = Sum(Value, thisMonth) + Value[t]
      BY <1>1, <3>2, <3>3, SumAdds
    <3> QED BY <1>4, <2>3, <3>1, <3>4 DEF SettledAmount
  <2> QED BY <2>2, <2>3
<1>10. Limit(rules)' = Limit(rules)
  BY <1>1, SameAccounts DEF BookingOf
<1>11. what # "refund" => E!Uses(a, m)
  <2> HIDE DEF m
  <2> QED BY <1>4, <1>8 DEF E!Uses, Phases
<1>12. CASE what = "capture"
  <2>1. E!MayClose /\ (Cardinality(Completed') >= rules.usageLimit => Stage' # "open")
    BY <1>1, <1>12 DEF BookingOf, MayMark, E!MayClose, Stage, Retired
  <2>2. wallet' = wallet /\ card' = card
    BY <1>1, <1>12 DEF ShownOf
  <2>3. Limit(rules).uses = rules.usageLimit
    BY DEF Limit
  <2>4. m \in 1 .. hold[a]
    BY <1>1, <1>4, <1>12
  <2> HIDE DEF m
  <2>5. E!Capture(a, m)
    BY <1>6, <1>7, <1>9, <1>11, <1>12, <2>1, <2>2, <2>3, SameSizes DEF E!Capture, Taken, Returned
  <2>6. a \in Auths
    BY <1>1
  <2>7. E!EnvelopeNext
    <3>1. \E k \in 1 .. hold[a] : E!Capture(a, k)
      BY <2>4, <2>5 DEF E!Capture
    <3> QED BY <1>10, <2>6, <3>1 DEF E!EnvelopeNext
  <2> QED BY <1>5, <2>7
<1>13. CASE what \in {"reversal", "declined"}
  <2>1. wallet' = wallet /\ card' = card + m /\ auth[a].settled = 0 /\ auth[a].status = "HELD"
    BY <1>1, <1>13 DEF ShownOf, BookingOf
  <2>2. Stage # "closed" /\ Taken[a] = 0
    BY <1>1, <2>1 DEF CardInv, RetiredStaysEmpty, Held, Stage, Taken
  <2> HIDE DEF m
  <2>3. E!GiveBack(a, m)
    BY <1>6, <1>7, <1>9, <1>11, <1>13, <2>1, <2>2 DEF E!GiveBack, Taken, Returned
  <2>4. a \in Auths
    BY <1>1
  <2>5. E!EnvelopeNext
    BY <1>4, <1>10, <2>3, <2>4 DEF E!EnvelopeNext
  <2> QED BY <1>5, <2>5
<1>14. CASE what = "refund"
  <2>1. /\ Value[t] > 0 /\ row.refunded <= row.settled /\ n = hold[a]
        /\ row.settled = auth[a].settled + 0 /\ row.refunded = auth[a].refunded + Value[t]
    BY <1>1, <1>14 DEF ShownOf, BookingOf
  <2>2. Returned[a] + Value[t] <= Taken[a] /\ Value[t] \in 1 .. Taken[a]
    <3>1. auth[a].settled \in Nat /\ auth[a].refunded \in Nat
      BY <1>1 DEF AuthRow
    <3> QED BY <1>1, <2>1, <3>1 DEF Returned, Taken
  <2>3. hold' = hold
    BY <1>2, <1>4, <2>1
  <2>4. IF Stage = "open" THEN card' = card + Value[t] /\ wallet' = wallet
                          ELSE wallet' = wallet + Value[t] /\ card' = card
    BY <1>1, <1>14 DEF ShownOf, Stage, Retired
  <2>5. E!Refund(a, Value[t])
    BY <1>6, <1>7, <1>8, <1>9, <1>14, <2>2, <2>3, <2>4 DEF E!Refund, Taken, Returned, Phases
  <2>6. a \in Auths
    BY <1>1
  <2>7. E!EnvelopeNext
    BY <1>10, <2>2, <2>5, <2>6 DEF E!EnvelopeNext, Taken
  <2> QED BY <1>5, <2>7
<1> QED BY <1>12, <1>13, <1>14 DEF Bookings

\* A transaction of the owner, of Sudo's callback or of the clock.
LEMMA AuthorizeShows ==
    ASSUME CardInv, AnswerInv, CardInv', NEW a \in Auths, Authorize(a), rules' = rules
    PROVE  AnswerInv' /\ (E!EnvelopeNext \/ UNCHANGED Shown)
<1>1. auth[a].status = "none" /\ thisMonth' = thisMonth /\ code[a] # "00"
  BY DEF Authorize, AnswerInv
<1>2. ASSUME NEW s \in {"DECLINED", "AWAITING_APPROVAL"}, NEW c \in {"05", "51"}, SetAuth(a, s, c),
             UNCHANGED moneyVars, MayMark
      PROVE  AnswerInv' /\ (E!Close \/ UNCHANGED Shown)
  <2>1. \A b \in Auths : code'[b] = "00" <=> code[b] = "00"
    BY <1>1, <1>2 DEF SetAuth, CardInv, MoneyState
  <2>2. UNCHANGED <<Taken, Returned, Phases>> /\ AnswerInv'
    BY <1>1, <1>2, <2>1, StatusShows DEF SetAuth
  <2> QED BY <1>1, <1>2, <2>2, HiddenSteps
<1>3. ASSUME NEW c \in {"05", "51"}, Decline(a, c)
      PROVE  AnswerInv' /\ (E!Close \/ UNCHANGED Shown)
  <2>1. MayMark
    BY <1>3 DEF Decline, Mark, Retired, MayMark, CardInv, MoneyState
  <2> QED BY <1>2, <1>3, <2>1 DEF Decline
<1>4. CASE Ask(a)
  BY <1>2, <1>4 DEF Ask, MayMark, E!EnvelopeNext
<1>5. ASSUME NEW used \in SUBSET Grants(a), ~Declinable(a), ~(card < Amount[a]),
             Approve00(a, used)
      PROVE  AnswerInv' /\ (E!Reserve(a) \/ E!Verify(a))
  BY <1>1, <1>5, ApproveShows
<1>6. Limit(rules)' = Limit(rules)
  BY SameAccounts
<1>7. \/ \E c \in {"05", "51"} : Decline(a, c)
      \/ Ask(a)
      \/ ~Declinable(a) /\ ~(card < Amount[a]) /\ \E used \in SUBSET Grants(a) : Approve00(a, used)
  <2>1. {} \in SUBSET Grants(a) /\ \A g \in Grants(a) : {g} \in SUBSET Grants(a)
    OBVIOUS
  <2> QED BY <2>1 DEF Authorize
<1>8. AnswerInv' /\ (E!Close \/ E!Reserve(a) \/ E!Verify(a) \/ UNCHANGED Shown)
  BY <1>2, <1>3, <1>5, <1>7 DEF Ask, MayMark
<1> QED BY <1>6, <1>8 DEF E!EnvelopeNext

LEMMA AnswerShows ==
    ASSUME CardInv, AnswerInv, NEW a \in Auths, OwnerApproves(a) \/ OwnerDeclines(a), rules' = rules
    PROVE  AnswerInv' /\ UNCHANGED Shown
<1>1. PICK s \in {"DECLINED", "AWAITING_APPROVAL", "RETRY_APPROVED"} : Answer(a, s)
  BY DEF OwnerApproves, OwnerDeclines
<1>2. UNCHANGED <<Taken, Returned, Phases>> /\ AnswerInv'
  BY <1>1, StatusShows DEF Answer
<1>3. UNCHANGED <<moneyVars, thisMonth, retirement>>
  BY <1>1 DEF Answer
<1> QED BY <1>2, <1>3, SameAccounts DEF Shown, moneyVars

LEMMA StepShows ==
    ASSUME CardInv, QueueInv, AnswerInv, CardInv', CardStep(Auths, Txns, Runs), rules' = rules
    PROVE  AnswerInv' /\ (E!EnvelopeNext \/ UNCHANGED Shown)
<1>1. Limit(rules)' = Limit(rules)
  BY SameAccounts
<1>2. ASSUME UNCHANGED <<auth, code, moneyVars, thisMonth>>, MayMark
      PROVE  AnswerInv' /\ (E!EnvelopeNext \/ UNCHANGED Shown)
  BY <1>1, <1>2, SameRows, HiddenSteps DEF E!EnvelopeNext
<1>3. CASE \E a \in Auths : Authorize(a) \/ OwnerApproves(a) \/ OwnerDeclines(a)
  BY <1>3, AuthorizeShows, AnswerShows
<1>4. CASE \/ \E a \in Auths : ApprovalExpires(a) \/ Hear(a)
           \/ \E t \in Txns : SudoPosts(t) \/ Receive(t) \/ AdminRetry(t)
           \/ \E r \in Runs, t \in Txns : Pick(r, t)
           \/ Retire \/ DeadlinePasses
  <2>1. UNCHANGED <<auth, code, moneyVars, thisMonth>> /\ MayMark
    BY <1>4 DEF ApprovalExpires, Hear, SudoPosts, Receive, AdminRetry, Pick, Retire, DeadlinePasses,
       Mark, Retired, MayMark
  <2> QED BY <1>2, <2>1
<1>5. CASE \E r \in Runs : EventStep(r)
  <2>1. PICK r \in Runs : EventStep(r)
    BY <1>5
  <2>2. CASE Fetch(r) \/ FetchFails(r) \/ RecordFailure(r) \/ Idles(r)
    BY <1>2, <2>2 DEF Fetch, FetchFails, RecordFailure, Idles, Skip, Commit, Throw, MayMark
  <2>3. CASE run[r].pc = "fetched" /\ Books(r)
    <3>1. run[r].txn \in Txns
      BY <2>3 DEF QueueInv
    <3> QED BY <2>3, <3>1, BookingShows DEF Books
  <2>4. ApplyZero(r) => Idles(r)
    BY DEF ApplyZero, Idles
  <2>5. ApplyCapture(r) \/ ApplyReversal(r) \/ ApplyRefund(r) \/ ApplyDecline(r) =>
          run[r].pc = "fetched" /\ (Idles(r) \/ Books(r))
    BY CaptureBooks, ReversalBooks, RefundBooks, DeclineBooks DEF ApplyCapture, ApplyReversal,
       ApplyRefund, ApplyDecline, Applying
  <2> QED BY <2>1, <2>2, <2>3, <2>4, <2>5 DEF EventStep
<1>6. CASE Allocate \/ Return \/ NewMonth \/ FinishRetirement
  <2>1. AnswerInv'
    BY <1>6, SameRows DEF Allocate, Return, NewMonth, FinishRetirement
  <2>2. E!Fill \/ E!NewMonth \/ E!Empty
    BY <1>6, FillShows, MonthShows, FinishShows
  <2> QED BY <1>1, <2>1, <2>2 DEF E!EnvelopeNext
<1> QED BY <1>3, <1>4, <1>5, <1>6 DEF CardStep

LEMMA StartsEmpty == Init => AnswerInv /\ E!EnvelopeInit
<1> SUFFICES ASSUME Init PROVE AnswerInv /\ E!EnvelopeInit
  OBVIOUS
<1>1. \A a \in Auths : /\ auth[a].settled = 0 /\ auth[a].refunded = 0 /\ auth[a].status = "none"
                       /\ code[a] = "none"
  BY DEF Init, NoAuth
<1>2. AnswerInv /\ \A a \in Auths : Phase(a) = "none"
  BY <1>1 DEF AnswerInv, Phase
<1>3. Completed = {} /\ SettledAmount = 0 /\ Stage = "open"
  BY SumEmpty DEF Init, Completed, SettledAmount, Stage, Retired
<1> QED BY <1>1, <1>2, <1>3 DEF Init, E!EnvelopeInit

\* Authorizations, webhooks in any order, approvals, commands and the retirement together keep
\* the promise of Envelope, for every number of requests, transactions and event runs: money
\* leaves the card only within budget and uses, is captured or comes back, and a retired card
\* is emptied once (FinanceAuthorizations, FinanceEvents, FinanceRetirement).
THEOREM EnvelopeIsKept == Spec => ImplementsEnvelope
<1>1. (CardInv /\ QueueInv /\ AnswerInv) /\ (CardInv /\ QueueInv)' /\ [Next]_vars =>
        AnswerInv' /\ [E!EnvelopeNext]_E!envelopeVars
  <2> SUFFICES ASSUME CardInv, QueueInv, AnswerInv, CardInv', [Next]_vars
               PROVE  AnswerInv' /\ [E!EnvelopeNext]_E!envelopeVars
    OBVIOUS
  <2>1. CASE Next
    BY <2>1, StepShows DEF Next, E!envelopeVars, Shown, Taken, Returned, Phases
  <2>2. CASE UNCHANGED vars
    <3>1. AnswerInv' /\ UNCHANGED Shown
      BY <2>2, SameRows, SameAccounts DEF vars, moneyVars, Shown
    <3> QED BY <3>1 DEF E!envelopeVars, Shown, Taken, Returned, Phases
  <2> QED BY <2>1, <2>2
<1> QED BY <1>1, StartsEmpty, CardInvariant, PTL DEF Spec, ImplementsEnvelope, E!EnvelopeSpec
===============================================================================
