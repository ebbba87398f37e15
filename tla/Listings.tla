------------------------------- MODULE Listings -------------------------------
(***************************************************************************)
(* The paged lists.  Each builds a Prisma where by spreading objects, the  *)
(* later over the earlier: what the caller may see, the filter, the badge  *)
(* asked for, the search text.  Some show a badge that is derived once     *)
(* more, row by row, after the query.                                      *)
(*                                                                         *)
(* Conditions and badges look at one row at a time, so one row of the      *)
(* listed table stands for all; it changes between query and view.  A      *)
(* column has the value "this", which the caller has or asks for, or       *)
(* "that", unless the badge depends on it; column "text" says whether the  *)
(* search text occurs in the searched columns.  Pages and order are left   *)
(* out.                                                                    *)
(***************************************************************************)
EXTENDS Integers, FiniteSets

CONSTANT MaxRowChanges  \* bound: changes of the row

ASSUME ListingAssumption == MaxRowChanges \in Nat

VARIABLES
    listed,   \* the list
    row,      \* a row of its table
    page,     \* the request, the row as the query found it and the badge shown
    rowChanges \* changes of the row so far

listingVars == <<listed, row, page, rowChanges>>

(***************************************************************************)
(* The lists.  scope: columns fixed by the caller; fields: what a filter   *)
(* may name; parent: the chat or card in the path must be the caller's.    *)
(***************************************************************************)
Listing(scope, fields, parent, searched) ==
    [scope |-> scope, fields |-> fields, parent |-> parent, searched |-> searched]

TransactionList == Listing({"userId", "live"}, {"status", "type", "approvalStatus", "currency",
                                               "frequency", "isRecurring", "thresholdWarning"}, FALSE, TRUE)
CardTransactionList == Listing({"userId", "cardId", "live"},
                               {"status", "type", "approvalStatus", "currency"}, TRUE, TRUE)
ChatList == Listing({"userId"}, {}, FALSE, TRUE)
MessageList == Listing({"chatId"}, {"role"}, TRUE, TRUE)
NotificationList == Listing({"userId"}, {"status", "type"}, FALSE, TRUE)
AuditList == Listing({"userId"}, {"action", "entityType"}, FALSE, TRUE)
DeviceList == Listing({"userId"}, {"biometricType", "isActive"}, FALSE, TRUE)
ThresholdList == Listing({"userId"}, {"thresholdType", "isActive"}, FALSE, FALSE)
CardList == Listing({"userId"}, {"cardType", "status", "expirationType"}, FALSE, TRUE)
ApprovalList == Listing({"userId"}, {}, FALSE, TRUE)
PaymentList == Listing({}, {"type", "status", "approvalStatus", "thresholdWarning", "isRecurring"}, FALSE, TRUE)
TicketList == Listing({}, {}, FALSE, TRUE)
UserList == Listing({}, {"emailVerified", "phoneVerified"}, FALSE, TRUE)

Lists == [transactions |-> TransactionList, cardTransactions |-> CardTransactionList, chats |-> ChatList,
          messages |-> MessageList, notifications |-> NotificationList, audit |-> AuditList,
          devices |-> DeviceList, thresholds |-> ThresholdList, cards |-> CardList,
          approvals |-> ApprovalList, payments |-> PaymentList, tickets |-> TicketList, users |-> UserList]

ColumnsOf(l) == l.scope \cup l.fields \cup {"text"}
Either == {"this", "that"}

\* A row as it is created: a card as ISSUE writes it, an approval as authorize records it; a user as
\* registration leaves it; of the others, those that differ from what the caller has or asks for
\* in at most two columns.
RowsOf(name) ==
    CASE name = "cards" -> [userId : Either, cardType : {"this"}, expirationType : {"this"}, text : Either,
                            status : {"PAUSED"}, retired : {FALSE}, due : {FALSE}, usedUp : {FALSE},
                            valid : BOOLEAN, bound : BOOLEAN, reserved : {FALSE}, overspent : {FALSE}]
      [] name = "approvals" -> [userId : Either, text : Either, lapsed : {FALSE},
                                status : {"HELD", "AWAITING_APPROVAL", "DECLINED"}]
      [] name = "payments" -> [type : {"this"}, isRecurring : {"this"}, text : Either, status : {"PENDING"},
                               approvalStatus : {"PENDING", "APPROVED", "DECLINED"}, thresholdWarning : BOOLEAN]
      [] name = "tickets" -> [text : Either, status : {"OPEN"}]
      [] name = "users" -> {r \in [text : Either, emailVerified : BOOLEAN, phoneVerified : BOOLEAN, onboarded : BOOLEAN,
                                   account : BOOLEAN, active : BOOLEAN] :
                             (r.onboarded => r.account) /\ (r.account => r.emailVerified) /\ r.active = r.account}
      [] OTHER -> {r \in [ColumnsOf(Lists[name]) -> Either] :
                     Cardinality({column \in DOMAIN r : r[column] = "that"}) <= 2}

(***************************************************************************)
(* The where of a request.  A condition is its truth for the row.          *)
(***************************************************************************)
Nothing == [key \in {} |-> TRUE]
Only(key, condition) == [k \in {key} |-> condition]
Spread(left, right) ==
    [key \in DOMAIN left \cup DOMAIN right |-> IF key \in DOMAIN right THEN right[key] ELSE left[key]]
Own(l) == [column \in l.scope |-> row[column] = "this"]
FilterWhere(req) == IF req.field = "none" THEN Nothing ELSE Only(req.field, row[req.field] = req.value)
SearchWhere(req) ==
    IF ~req.text THEN Nothing ELSE Only(IF listed = "approvals" THEN "merchantName" ELSE "OR", row.text = "this")

\* Mutant: a card past its deadline is still listed as active or paused.
CardStateWhereUndated(badge) ==
    CASE badge = "none" -> Nothing
      [] badge = "RETIRED" -> Only("OR", row.retired \/ row.status = "CANCELLED" \/ row.due)
      [] badge = "EXPIRED" -> Only("OR", row.due)
      [] OTHER -> Only("AND", ~row.retired /\ row.status = badge)
CardStateWhere(badge) ==
    CASE badge = "none" -> Nothing
      [] badge = "RETIRED" -> Only("OR", row.retired \/ row.status = "CANCELLED" \/ row.due)
      [] badge = "EXPIRED" -> Only("OR", row.due)
      [] OTHER -> Only("AND", ~row.retired /\ ~row.due /\ row.status = badge)

ApprovalWhere(badge) ==
    CASE badge = "PENDING" -> Only("status", row.status = "AWAITING_APPROVAL")
      [] badge = "APPROVED" -> Only("OR", \/ row.status = "APPROVAL_USED"
                                          \/ row.status = "RETRY_APPROVED" /\ ~row.lapsed)
      [] badge = "DECLINED" -> Only("OR", \/ row.status = "DECLINED"
                                          \/ row.status = "RETRY_APPROVED" /\ row.lapsed)
      [] badge = "none" -> Only("status", row.status # "HELD")

UiStatusWhere(badge) ==
    LET unwarned == Only("thresholdWarning", ~row.thresholdWarning)
        undecided(approval) == Spread(Spread(unwarned, Only("status", row.status = "PENDING")),
                                      Only("approvalStatus", row.approvalStatus = approval))
        declined == row.status = "PENDING" /\ row.approvalStatus = "DECLINED"
    IN CASE badge = "none" -> Nothing
         [] badge = "completed" -> Spread(unwarned, Only("status", row.status = "SUCCESS"))
         [] badge = "processing" -> undecided("PENDING")
         [] badge = "pending" -> undecided("APPROVED")
         [] badge = "failed" -> Only("AND", row.status = "FAIL" \/ declined)
         [] badge = "flagged" -> Only("AND", row.thresholdWarning /\ row.status # "FAIL" /\ ~declined)

\* statusWhere; active stands for account and wallet, which change together.
UserStatusWhere(badge) ==
    CASE badge = "none" -> Nothing
      [] badge = "active" -> Only("AND", row.emailVerified /\ row.onboarded /\ row.account /\ row.active)
      [] badge = "suspended" -> Only("AND", row.account /\ ~row.active)
      [] badge = "pending" -> Only("AND", ~row.emailVerified \/ ~row.onboarded \/ ~row.account)

TicketStatusWhere(badge) == IF badge = "none" THEN Nothing ELSE Only("status", row.status = badge)

BadgeWhere(badge) ==
    CASE listed = "cards" -> CardStateWhere(badge) [] listed = "approvals" -> ApprovalWhere(badge)
      [] listed = "payments" -> UiStatusWhere(badge) [] listed = "users" -> UserStatusWhere(badge)
      [] listed = "tickets" -> TicketStatusWhere(badge) [] OTHER -> Nothing

\* The users' list joins its parts by AND, which is the same: none of their keys meet.
Where(req) == Spread(Spread(Spread(Own(Lists[listed]), FilterWhere(req)), BadgeWhere(req.badge)), SearchWhere(req))
Accepted(req) == LET l == Lists[listed] IN
    req.field \in l.fields \cup {"none"} /\ (req.text => l.searched) /\ (l.parent => req.parent)

(***************************************************************************)
(* The badge of a row that the query found as c, derived when it is now.   *)
(***************************************************************************)
CardBadge(c, now) == IF c.retired \/ now.due \/ now.usedUp THEN "RETIRED"
                     ELSE IF ~now.valid THEN "REVIEW" ELSE c.status

ApprovalBadge(c, now) == IF c.status = "AWAITING_APPROVAL" THEN "PENDING"
                         ELSE IF \/ c.status = "APPROVAL_USED"
                                 \/ c.status = "RETRY_APPROVED" /\ ~now.lapsed THEN "APPROVED" ELSE "DECLINED"

DeriveTxStatus(c) ==
    CASE c.status = "FAIL" -> "failed"
      [] c.status = "SUCCESS" -> IF c.thresholdWarning THEN "flagged" ELSE "completed"
      [] OTHER -> IF c.approvalStatus = "DECLINED" THEN "failed"
                  ELSE IF c.thresholdWarning THEN "flagged"
                  ELSE IF c.approvalStatus = "APPROVED" THEN "pending" ELSE "processing"

UserBadge(c) == IF c.account /\ ~c.active THEN "suspended"
                ELSE IF ~c.account \/ ~c.emailVerified \/ ~c.onboarded THEN "pending" ELSE "active"

Badge(c, now) ==
    CASE listed = "cards" -> CardBadge(c, now) [] listed = "approvals" -> ApprovalBadge(c, now)
      [] listed = "payments" -> DeriveTxStatus(c) [] listed = "users" -> UserBadge(c)
      [] listed = "tickets" -> c.status [] OTHER -> "none"

\* CardAccessService.cardStatus: why a card cannot be used.
Availability(c) ==
    IF c.retired \/ c.due \/ c.usedUp THEN "RETIRED"
    ELSE IF c.status = "CANCELLED" THEN "CLOSED"
    ELSE IF ~c.valid THEN "CONTROL_REVIEW"
    ELSE IF ~c.bound THEN "MERCHANT_SETUP"
    ELSE IF c.reserved THEN "USAGE_RESERVED"
    ELSE IF c.overspent THEN "BUDGET_LIMIT" ELSE "NONE"

\* GET finance/approvals: what waits for the owner or may still be retried.
OpenApproval(c) == c.status = "AWAITING_APPROVAL" \/ (c.status = "RETRY_APPROVED" /\ ~c.lapsed)

(***************************************************************************)
(* State.                                                                  *)
(***************************************************************************)
TicketStatuses == {"OPEN", "PENDING", "RESOLVED"}
BadgesOf(name) ==
    CASE name = "cards" -> {"none", "ACTIVE", "PAUSED", "RETIRED", "EXPIRED"}
      [] name = "approvals" -> {"none", "PENDING", "APPROVED", "DECLINED"}
      [] name = "payments" -> {"none", "completed", "processing", "pending", "failed", "flagged"}
      [] name = "tickets" -> {"none"} \cup TicketStatuses
      [] name = "users" -> {"none", "active", "suspended", "pending"}
      [] OTHER -> {"none"}
ValuesOf(column) ==
    CASE column = "none" -> {"this"}
      [] listed = "cards" /\ column = "status" -> {"ACTIVE", "PAUSED", "CANCELLED"}
      [] listed = "payments" /\ column = "status" -> {"PENDING", "SUCCESS", "FAIL"}
      [] column = "approvalStatus" /\ listed = "payments" -> {"PENDING", "APPROVED", "DECLINED"}
      [] column \in {"thresholdWarning", "emailVerified", "phoneVerified"} /\ listed \in {"payments", "users"} -> BOOLEAN
      [] OTHER -> Either
NoPage == [pc |-> "none", req |-> {}, copy |-> {}, badge |-> "none"]

ListingTypeOK ==
    /\ listed \in DOMAIN Lists /\ ColumnsOf(Lists[listed]) \subseteq DOMAIN row
    /\ page.pc \in {"none", "refused", "missed", "found", "shown"} /\ rowChanges \in 0 .. MaxRowChanges

ListingInit ==
    /\ listed \in DOMAIN Lists /\ row \in RowsOf(listed) /\ page = NoPage /\ rowChanges = 0

(***************************************************************************)
(* The request: the query, then the views of its rows.                     *)
(***************************************************************************)
Find(req) ==
    /\ page.pc = "none"
    /\ page' = IF ~Accepted(req) THEN [NoPage EXCEPT !.pc = "refused"]
               ELSE LET where == Where(req) IN
                    [NoPage EXCEPT !.pc = IF \A key \in DOMAIN where : where[key] THEN "found" ELSE "missed",
                                   !.req = {req}, !.copy = {row}]
    /\ UNCHANGED <<listed, row, rowChanges>>

Show ==
    /\ page.pc = "found"
    /\ page' = [page EXCEPT !.pc = "shown", !.badge = Badge(CHOOSE c \in page.copy : TRUE, row)]
    /\ UNCHANGED <<listed, row, rowChanges>>

(***************************************************************************)
(* What happens to the row.                                                *)
(***************************************************************************)
Becomes(name, next) ==
    /\ listed = name /\ rowChanges < MaxRowChanges /\ page.pc \in {"none", "found"}
    /\ row' = next /\ row' # row /\ rowChanges' = rowChanges + 1 /\ UNCHANGED <<listed, page>>

\* PAUSE, RESUME and CANCEL at their end; a failed ISSUE also cancels.
SwitchCard(status) ==
    /\ row.status # "CANCELLED" /\ (status = "ACTIVE" => ~row.retired)
    /\ Becomes("cards", [row EXCEPT !.status = status])
\* retirement.mark; the capture that uses the card up marks it in its transaction.
MarkRetired(used) == ~row.retired /\ Becomes("cards", [row EXCEPT !.retired = TRUE, !.usedUp = used])
DeadlinePasses == Becomes("cards", [row EXCEPT !.due = TRUE])
\* RULES writes valid controls; identities are bound to a merchant card later.
CorrectRules == ~row.retired /\ Becomes("cards", [row EXCEPT !.valid = TRUE, !.bound = TRUE])
\* Holds and captures take the uses and the budget, releases and the month give them back.
UseCard(reserved, overspent) == Becomes("cards", [row EXCEPT !.reserved = reserved, !.overspent = overspent])

DecideApproval(status) ==
    row.status = "AWAITING_APPROVAL" /\ Becomes("approvals", [row EXCEPT !.status = status])
SpendApproval ==
    row.status = "RETRY_APPROVED" /\ ~row.lapsed /\ Becomes("approvals", [row EXCEPT !.status = "APPROVAL_USED"])
\* Five minutes after the decision.
ApprovalLapses == row.status \notin {"HELD", "AWAITING_APPROVAL"} /\ Becomes("approvals", [row EXCEPT !.lapsed = TRUE])
SettlePayment(status) == row.status = "PENDING" /\ Becomes("payments", [row EXCEPT !.status = status])

ChangeTicket(status) == Becomes("tickets", [row EXCEPT !.status = status])

\* Verification opens the account; later the profile is completed, and an administrator suspends or
\* restores the user.
OpenUser == ~row.account /\ Becomes("users", [row EXCEPT !.emailVerified = TRUE, !.account = TRUE, !.active = TRUE])
OnboardUser == row.account /\ Becomes("users", [row EXCEPT !.onboarded = TRUE])
ToggleUser == row.account /\ Becomes("users", [row EXCEPT !.active = ~@])

CardChanges ==
    \/ \E status \in {"ACTIVE", "PAUSED", "CANCELLED"} : SwitchCard(status)
    \/ \E used \in BOOLEAN : MarkRetired(used)
    \/ DeadlinePasses \/ CorrectRules
    \/ \E reserved \in BOOLEAN, overspent \in BOOLEAN : UseCard(reserved, overspent)
ApprovalChanges ==
    \/ \E status \in {"RETRY_APPROVED", "DECLINED"} : DecideApproval(status)
    \/ SpendApproval \/ ApprovalLapses

ListingNext ==
    \/ \E field \in ColumnsOf(Lists[listed]) \cup {"none"}, badge \in BadgesOf(listed), text \in BOOLEAN,
          parent \in IF Lists[listed].parent THEN BOOLEAN ELSE {TRUE} :
         \E value \in ValuesOf(field) :
            Find([field |-> field, value |-> value, badge |-> badge, text |-> text, parent |-> parent])
    \/ Show
    \/ listed = "cards" /\ CardChanges
    \/ listed = "approvals" /\ ApprovalChanges
    \/ listed = "payments" /\ \E status \in {"SUCCESS", "FAIL"} : SettlePayment(status)
    \/ listed = "tickets" /\ \E status \in TicketStatuses : ChangeTicket(status)
    \/ listed = "users" /\ (OpenUser \/ OnboardUser \/ ToggleUser)

ListingSpec == ListingInit /\ [][ListingNext]_listingVars

(***************************************************************************)
(* Properties.                                                             *)
(***************************************************************************)
\* Controls out of order show as REVIEW, also on a closed card, which is listed as retired; the
\* pending users include suspended ones (StatusesAgree of Administration).
Fits(asked, shown) ==
    CASE asked = "none" -> TRUE
      [] asked \in {"ACTIVE", "PAUSED"} -> shown \in {asked, "REVIEW"}
      [] asked = "RETIRED" -> shown \in {"RETIRED", "CANCELLED", "REVIEW"}
      [] asked = "EXPIRED" -> shown = "RETIRED"
      [] asked = "pending" /\ listed = "users" -> shown \in {"pending", "suspended"}
      [] OTHER -> shown = asked

\* "A uiStatus filter returns precisely the rows that render with that badge"
\* (admin-console-transactions.service.ts:31-33), and so on every list: a page has only rows the
\* caller may see that satisfy filter and search, none it asks for is missing, and a row is shown
\* with the badge it was asked for unless it has changed since the query.  A key of the badge's
\* where replaces the filter's, and the search replaces the OR of the cards' deadlines.
\* List, badge and availability of a card, and both lists of approvals, tell the same of a row.
PageIsHonest ==
    /\ \A req \in page.req, c \in page.copy :
         LET l == Lists[listed]
             keys == DOMAIN BadgeWhere(req.badge)
             badgeKept == ~(req.text /\ "OR" \in keys /\ listed = "cards")
             inScope == (\A column \in l.scope : c[column] = "this") /\ (l.parent => req.parent)
             wanted == /\ req.field \notin keys \cup {"none"} => c[req.field] = req.value
                       /\ req.text => c.text = "this"
         IN /\ page.pc \in {"found", "shown"} =>
                 inScope /\ wanted /\ (badgeKept => Fits(req.badge, Badge(c, c)))
            /\ page.pc = "missed" =>
                 ~(/\ inScope /\ wanted
                   /\ req.badge # "none" => Badge(c, c) = req.badge
                   /\ listed = "approvals" => c.status # "HELD")
            /\ page.pc = "shown" => page.badge = Badge(c, c) \/ row # c
    /\ listed = "cards" => /\ (CardBadge(row, row) = "RETIRED") = (Availability(row) = "RETIRED")
                           /\ Availability(row) = "NONE" => CardBadge(row, row) = row.status
    /\ listed = "approvals" =>
         OpenApproval(row) = (ApprovalBadge(row, row) # "DECLINED" /\ row.status # "APPROVAL_USED")
===============================================================================
