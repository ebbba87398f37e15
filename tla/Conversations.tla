---------------------------- MODULE Conversations ----------------------------
(***************************************************************************)
(* One chat of a user with the AI agent: replies, which are asked for more *)
(* than once at a time, and the user's decisions on the items they offer.  *)
(* An item may name a purchase approval; two replies may name the same     *)
(* one.  respond and decide write under the chat's row lock.  A reply      *)
(* carries one item here.                                                  *)
(***************************************************************************)
EXTENDS Integers, FiniteSets

CONSTANTS
    Questions,  \* messages of the user
    Calls,      \* respond requests in progress
    Approvals   \* purchase approvals of the chat's transactions

VARIABLES
    chat,      \* "none", "open", "deleted"
    asked,     \* the user's messages in the chat
    replies,   \* replies[q]: assistant messages that reply to q
    item,      \* item[q]: the item of the reply: its decision and approval
    approval,  \* approval[a]: status, and whether the quote has changed
    call       \* call[r]: the message a respond waits for the agent with

conversationVars == <<chat, asked, replies, item, approval, call>>

NoItem == [decision |-> "PENDING", approval |-> {}]
Verdicts == {"APPROVED", "DECLINED"}

ConversationTypeOK ==
    /\ chat \in {"none", "open", "deleted"} /\ asked \subseteq Questions
    /\ replies \in [Questions -> Nat]
    /\ item \in [Questions -> [decision : {"PENDING"} \cup Verdicts,
                               approval : {{}} \cup {{a} : a \in Approvals}]]
    /\ approval \in [Approvals -> [status : {"PENDING"} \cup Verdicts, changed : BOOLEAN]]
    /\ call \in [Calls -> {{}} \cup {{q} : q \in Questions}]
    /\ chat # "open" => asked = {} /\ \A q \in Questions : replies[q] = 0

ConversationInit ==
    /\ chat = "none" /\ asked = {} /\ replies = [q \in Questions |-> 0]
    /\ item = [q \in Questions |-> NoItem]
    /\ approval = [a \in Approvals |-> [status |-> "PENDING", changed |-> FALSE]]
    /\ call = [r \in Calls |-> {}]

CreateChat ==
    /\ chat = "none" /\ chat' = "open"
    /\ UNCHANGED <<asked, replies, item, approval, call>>

CreateMessage(q) ==
    /\ chat = "open" /\ q \notin asked /\ asked' = asked \cup {q}
    /\ UNCHANGED <<chat, replies, item, approval, call>>

\* The chat's messages go with it; the approvals belong to the transactions.
RemoveChat ==
    /\ chat = "open" /\ chat' = "deleted" /\ asked' = {}
    /\ replies' = [q \in Questions |-> 0] /\ item' = [q \in Questions |-> NoItem]
    /\ UNCHANGED <<approval, call>>

(***************************************************************************)
(* respond: the first look at the messages, the agent, the transaction.    *)
(***************************************************************************)
Respond(r, q) ==
    /\ chat = "open" /\ call[r] = {} /\ q \in asked /\ replies[q] = 0
    /\ call' = [call EXCEPT ![r] = {q}]
    /\ UNCHANGED <<chat, asked, replies, item, approval>>

UnansweredStill(q) == chat = "open" /\ replies[q] = 0

\* The agent answered with an item; another call's reply wins over it.
PersistReply(r, approvals) ==
    /\ call[r] # {} /\ call' = [call EXCEPT ![r] = {}]
    /\ LET new == {q \in call[r] : UnansweredStill(q)} IN
       /\ replies' = [q \in Questions |-> replies[q] + IF q \in new THEN 1 ELSE 0]
       /\ item' = [q \in Questions |-> IF q \in new
                     THEN [NoItem EXCEPT !.approval = approvals] ELSE item[q]]
    /\ UNCHANGED <<chat, asked, approval>>

\* The agent fails, or answers with what is not a valid reply.
AgentFails(r) ==
    /\ call[r] # {} /\ call' = [call EXCEPT ![r] = {}]
    /\ UNCHANGED <<chat, asked, replies, item, approval>>

(***************************************************************************)
(* decide.                                                                 *)
(***************************************************************************)
\* Mutant: what was decided through another item is not looked at.
Agrees(a, verdict) == TRUE
AgreesWithApproval(a, verdict) == approval[a].status \in {"PENDING", verdict}

Decide(q, verdict) ==
    /\ chat = "open" /\ replies[q] > 0 /\ item[q].decision = "PENDING"
    /\ verdict = "APPROVED" => item[q].approval # {}
    /\ \A a \in item[q].approval : ~approval[a].changed /\ AgreesWithApproval(a, verdict)
    /\ approval' = [a \in Approvals |->
                      IF a \in item[q].approval /\ approval[a].status = "PENDING"
                      THEN [approval[a] EXCEPT !.status = verdict] ELSE approval[a]]
    /\ item' = [item EXCEPT ![q].decision = verdict]
    /\ UNCHANGED <<chat, asked, replies, call>>

\* The transaction's amount is no longer the item's.
QuoteChanges(a) ==
    /\ ~approval[a].changed /\ approval' = [approval EXCEPT ![a].changed = TRUE]
    /\ UNCHANGED <<chat, asked, replies, item, call>>

ConversationNext ==
    \/ CreateChat \/ RemoveChat
    \/ \E q \in Questions :
         \/ CreateMessage(q)
         \/ \E r \in Calls : Respond(r, q)
         \/ \E verdict \in Verdicts : Decide(q, verdict)
    \/ \E r \in Calls : \/ AgentFails(r) \/ PersistReply(r, {})
                        \/ \E a \in Approvals : PersistReply(r, {a})
    \/ \E a \in Approvals : QuoteChanges(a)

ConversationSpec == ConversationInit /\ [][ConversationNext]_conversationVars

(***************************************************************************)
(* Properties.                                                             *)
(***************************************************************************)
\* "Recheck under a row lock so retries/concurrent calls persist one reply"
\* (chat-replies.service.ts:85), and an item or a purchase that has a decision keeps it
\* (lines 122-125 and 148-149): a message has at most one reply however often it was asked
\* for, its decision is the purchase's, and neither is ever revised while the chat exists.
DecisionsAgree ==
    [][/\ \A q \in Questions :
            /\ replies'[q] <= 1
            /\ item[q].decision # "PENDING" /\ chat' = "open" => item'[q] = item[q]
            /\ item'[q].decision # "PENDING" =>
                 \A a \in item'[q].approval : approval'[a].status = item'[q].decision
       /\ \A a \in Approvals : approval[a].status \in {"PENDING", approval'[a].status}]_conversationVars
===============================================================================
