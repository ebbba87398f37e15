-------------------------------- MODULE Helpdesk --------------------------------
(***************************************************************************)
(* One user's support tickets, the request to delete the account, and the  *)
(* passcode that guards it.  The user's requests lock a row and write in   *)
(* the same transaction; those of the administrators read first and write  *)
(* later.  The passcode is read, compared and written back in three steps. *)
(* A ticket the user titles like a deletion request is left out.           *)
(***************************************************************************)
EXTENDS Integers, FiniteSets

CONSTANTS
    Tickets,      \* tickets that can be raised
    Desks,        \* requests in progress
    Helpers,      \* those of them that may be an administrator's
    MaxAttempts,  \* wrong passcodes before it locks
    MaxMessages   \* bound: messages of the user in one ticket, after the first

ASSUME HelpdeskAssumption ==
    Helpers \subseteq Desks /\ MaxAttempts \in Nat \ {0} /\ MaxMessages \in Nat

VARIABLES
    ticket,    \* ticket[t]: what it is, its status, whether a request was opened again,
               \* the user's messages after the first
    passcode,  \* failed attempts, and the lock: "none", "locked", "over"
    clear,     \* neither funds, nor anything pending, nor a running subscription
    desk       \* desk[d]: where the request is, its ticket, and what it has read

helpdeskVars == <<ticket, passcode, clear, desk>>

Statuses == {"OPEN", "PENDING", "RESOLVED"}
Unraised == [kind |-> "none", status |-> "OPEN", reopened |-> FALSE, said |-> 0]
NoSecret == [set |-> FALSE, failed |-> 0, lock |-> "none"]
AtDesk == [pc |-> "idle", purpose |-> "none", on |-> {}, live |-> FALSE, status |-> "OPEN",
           secret |-> NoSecret]

Secrets == [set : BOOLEAN, failed : 0..MaxAttempts, lock : {"none", "locked", "over"}]

HelpdeskTypeOK ==
    /\ ticket \in [Tickets -> [kind : {"none", "support", "deletion"}, status : Statuses,
                               reopened : BOOLEAN, said : 0..MaxMessages]]
    /\ passcode \in Secrets /\ clear \in BOOLEAN
    /\ desk \in [Desks -> [pc : {"idle", "guess", "proved", "profile", "looked", "reply", "answer", "status"},
                           purpose : {"none", "delete", "change"}, on : {{}} \cup {{t} : t \in Tickets},
                           live : BOOLEAN, status : Statuses, secret : Secrets]]

HelpdeskInit ==
    /\ ticket = [t \in Tickets |-> Unraised] /\ passcode = NoSecret
    /\ clear \in BOOLEAN /\ desk = [d \in Desks |-> AtDesk]

Leaves(d) == desk' = [desk EXCEPT ![d] = AtDesk]

(***************************************************************************)
(* The passcode.                                                           *)
(***************************************************************************)
CreatePasscode ==
    /\ ~passcode.set /\ passcode' = [passcode EXCEPT !.set = TRUE]
    /\ UNCHANGED <<ticket, clear, desk>>

\* A locked passcode is not even compared.
GetOwned(d, purpose) ==
    /\ desk[d].pc = "idle" /\ passcode.set /\ passcode.lock # "locked"
    /\ desk' = [desk EXCEPT ![d] = [AtDesk EXCEPT !.pc = "guess", !.purpose = purpose, !.secret = passcode]]
    /\ UNCHANGED <<ticket, passcode, clear>>

VerifyRight(d) ==
    /\ desk[d].pc = "guess" /\ desk' = [desk EXCEPT ![d].pc = "proved", ![d].secret = NoSecret]
    /\ LET saw == desk[d].secret IN
       passcode' = IF saw.failed > 0 \/ saw.lock # "none"
                   THEN [passcode EXCEPT !.failed = 0, !.lock = "none"] ELSE passcode
    /\ UNCHANGED <<ticket, clear>>

\* Counted from what was read.
VerifyWrong(d) ==
    /\ desk[d].pc = "guess" /\ Leaves(d)
    /\ LET locks == desk[d].secret.failed + 1 >= MaxAttempts IN
       passcode' = [passcode EXCEPT !.failed = IF locks THEN 0 ELSE desk[d].secret.failed + 1,
                                    !.lock = IF locks THEN "locked" ELSE "none"]
    /\ UNCHANGED <<ticket, clear>>

UpdatePasscode(d) ==
    /\ desk[d].pc = "proved" /\ desk[d].purpose = "change" /\ Leaves(d)
    /\ passcode' = [passcode EXCEPT !.failed = 0, !.lock = "none"]
    /\ UNCHANGED <<ticket, clear>>

LockIsOver ==
    /\ passcode.lock = "locked" /\ passcode' = [passcode EXCEPT !.lock = "over"]
    /\ UNCHANGED <<ticket, clear, desk>>

(***************************************************************************)
(* deletionRequest: one transaction under the profile's row lock.          *)
(***************************************************************************)
LiveRequests == {t \in Tickets : ticket[t].kind = "deletion" /\ ticket[t].status # "RESOLVED"}
ClosedRequests == {t \in Tickets : ticket[t].kind = "deletion" /\ ticket[t].status = "RESOLVED"}

\* Mutant: nobody waits.
ProfileUnlocked == TRUE
ProfileFree == \A d \in Desks : desk[d].pc \notin {"profile", "looked"}

LockProfile(d) ==
    /\ desk[d].pc = "proved" /\ desk[d].purpose = "delete" /\ ProfileFree
    /\ desk' = [desk EXCEPT ![d].pc = "profile"]
    /\ UNCHANGED <<ticket, passcode, clear>>

RefuseDeletion(d) ==
    /\ desk[d].pc = "profile" /\ ~clear /\ Leaves(d)
    /\ UNCHANGED <<ticket, passcode, clear>>

LookForRequest(d) ==
    /\ desk[d].pc = "profile" /\ clear
    /\ desk' = [desk EXCEPT ![d].pc = "looked", ![d].live = LiveRequests # {}]
    /\ UNCHANGED <<ticket, passcode, clear>>

DeletionRequest(d, t) ==
    /\ desk[d].pc = "looked" /\ ~desk[d].live /\ ticket[t].kind = "none" /\ Leaves(d)
    /\ ticket' = [ticket EXCEPT ![t].kind = "deletion"]
    /\ UNCHANGED <<passcode, clear>>

AnswerExisting(d) ==
    /\ desk[d].pc = "looked" /\ desk[d].live /\ Leaves(d)
    /\ UNCHANGED <<ticket, passcode, clear>>

\* Deposits, purchases and orders come and go.
ObligationsChange == clear' = ~clear /\ UNCHANGED <<ticket, passcode, desk>>

(***************************************************************************)
(* Tickets.                                                                *)
(***************************************************************************)
\* support, and an administrator's create.
Support(t) ==
    /\ ticket[t].kind = "none" /\ ticket' = [ticket EXCEPT ![t].kind = "support"]
    /\ UNCHANGED <<passcode, clear, desk>>

\* An administrator raises one on the user's behalf: the same row.
RaiseForUser(t) == Support(t)

TicketFree(t) == \A d \in Desks : desk[d].pc = "reply" => t \notin desk[d].on

LockTicket(d, t) ==
    /\ desk[d].pc = "idle" /\ ticket[t].kind # "none" /\ TicketFree(t)
    /\ ticket[t].said < MaxMessages
    /\ desk' = [desk EXCEPT ![d].pc = "reply", ![d].on = {t}, ![d].status = ticket[t].status]
    /\ UNCHANGED <<ticket, passcode, clear>>

Reply(d, t) ==
    /\ desk[d].pc = "reply" /\ t \in desk[d].on /\ Leaves(d)
    /\ ticket' = [ticket EXCEPT ![t].said = @ + IF desk[d].status = "RESOLVED" THEN 0 ELSE 1]
    /\ UNCHANGED <<passcode, clear>>

\* An administrator's reply looks at the status before its transaction; its message is
\* not among those the model counts.
ReadTicket(d, t) ==
    /\ d \in Helpers /\ desk[d].pc = "idle" /\ ticket[t].kind # "none"
    /\ ticket[t].status # "RESOLVED"
    /\ desk' = [desk EXCEPT ![d].pc = "answer", ![d].on = {t}]
    /\ UNCHANGED <<ticket, passcode, clear>>

ReplyAsSupport(d, t) ==
    /\ desk[d].pc = "answer" /\ t \in desk[d].on /\ TicketFree(t) /\ Leaves(d)
    /\ UNCHANGED <<ticket, passcode, clear>>

ChangeStatus(d, t, status) ==
    /\ d \in Helpers /\ desk[d].pc = "idle" /\ ticket[t].kind # "none" /\ ticket[t].status # status
    /\ desk' = [desk EXCEPT ![d].pc = "status", ![d].on = {t}, ![d].status = status]
    /\ UNCHANGED <<ticket, passcode, clear>>

WriteStatus(d, t) ==
    /\ desk[d].pc = "status" /\ t \in desk[d].on /\ TicketFree(t) /\ Leaves(d)
    /\ ticket' = [ticket EXCEPT ![t].status = desk[d].status,
                                ![t].reopened = @ \/ t \in ClosedRequests]
    /\ UNCHANGED <<passcode, clear>>

HelpdeskNext ==
    \/ CreatePasscode \/ LockIsOver \/ ObligationsChange
    \/ \E t \in Tickets : Support(t) \/ RaiseForUser(t)
    \/ \E d \in Desks :
         \/ \E purpose \in {"delete", "change"} : GetOwned(d, purpose)
         \/ VerifyRight(d) \/ VerifyWrong(d) \/ UpdatePasscode(d)
         \/ LockProfile(d) \/ RefuseDeletion(d) \/ LookForRequest(d) \/ AnswerExisting(d)
         \/ \E t \in Tickets :
              \/ DeletionRequest(d, t) \/ LockTicket(d, t) \/ Reply(d, t)
              \/ ReadTicket(d, t) \/ ReplyAsSupport(d, t) \/ WriteStatus(d, t)
              \/ \E status \in Statuses : ChangeStatus(d, t, status)

HelpdeskSpec == HelpdeskInit /\ [][HelpdeskNext]_helpdeskVars

(***************************************************************************)
(* Properties.                                                             *)
(***************************************************************************)
\* deletionRequest returns a request that is still open (profile-hub.service.ts:125-129) and
\* "Resolved tickets cannot receive new messages" (line 90): whoever asks at the same time,
\* one request for deletion is live, unless an administrator opened another one again, and
\* the user adds nothing to a ticket that an administrator has resolved.
RequestsAreSerial ==
    [][/\ Cardinality({t \in LiveRequests' : ~ticket'[t].reopened}) <= 1
       /\ \A t \in Tickets : ticket'[t].said > ticket[t].said => ticket[t].status # "RESOLVED"]_helpdeskVars
===============================================================================
