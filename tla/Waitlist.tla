-------------------------------- MODULE Waitlist --------------------------------
(***************************************************************************)
(* One address on the waiting list, joined by several submissions at a     *)
(* time.  The transaction inserts the row or, if it is there, fills what   *)
(* an older signup left empty, one statement per field; mails follow.      *)
(* A field is empty in rows from before the field was asked for.           *)
(***************************************************************************)
EXTENDS Integers, FiniteSets

CONSTANTS
    Submissions,  \* joinWaitlist requests; each brings details of its own
    Fields        \* firstName, lastName, phone

VARIABLES
    signup,      \* signup[f]: whose detail is saved: {s}, {"earlier"}, or {} for empty
    saved,       \* the row: "none", "there"
    uncommitted, \* uncommitted[s]: what the transaction of s has written
    submission,  \* submission[s]: where it is, and the fields it has gone through
    mails        \* the confirmations and the announcements that were sent

waitlistVars == <<signup, saved, uncommitted, submission, mails>>

Owners == {{}, {"earlier"}} \cup {{s} : s \in Submissions}

WaitlistTypeOK ==
    /\ signup \in [Fields -> Owners] /\ saved \in {"none", "there"}
    /\ \A s \in Submissions : DOMAIN uncommitted[s] \subseteq Fields
    /\ submission \in [Submissions -> [pc : {"new", "inserted", "filling", "joined", "again", "announce", "done"},
                                       todo : SUBSET Fields]]
    /\ mails \subseteq ({"confirmation", "announcement"} \X Submissions)

WaitlistInit ==
    /\ \/ saved = "none" /\ signup = [f \in Fields |-> {}]
       \/ saved = "there" /\ signup \in [Fields -> {{}, {"earlier"}}]
    /\ uncommitted = [s \in Submissions |-> <<>>]
    /\ submission = [s \in Submissions |-> [pc |-> "new", todo |-> Fields]] /\ mails = {}

\* Whoever has written the row holds it until the end of the transaction.
SignupFree(s) == \A u \in Submissions \ {s} : uncommitted[u] = <<>>

\* createMany with skipDuplicates, which waits for another insertion of the address.
InsertSignup(s) ==
    /\ submission[s].pc = "new" /\ \A u \in Submissions : submission[u].pc # "inserted"
    /\ submission' = [submission EXCEPT ![s].pc = IF saved = "none" THEN "inserted" ELSE "filling"]
    /\ uncommitted' = [uncommitted EXCEPT ![s] = IF saved = "none" THEN [f \in Fields |-> {s}] ELSE <<>>]
    /\ UNCHANGED <<signup, saved, mails>>

\* Mutant: the field is filled whatever is in it.
FillsAny(s, f) == TRUE
Fills(s, f) == signup[f] = {}

FillField(s, f) ==
    /\ submission[s].pc = "filling" /\ f \in submission[s].todo /\ SignupFree(s)
    /\ submission' = [submission EXCEPT ![s].todo = @ \ {f}]
    /\ uncommitted' = [uncommitted EXCEPT ![s] =
         IF Fills(s, f) THEN [g \in DOMAIN @ \cup {f} |-> IF g = f THEN {s} ELSE @[g]] ELSE @]
    /\ UNCHANGED <<signup, saved, mails>>

CommitSignup(s) ==
    /\ submission[s].pc = "inserted" \/ (submission[s].pc = "filling" /\ submission[s].todo = {})
    /\ signup' = [f \in Fields |-> IF f \in DOMAIN uncommitted[s] THEN uncommitted[s][f] ELSE signup[f]]
    /\ saved' = "there" /\ uncommitted' = [uncommitted EXCEPT ![s] = <<>>]
    /\ submission' = [submission EXCEPT ![s].pc = IF @ = "inserted" THEN "joined" ELSE "again"]
    /\ UNCHANGED mails

\* A lost connection or a timeout; the visitor may submit again.
RollBack(s) ==
    /\ submission[s].pc \in {"inserted", "filling"}
    /\ submission' = [submission EXCEPT ![s] = [pc |-> "new", todo |-> Fields]]
    /\ uncommitted' = [uncommitted EXCEPT ![s] = <<>>]
    /\ UNCHANGED <<signup, saved, mails>>

\* The mail may fail, which changes nothing else.
ConfirmWaitlist(s, sent) ==
    /\ submission[s].pc \in {"joined", "again"}
    /\ submission' = [submission EXCEPT ![s].pc = IF @ = "joined" THEN "announce" ELSE "done"]
    /\ mails' = mails \cup IF sent THEN {<<"confirmation", s>>} ELSE {}
    /\ UNCHANGED <<signup, saved, uncommitted>>

NotifyInbox(s, sent) ==
    /\ submission[s].pc = "announce" /\ submission' = [submission EXCEPT ![s].pc = "done"]
    /\ mails' = mails \cup IF sent THEN {<<"announcement", s>>} ELSE {}
    /\ UNCHANGED <<signup, saved, uncommitted>>

WaitlistNext ==
    \E s \in Submissions :
      \/ InsertSignup(s) \/ CommitSignup(s) \/ RollBack(s)
      \/ \E f \in Fields : FillField(s, f)
      \/ \E sent \in BOOLEAN : ConfirmWaitlist(s, sent) \/ NotifyInbox(s, sent)

WaitlistSpec == WaitlistInit /\ [][WaitlistNext]_waitlistVars

(***************************************************************************)
(* Properties.                                                             *)
(***************************************************************************)
\* "A unique-email insert and conditional updates keep concurrent submissions idempotent and
\* prevent a repeat signup from replacing saved details" (marketing.service.ts:43-44): a
\* detail that is saved stays, and a new signup is announced once and is the announcer's own.
SavedDetailsStay ==
    [][/\ \A f \in Fields : signup[f] # {} => signup'[f] = signup[f]
       /\ \A s, u \in Submissions :
            <<"announcement", s>> \in mails' =>
              /\ <<"announcement", u>> \in mails' => u = s
              /\ \A f \in Fields : signup'[f] = {s}]_waitlistVars
===============================================================================
