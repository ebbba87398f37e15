------------------------------ MODULE Onboarding ------------------------------
(***************************************************************************)
(* How one e-mail address becomes a user: register, its e-mail code and    *)
(* verification, or an administrator's invitation and its acceptance.      *)
(* Every await of a handler ends a step: requests overlap, answers of the  *)
(* identity provider and e-mails get lost, the server stops half way.      *)
(***************************************************************************)
EXTENDS Integers, FiniteSets

CONSTANTS
    Visitors,    \* requests in progress
    Invites,     \* invitations of the address
    MaxCodes,    \* bound: e-mail codes generated
    MaxMishaps   \* bound: stops, lost answers, refused e-mails

ASSUME OnboardingAssumption == MaxCodes \in Nat /\ MaxMishaps \in Nat

VARIABLES
    identity,  \* the address at Supabase
    profile,   \* profiles.emailVerified, "none" without a row
    accounts,  \* accounts (each with its wallet) of the profile
    code,      \* otp_codes: the newest code of the user and whether it is used
    mailed,    \* codes that reached the mailbox
    tokens,    \* nonces of registration tokens, by the code they were sent with
    invite,    \* user_invites
    joined,    \* history: invitations through which the profile was made
    visit,     \* visit[r]: where a handler is, and its invitation or token
    mishaps

onboardingVars ==
    <<identity, profile, accounts, code, mailed, tokens, invite, joined, visit, mishaps>>

Codes == 1..MaxCodes
NoInvite == [made |-> FALSE, accepted |-> FALSE, revoked |-> FALSE, late |-> FALSE]
IdleVisit == [pc |-> "idle", invites |-> {}, code |-> 0, token |-> 0]

OnboardingTypeOK ==
    /\ identity \in {"none", "unconfirmed", "confirmed"}
    /\ profile \in {"none", "unverified", "verified"} /\ accounts \in Nat
    /\ code \in [n : 0..MaxCodes, used : BOOLEAN]
    /\ mailed \subseteq Codes /\ tokens \subseteq Codes
    /\ invite \in [Invites -> [made : BOOLEAN, accepted : BOOLEAN, revoked : BOOLEAN,
                               late : BOOLEAN]]
    /\ joined \subseteq Invites
    /\ visit \in [Visitors -> [pc : {"idle", "register", "generate", "send", "sign", "consumeCode",
                                     "confirm", "provision", "consumeToken", "void", "issue",
                                     "mail", "revoke", "claim", "signUp", "release", "join"},
                               invites : SUBSET Invites, code : 0..MaxCodes,
                               token : 0..MaxCodes]]
    /\ mishaps \in 0..MaxMishaps

OnboardingInit ==
    /\ identity = "none" /\ profile = "none" /\ accounts = 0
    /\ code = [n |-> 0, used |-> TRUE] /\ mailed = {} /\ tokens = {}
    /\ invite = [i \in Invites |-> NoInvite] /\ joined = {}
    /\ visit = [r \in Visitors |-> IdleVisit] /\ mishaps = 0

Visits(r, pc, invites) ==
    /\ visit[r].pc = "idle"
    /\ visit' = [visit EXCEPT ![r].pc = pc, ![r].invites = invites]
Goes(r, from, to) == visit[r].pc = from /\ visit' = [visit EXCEPT ![r].pc = to]
Ends(r, from) == visit[r].pc = from /\ visit' = [visit EXCEPT ![r] = IdleVisit]
Mishap == mishaps < MaxMishaps /\ mishaps' = mishaps + 1
Its(r) == visit[r].invites
UserUnchanged == UNCHANGED <<identity, profile, accounts>>
MailUnchanged == UNCHANGED <<code, mailed, tokens>>
InvitesUnchanged == UNCHANGED <<invite, joined>>

(***************************************************************************)
(* register and resendVerificationOtp.                                     *)
(***************************************************************************)
\* Supabase knows an address once.
SignUp(confirmed) ==
    identity = "none" /\ identity' = IF confirmed THEN "confirmed" ELSE "unconfirmed"

\* Supabase's answer may be lost after it made the user.
Register(r) ==
    /\ SignUp(FALSE)
    /\ \/ Visits(r, "register", {}) /\ UNCHANGED mishaps
       \/ visit[r].pc = "idle" /\ Mishap /\ UNCHANGED visit
    /\ MailUnchanged /\ InvitesUnchanged /\ UNCHANGED <<profile, accounts>>

CreateProfile(r) ==
    /\ Goes(r, "register", "generate") /\ profile = "none" /\ profile' = "unverified"
    /\ MailUnchanged /\ InvitesUnchanged /\ UNCHANGED <<identity, accounts, mishaps>>

Resend(r) ==
    /\ profile = "unverified" /\ Visits(r, "generate", {})
    /\ UserUnchanged /\ MailUnchanged /\ InvitesUnchanged /\ UNCHANGED mishaps

\* generateCode voids the earlier codes.
GenerateCode(r) ==
    /\ visit[r].pc = "generate" /\ code.n < MaxCodes
    /\ code' = [n |-> code.n + 1, used |-> FALSE]
    /\ visit' = [visit EXCEPT ![r].pc = "send", ![r].code = code.n + 1]
    /\ UserUnchanged /\ InvitesUnchanged /\ UNCHANGED <<mailed, tokens, mishaps>>

\* An unused code of the user is voided, whichever request made it.
Invalidate == code' = [code EXCEPT !.used = TRUE]

SendCode(r) ==
    /\ \/ Goes(r, "send", "sign") /\ mailed' = mailed \cup {visit[r].code}
          /\ UNCHANGED <<code, mishaps>>
       \/ Ends(r, "send") /\ Invalidate /\ Mishap /\ UNCHANGED mailed
    /\ UserUnchanged /\ InvitesUnchanged /\ UNCHANGED tokens

SignToken(r) ==
    /\ Ends(r, "sign") /\ tokens' = tokens \cup {visit[r].code}
    /\ UserUnchanged /\ InvitesUnchanged /\ UNCHANGED <<code, mailed, mishaps>>

TokenExpires(n) ==
    /\ n \in tokens /\ tokens' = tokens \ {n}
    /\ UserUnchanged /\ InvitesUnchanged /\ UNCHANGED <<code, mailed, visit, mishaps>>

(***************************************************************************)
(* verifyEmail: a token, and the newest unused code that was mailed.       *)
(***************************************************************************)
VerifyEmail(r, n) ==
    /\ n \in tokens /\ ~code.used /\ code.n \in mailed
    /\ visit[r].pc = "idle"
    /\ visit' = [visit EXCEPT ![r] = [pc |-> "consumeCode", invites |-> {},
                                      code |-> code.n, token |-> n]]
    /\ UserUnchanged /\ MailUnchanged /\ InvitesUnchanged /\ UNCHANGED mishaps

\* The row that matched is marked, though another request may have marked it as well.
ConsumeCode(r) ==
    /\ Goes(r, "consumeCode", "confirm")
    /\ code' = [code EXCEPT !.used = @ \/ code.n = visit[r].code]
    /\ UserUnchanged /\ InvitesUnchanged /\ UNCHANGED <<mailed, tokens, mishaps>>

\* PUT email_confirm.
ConfirmIdentity == identity' = "confirmed"

ConfirmEmail(r) ==
    /\ \/ Goes(r, "confirm", "provision") /\ ConfirmIdentity /\ UNCHANGED mishaps
       \/ Ends(r, "confirm") /\ Mishap /\ UNCHANGED identity
    /\ MailUnchanged /\ InvitesUnchanged /\ UNCHANGED <<profile, accounts>>

\* A transaction; the unique user of accounts makes a concurrent loser roll back.
OpenedOnce == IF accounts = 0 THEN 1 ELSE accounts

Provision(r) ==
    /\ \/ visit[r].token # 0 /\ Goes(r, "provision", "consumeToken")
       \/ visit[r].token = 0 /\ Ends(r, "provision")
    /\ profile' = "verified" /\ accounts' = OpenedOnce
    /\ MailUnchanged /\ InvitesUnchanged /\ UNCHANGED <<identity, mishaps>>

ConsumeToken(r) ==
    /\ Ends(r, "consumeToken") /\ tokens' = tokens \ {visit[r].token}
    /\ UserUnchanged /\ InvitesUnchanged /\ UNCHANGED <<code, mailed, mishaps>>

(***************************************************************************)
(* Invitations: create voids the live one it saw, revoke, accept.          *)
(***************************************************************************)
Usable(i) == invite[i].made /\ ~invite[i].accepted /\ ~invite[i].revoked /\ ~invite[i].late

CreateInvite(r) ==
    /\ profile = "none"
    /\ IF \E i \in Invites : Usable(i)
       THEN \E i \in Invites : Usable(i) /\ Visits(r, "void", {i})
       ELSE Visits(r, "issue", {})
    /\ UserUnchanged /\ MailUnchanged /\ InvitesUnchanged /\ UNCHANGED mishaps

VoidLive(r) ==
    /\ Goes(r, "void", "issue")
    /\ invite' = [i \in Invites |-> [invite[i] EXCEPT !.revoked = @ \/ i \in Its(r)]]
    /\ UserUnchanged /\ MailUnchanged /\ UNCHANGED <<joined, mishaps>>

IssueInvite(r, i) ==
    /\ visit[r].pc = "issue" /\ ~invite[i].made
    /\ invite' = [invite EXCEPT ![i] = [NoInvite EXCEPT !.made = TRUE]]
    /\ visit' = [visit EXCEPT ![r].pc = "mail", ![r].invites = {i}]
    /\ UserUnchanged /\ MailUnchanged /\ UNCHANGED <<joined, mishaps>>

\* The link exists in the e-mail only: a refused e-mail deletes the row again.
MailInvite(r) ==
    /\ Ends(r, "mail")
    /\ \/ UNCHANGED <<invite, mishaps>>
       \/ Mishap /\ invite' = [i \in Invites |-> IF i \in Its(r) THEN NoInvite ELSE invite[i]]
    /\ UserUnchanged /\ MailUnchanged /\ UNCHANGED joined

InviteExpires(i) ==
    /\ Usable(i) /\ invite' = [invite EXCEPT ![i].late = TRUE]
    /\ UserUnchanged /\ MailUnchanged /\ UNCHANGED <<joined, visit, mishaps>>

\* revoke looks at acceptedAt before it writes revokedAt.
Revoke(r, i) ==
    /\ invite[i].made /\ ~invite[i].accepted /\ Visits(r, "revoke", {i})
    /\ UserUnchanged /\ MailUnchanged /\ InvitesUnchanged /\ UNCHANGED mishaps

WriteRevoked(r) ==
    /\ Ends(r, "revoke")
    /\ invite' = [i \in Invites |-> [invite[i] EXCEPT !.revoked = @ \/ i \in Its(r)]]
    /\ UserUnchanged /\ MailUnchanged /\ UNCHANGED <<joined, mishaps>>

\* The link reaches the invitee when its e-mail was accepted for delivery.
Accept(r, i) ==
    /\ \A q \in Visitors : visit[q].pc = "mail" => i \notin Its(q)
    /\ Usable(i) /\ Visits(r, "claim", {i})
    /\ UserUnchanged /\ MailUnchanged /\ InvitesUnchanged /\ UNCHANGED mishaps

\* Mutant: the claim does not ask whether another request has it.
Claimable(i) == invite[i].made
\* The claim asks for acceptedAt only: the rest was read before.
ClaimableOnce(i) == invite[i].made /\ ~invite[i].accepted

Claim(r) ==
    /\ \E i \in Its(r) :
         IF ClaimableOnce(i)
         THEN Goes(r, "claim", "signUp") /\ invite' = [invite EXCEPT ![i].accepted = TRUE]
         ELSE Ends(r, "claim") /\ UNCHANGED invite
    /\ UserUnchanged /\ MailUnchanged /\ UNCHANGED <<joined, mishaps>>

\* The provider makes a confirmed user, refuses, or makes one and its answer is lost.
SignUpInvited(r) ==
    /\ \/ SignUp(TRUE) /\ Goes(r, "signUp", "join") /\ UNCHANGED mishaps
       \/ UNCHANGED <<identity, mishaps>> /\ Goes(r, "signUp", "release")
       \/ SignUp(TRUE) /\ Goes(r, "signUp", "release") /\ Mishap
    /\ MailUnchanged /\ InvitesUnchanged /\ UNCHANGED <<profile, accounts>>

ReleaseClaim(r) ==
    /\ Ends(r, "release")
    /\ invite' = [i \in Invites |->
                    [invite[i] EXCEPT !.accepted = IF i \in Its(r) THEN FALSE ELSE @]]
    /\ UserUnchanged /\ MailUnchanged /\ UNCHANGED <<joined, mishaps>>

Join(r) ==
    /\ Goes(r, "join", "provision") /\ profile = "none" /\ profile' = "verified"
    /\ joined' = joined \cup Its(r)
    /\ MailUnchanged /\ UNCHANGED <<identity, accounts, invite, mishaps>>

\* The server stops, or a query throws.
VisitStops(r) ==
    /\ visit[r].pc # "idle" /\ visit' = [visit EXCEPT ![r] = IdleVisit] /\ Mishap
    /\ UserUnchanged /\ MailUnchanged /\ InvitesUnchanged

OnboardingNext ==
    \/ \E r \in Visitors :
         \/ Register(r) \/ CreateProfile(r) \/ Resend(r) \/ GenerateCode(r) \/ SendCode(r)
         \/ SignToken(r)
         \/ ConsumeCode(r) \/ ConfirmEmail(r) \/ Provision(r) \/ ConsumeToken(r)
         \/ CreateInvite(r) \/ VoidLive(r) \/ MailInvite(r) \/ WriteRevoked(r)
         \/ Claim(r) \/ SignUpInvited(r) \/ ReleaseClaim(r) \/ Join(r) \/ VisitStops(r)
         \/ \E n \in Codes : VerifyEmail(r, n)
         \/ \E i \in Invites : IssueInvite(r, i) \/ Revoke(r, i) \/ Accept(r, i)
    \/ \E n \in Codes : TokenExpires(n)
    \/ \E i \in Invites : InviteExpires(i)

OnboardingSpec == OnboardingInit /\ [][OnboardingNext]_onboardingVars

(***************************************************************************)
(* Properties.                                                             *)
(***************************************************************************)
\* "provision the user's single account + wallet (1:1)" (auth.service.ts:502-505) and "Claim
\* the token atomically BEFORE creating the identity" (invites.service.ts:211): however
\* registrations, codes, invitations, releases and stops meet, an address gets one account,
\* only a confirmed identity's profile is verified, and the one invitation it joined through
\* stays accepted.
OnboardedOnce ==
    /\ accounts <= 1 /\ (accounts = 1 => profile = "verified")
    /\ profile = "verified" => identity = "confirmed"
    /\ profile = "unverified" => identity # "none"
    /\ Cardinality(joined) <= 1 /\ \A i \in joined : invite[i].accepted
===============================================================================
