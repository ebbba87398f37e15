---------------------------- MODULE AccountsProofs ----------------------------
(***************************************************************************)
(* Theorems of the parts around a user's account, one section for each:    *)
(* onboarding, signing in, the rate limit, the support chat, the waitlist, *)
(* the support tickets, contact data, settings and administration.  Every  *)
(* section has its invariant first, with the argument it carries.          *)
(***************************************************************************)
EXTENDS Onboarding, Signin, Throttling, Conversations, Waitlist, Helpdesk, Contact, Settings,
        Administration, FiniteSetTheorems, SequenceTheorems, TLAPS

(***************************************************************************)
(* Onboarding: one address, one user.  The argument: a verified profile    *)
(* stays verified and a confirmed identity confirmed; and one request at   *)
(* most is between claiming an invitation and giving it back, while the    *)
(* invitation stays accepted, also when the request stops.                 *)
(***************************************************************************)
VisitRow == [pc : {"idle", "register", "generate", "send", "sign", "consumeCode",
                   "confirm", "provision", "consumeToken", "void", "issue",
                   "mail", "revoke", "claim", "signUp", "release", "join"},
             invites : SUBSET Invites, code : 0..MaxCodes, token : 0..MaxCodes]
InviteRow == [made : BOOLEAN, accepted : BOOLEAN, revoked : BOOLEAN, late : BOOLEAN]
Holding == {"signUp", "release", "join"}

UserInv ==
    /\ identity \in {"none", "unconfirmed", "confirmed"}
    /\ profile \in {"none", "unverified", "verified"} /\ accounts \in {0, 1}
    /\ accounts = 1 => profile = "verified"
    /\ profile = "verified" => identity = "confirmed"
    /\ profile = "unverified" => identity # "none"
    /\ joined # {} => profile = "verified" /\ \E i \in Invites : joined = {i}
    /\ \A r \in Visitors : /\ visit[r].pc \in {"provision", "join"} => identity = "confirmed"
                           /\ visit[r].pc = "register" => identity # "none"

\* r holds i after a claim; it refers to i before and after that as well.
Holds(r, i)  == visit[r].pc \in Holding /\ i \in visit[r].invites
Mails(r, i)  == visit[r].pc = "mail" /\ i \in visit[r].invites
Offered(r, i) == visit[r].pc \in {"claim"} \cup Holding /\ i \in visit[r].invites

InvitesInv ==
    /\ code \in [n : 0..MaxCodes, used : BOOLEAN]
    /\ visit \in [Visitors -> VisitRow] /\ invite \in [Invites -> InviteRow]
    /\ \A r \in Visitors : visit[r].pc \in {"claim"} \cup Holding =>
                             \E i \in Invites : visit[r].invites = {i}
    /\ \A r \in Visitors, i \in Invites :
         /\ Mails(r, i) \/ Offered(r, i) => invite[i].made
         /\ Mails(r, i) => ~invite[i].accepted
         /\ Holds(r, i) => invite[i].accepted /\ i \notin joined
         /\ \A q \in Visitors : Mails(r, i) => ~Offered(q, i)
         /\ \A q \in Visitors : Holds(r, i) /\ Holds(q, i) => q = r
         /\ \A q \in Visitors : Mails(r, i) /\ Mails(q, i) => q = r
    /\ \A i \in joined : invite[i].made /\ invite[i].accepted

OnboardingInv == UserInv /\ InvitesInv

\* A step of r, and one that leaves what was offered and accepted as it is.
VisitGoes(r, pc, invites) ==
    /\ visit' \in [Visitors -> VisitRow] /\ \A q \in Visitors \ {r} : visit'[q] = visit[q]
    /\ visit'[r].pc = pc /\ visit'[r].invites = invites
CodeKeeps == code' \in [n : 0..MaxCodes, used : BOOLEAN]
InvitesAlike ==
    /\ invite' \in [Invites -> InviteRow] /\ joined' = joined
    /\ \A i \in Invites : invite'[i].made = invite[i].made /\ invite'[i].accepted = invite[i].accepted

LEMMA VisitRows ==
    OnboardingInv => \A r \in Visitors : visit[r] \in VisitRow /\ visit[r].invites \in SUBSET Invites
  BY DEF OnboardingInv, InvitesInv, VisitRow

LEMMA GoesOn ==
    ASSUME OnboardingInv, NEW r \in Visitors, NEW from, NEW to, Goes(r, from, to),
           to \in {"generate", "sign", "confirm", "provision", "consumeToken", "issue", "signUp",
                   "join", "release"}
    PROVE  VisitGoes(r, to, visit[r].invites) /\ visit[r].pc = from
  BY VisitRows DEF OnboardingInv, InvitesInv, Goes, VisitGoes, VisitRow

LEMMA VisitBegins ==
    ASSUME OnboardingInv, NEW r \in Visitors, NEW pc, NEW invites \in SUBSET Invites,
           Visits(r, pc, invites), pc \in {"register", "generate", "void", "issue", "revoke", "claim"}
    PROVE  VisitGoes(r, pc, invites) /\ visit[r].pc = "idle"
  BY ZenonT(30), VisitRows DEF OnboardingInv, InvitesInv, Visits, VisitGoes, VisitRow

LEMMA IdleVisits == IdleVisit \in VisitRow
  BY OnboardingAssumption DEF IdleVisit, VisitRow

LEMMA VisitEnds ==
    ASSUME OnboardingInv, NEW r \in Visitors, visit' = [visit EXCEPT ![r] = IdleVisit]
    PROVE  VisitGoes(r, "idle", {})
<1>1. visit' \in [Visitors -> VisitRow] /\ visit'[r] = IdleVisit
      /\ \A q \in Visitors \ {r} : visit'[q] = visit[q]
  BY IdleVisits DEF OnboardingInv, InvitesInv
<1> QED BY <1>1 DEF VisitGoes, IdleVisit

\* The visitor of a step without consequences for the user.
LEMMA UserKeeps ==
    ASSUME OnboardingInv, NEW r \in Visitors, NEW pc, NEW invites, VisitGoes(r, pc, invites),
           pc \notin {"provision", "join", "register"}, UserUnchanged, joined' = joined
    PROVE  UserInv'
  BY DEF OnboardingInv, UserInv, VisitGoes, UserUnchanged

LEMMA InvitesKeep ==
    ASSUME OnboardingInv, NEW r \in Visitors, NEW pc, NEW invites, VisitGoes(r, pc, invites),
           pc \notin {"claim", "mail"} \cup Holding, InvitesAlike, CodeKeeps
    PROVE  InvitesInv'
<1>1. \A i \in Invites : ~Mails(r, i)' /\ ~Offered(r, i)' /\ ~Holds(r, i)'
  BY DEF VisitGoes, Mails, Offered, Holds, Holding
<1>2. \A q \in Visitors \ {r}, i \in Invites :
        Mails(q, i)' = Mails(q, i) /\ Offered(q, i)' = Offered(q, i) /\ Holds(q, i)' = Holds(q, i)
  BY DEF VisitGoes, Mails, Offered, Holds
<1>3. \A q \in Visitors : visit'[q].pc \in {"claim"} \cup Holding =>
                            \E i \in Invites : visit'[q].invites = {i}
  BY DEF OnboardingInv, InvitesInv, VisitGoes
<1>4. visit' \in [Visitors -> VisitRow] /\ invite' \in [Invites -> InviteRow] /\ joined' = joined
  BY DEF VisitGoes, InvitesAlike
<1>5. \A i \in joined : invite'[i].made /\ invite'[i].accepted
  BY DEF OnboardingInv, InvitesInv, UserInv, InvitesAlike
<1> QED BY SMTT(30), <1>1, <1>2, <1>3, <1>4, <1>5 DEF OnboardingInv, InvitesInv, InvitesAlike, CodeKeeps

\* A step that neither makes nor claims an invitation leaves them alike.
LEMMA Alike ==
    ASSUME OnboardingInv, InvitesUnchanged
    PROVE  InvitesAlike /\ (UNCHANGED code => CodeKeeps)
  BY DEF OnboardingInv, InvitesInv, InvitesUnchanged, InvitesAlike, CodeKeeps

LEMMA RegistrationKeeps ==
    ASSUME OnboardingInv, NEW r \in Visitors,
           \/ Register(r) \/ CreateProfile(r) \/ Resend(r) \/ GenerateCode(r) \/ SendCode(r)
           \/ SignToken(r) \/ \E n \in Codes : VerifyEmail(r, n)
    PROVE  OnboardingInv'
<1>1. CASE Register(r)
  <2>1. /\ identity = "none" /\ identity' = "unconfirmed" /\ UNCHANGED <<profile, accounts, joined>>
        /\ InvitesUnchanged /\ UNCHANGED code
    BY <1>1 DEF Register, SignUp, MailUnchanged, InvitesUnchanged
  <2>2. CASE Visits(r, "register", {})
    <3>1. VisitGoes(r, "register", {})
      BY <2>2, VisitBegins
    <3>2. UserInv'
      BY <2>1, <3>1 DEF OnboardingInv, UserInv, VisitGoes
    <3> QED BY <2>1, <3>1, <3>2, Alike, InvitesKeep DEF OnboardingInv, Holding
  <2>3. CASE UNCHANGED visit
    <3>1. UserInv'
      BY <2>1, <2>3 DEF OnboardingInv, UserInv
    <3>2. InvitesInv'
      BY <2>1, <2>3 DEF OnboardingInv, InvitesInv, InvitesUnchanged, Mails, Offered, Holds
    <3> QED BY <3>1, <3>2 DEF OnboardingInv
  <2> QED BY <1>1, <2>2, <2>3 DEF Register
<1>2. CASE CreateProfile(r)
  <2>1. /\ VisitGoes(r, "generate", visit[r].invites) /\ visit[r].pc = "register"
        /\ profile = "none" /\ profile' = "unverified" /\ UNCHANGED <<identity, accounts, joined>>
        /\ InvitesUnchanged /\ UNCHANGED code
    BY <1>2, GoesOn DEF CreateProfile, MailUnchanged, InvitesUnchanged
  <2>2. UserInv'
    BY <2>1 DEF OnboardingInv, UserInv, VisitGoes
  <2> QED BY <2>1, <2>2, Alike, InvitesKeep DEF OnboardingInv, Holding
<1>3. CASE Resend(r)
  <2>1. VisitGoes(r, "generate", {}) /\ InvitesUnchanged /\ UserUnchanged /\ UNCHANGED code
    BY <1>3, VisitBegins DEF Resend, MailUnchanged
  <2> QED BY <2>1, UserKeeps, Alike, InvitesKeep DEF OnboardingInv, Holding, InvitesUnchanged
<1>4. CASE GenerateCode(r)
  <2>1. /\ visit[r] \in VisitRow /\ code.n + 1 \in 0..MaxCodes
        /\ code' = [n |-> code.n + 1, used |-> FALSE]
    BY <1>4, VisitRows, OnboardingAssumption DEF GenerateCode, OnboardingInv, InvitesInv
  <2> DEFINE n == code.n + 1
  <2>2. visit' = [visit EXCEPT ![r] = [visit[r] EXCEPT !.pc = "send", !.code = n]]
    BY <1>4 DEF GenerateCode, OnboardingInv, InvitesInv
  <2>3. n \in 0..MaxCodes /\ code' = [n |-> n, used |-> FALSE]
    BY <2>1
  <2> HIDE DEF n
  <2>4. VisitGoes(r, "send", visit[r].invites) /\ CodeKeeps
    <3>1. CodeKeeps
      BY <2>3 DEF CodeKeeps
    <3>2. [visit[r] EXCEPT !.pc = "send", !.code = n] \in VisitRow
      BY <2>1, <2>3 DEF VisitRow
    <3>3. /\ visit' \in [Visitors -> VisitRow] /\ \A q \in Visitors \ {r} : visit'[q] = visit[q]
          /\ visit'[r] = [visit[r] EXCEPT !.pc = "send", !.code = n]
      BY <2>2, <3>2 DEF OnboardingInv, InvitesInv
    <3> QED BY <2>1, <3>1, <3>3 DEF VisitGoes, VisitRow
  <2>5. InvitesUnchanged /\ UserUnchanged
    BY <1>4 DEF GenerateCode
  <2> QED BY <2>4, <2>5, UserKeeps, Alike, InvitesKeep DEF OnboardingInv, Holding, InvitesUnchanged
<1>5. CASE SendCode(r)
  <2>1. InvitesUnchanged /\ UserUnchanged /\ CodeKeeps
    BY <1>5 DEF SendCode, Invalidate, OnboardingInv, InvitesInv, CodeKeeps
  <2>2. VisitGoes(r, "sign", visit[r].invites) \/ VisitGoes(r, "idle", {})
    BY <1>5, GoesOn, VisitEnds DEF SendCode, Ends
  <2> QED BY <2>1, <2>2, UserKeeps, Alike, InvitesKeep DEF OnboardingInv, Holding, InvitesUnchanged
<1>6. CASE SignToken(r)
  <2>1. InvitesUnchanged /\ UserUnchanged /\ UNCHANGED code /\ VisitGoes(r, "idle", {})
    BY <1>6, VisitEnds DEF SignToken, Ends
  <2> QED BY <2>1, UserKeeps, Alike, InvitesKeep DEF OnboardingInv, Holding, InvitesUnchanged
<1>7. ASSUME NEW n \in Codes, VerifyEmail(r, n) PROVE OnboardingInv'
  <2>1. InvitesUnchanged /\ UserUnchanged /\ UNCHANGED code
    BY <1>7 DEF VerifyEmail, MailUnchanged
  <2>2. [pc |-> "consumeCode", invites |-> {}, code |-> code.n, token |-> n] \in VisitRow
    BY OnboardingAssumption DEF VisitRow, OnboardingInv, InvitesInv, Codes
  <2>3. VisitGoes(r, "consumeCode", {})
    BY <1>7, <2>2 DEF VerifyEmail, VisitGoes, OnboardingInv, InvitesInv
  <2> QED BY <2>1, <2>3, UserKeeps, Alike, InvitesKeep DEF OnboardingInv, Holding, InvitesUnchanged
<1> QED BY <1>1, <1>2, <1>3, <1>4, <1>5, <1>6, <1>7

LEMMA VerificationKeeps ==
    ASSUME OnboardingInv, NEW r \in Visitors,
           ConsumeCode(r) \/ ConfirmEmail(r) \/ Provision(r) \/ ConsumeToken(r) \/ VisitStops(r)
    PROVE  OnboardingInv'
<1>1. CASE ConsumeCode(r)
  <2>1. InvitesUnchanged /\ UserUnchanged /\ VisitGoes(r, "confirm", visit[r].invites)
    BY <1>1, GoesOn DEF ConsumeCode
  <2>2. CodeKeeps
    <3> DEFINE b == code.used \/ code.n = visit[r].code
    <3>1. code' = [code EXCEPT !.used = b] /\ b \in BOOLEAN
      BY <1>1 DEF ConsumeCode, OnboardingInv, InvitesInv
    <3> HIDE DEF b
    <3> QED BY <3>1 DEF OnboardingInv, InvitesInv, CodeKeeps
  <2> QED BY <2>1, <2>2, UserKeeps, Alike, InvitesKeep DEF OnboardingInv, Holding, InvitesUnchanged
<1>2. CASE ConfirmEmail(r)
  <2>1. InvitesUnchanged /\ UNCHANGED <<profile, accounts, code>>
    BY <1>2 DEF ConfirmEmail, MailUnchanged
  <2>2. CASE VisitGoes(r, "provision", visit[r].invites) /\ identity' = "confirmed"
    <3>1. UserInv'
      BY <2>1, <2>2 DEF OnboardingInv, UserInv, VisitGoes, InvitesUnchanged
    <3> QED BY <2>1, <2>2, <3>1, Alike, InvitesKeep DEF OnboardingInv, Holding
  <2>3. CASE VisitGoes(r, "idle", {}) /\ UNCHANGED identity
    BY <2>1, <2>3, UserKeeps, Alike, InvitesKeep DEF OnboardingInv, Holding, InvitesUnchanged,
       UserUnchanged
  <2> QED BY <1>2, <2>2, <2>3, GoesOn, VisitEnds DEF ConfirmEmail, ConfirmIdentity, Ends
<1>3. CASE Provision(r)
  <2>1. /\ InvitesUnchanged /\ UNCHANGED <<identity, code>> /\ visit[r].pc = "provision"
        /\ profile' = "verified" /\ accounts' = OpenedOnce
        /\ VisitGoes(r, "consumeToken", visit[r].invites) \/ VisitGoes(r, "idle", {})
    BY <1>3, GoesOn, VisitEnds DEF Provision, MailUnchanged, Goes, Ends
  <2>2. identity = "confirmed" /\ accounts' = 1
    BY <2>1 DEF OnboardingInv, UserInv, OpenedOnce
  <2>3. UserInv'
    BY <2>1, <2>2 DEF OnboardingInv, UserInv, VisitGoes, InvitesUnchanged
  <2> QED BY <2>1, <2>3, Alike, InvitesKeep DEF OnboardingInv, Holding
<1>4. CASE ConsumeToken(r) \/ VisitStops(r)
  <2>1. InvitesUnchanged /\ UserUnchanged /\ UNCHANGED code /\ VisitGoes(r, "idle", {})
    BY <1>4, VisitEnds DEF ConsumeToken, VisitStops, Ends, MailUnchanged
  <2> QED BY <2>1, UserKeeps, Alike, InvitesKeep DEF OnboardingInv, Holding, InvitesUnchanged
<1> QED BY <1>1, <1>2, <1>3, <1>4

LEMMA InvitingKeeps ==
    ASSUME OnboardingInv, NEW r \in Visitors,
           \/ CreateInvite(r) \/ VoidLive(r) \/ WriteRevoked(r)
           \/ \E i \in Invites : Revoke(r, i)
    PROVE  OnboardingInv'
<1>1. CASE CreateInvite(r)
  <2>1. InvitesUnchanged /\ UserUnchanged /\ UNCHANGED code
    BY <1>1 DEF CreateInvite, MailUnchanged
  <2>2. \/ VisitGoes(r, "issue", {})
        \/ \E i \in Invites : VisitGoes(r, "void", {i})
    BY <1>1, VisitBegins DEF CreateInvite
  <2> QED BY <2>1, <2>2, UserKeeps, Alike, InvitesKeep DEF OnboardingInv, Holding, InvitesUnchanged
<1>2. CASE VoidLive(r) \/ WriteRevoked(r)
  <2>1. /\ UserUnchanged /\ UNCHANGED <<code, joined>>
        /\ VisitGoes(r, "issue", visit[r].invites) \/ VisitGoes(r, "idle", {})
        /\ invite' = [i \in Invites |-> [invite[i] EXCEPT !.revoked = @ \/ i \in Its(r)]]
    BY <1>2, GoesOn, VisitEnds DEF VoidLive, WriteRevoked, MailUnchanged, Ends
  <2>2. InvitesAlike
    <3>1. ASSUME NEW i \in Invites
          PROVE  /\ invite'[i] \in InviteRow
                 /\ invite'[i].made = invite[i].made /\ invite'[i].accepted = invite[i].accepted
      <4> DEFINE b == invite[i].revoked \/ i \in Its(r)
      <4>1. invite'[i] = [invite[i] EXCEPT !.revoked = b] /\ b \in BOOLEAN /\ invite[i] \in InviteRow
        BY <2>1 DEF OnboardingInv, InvitesInv
      <4> HIDE DEF b
      <4> QED BY <4>1 DEF InviteRow
    <3> QED BY <2>1, <3>1 DEF InvitesAlike
  <2>3. CodeKeeps
    BY <2>1 DEF CodeKeeps, OnboardingInv, InvitesInv
  <2> QED BY <2>1, <2>2, <2>3, UserKeeps, InvitesKeep DEF OnboardingInv, Holding
<1>3. ASSUME NEW i \in Invites, Revoke(r, i) PROVE OnboardingInv'
  <2>1. InvitesUnchanged /\ UserUnchanged /\ UNCHANGED code /\ VisitGoes(r, "revoke", {i})
    BY <1>3, VisitBegins DEF Revoke, MailUnchanged
  <2> QED BY <2>1, UserKeeps, Alike, InvitesKeep DEF OnboardingInv, Holding, InvitesUnchanged
<1> QED BY <1>1, <1>2, <1>3

\* The requests that a step of r on the invitation i leaves alone.
LEMMA BesidesInvite ==
    ASSUME OnboardingInv, NEW r \in Visitors, NEW pc, NEW invites, VisitGoes(r, pc, invites),
           CodeKeeps, joined' = joined, NEW i \in Invites,
           invites = {i} \/ pc \notin {"claim", "mail"} \cup Holding,
           invite' \in [Invites -> InviteRow],
           \A j \in Invites \ {i} : invite'[j] = invite[j],
           \A q \in Visitors \ {r} :
              /\ Mails(q, i) => invite'[i].made /\ ~invite'[i].accepted /\ ~Offered(r, i)'
                                /\ ~Mails(r, i)'
              /\ Offered(q, i) => invite'[i].made /\ ~Mails(r, i)'
              /\ Holds(q, i) => invite'[i].accepted /\ ~Holds(r, i)',
           Mails(r, i)' \/ Offered(r, i)' => invite'[i].made,
           Mails(r, i)' => ~invite'[i].accepted,
           Holds(r, i)' => invite'[i].accepted /\ i \notin joined,
           i \in joined => invite'[i].made /\ invite'[i].accepted
    PROVE  InvitesInv'
<1>1. \A q \in Visitors \ {r}, j \in Invites :
        Mails(q, j)' = Mails(q, j) /\ Offered(q, j)' = Offered(q, j) /\ Holds(q, j)' = Holds(q, j)
  BY DEF VisitGoes, Mails, Offered, Holds
<1>2. \A j \in Invites \ {i} : ~Mails(r, j)' /\ ~Offered(r, j)' /\ ~Holds(r, j)'
  BY DEF VisitGoes, Mails, Offered, Holds, Holding
<1>3. \A q \in Visitors, j \in Invites : Holds(q, j)' => Offered(q, j)'
  BY DEF Offered, Holds
<1>4. \A q \in Visitors, j \in Invites : ~(Mails(q, j)' /\ Offered(q, j)')
  BY DEF Offered, Mails, Holding
<1>5. \A q \in Visitors : visit'[q].pc \in {"claim"} \cup Holding =>
                            \E j \in Invites : visit'[q].invites = {j}
  BY DEF OnboardingInv, InvitesInv, VisitGoes
<1>6. visit' \in [Visitors -> VisitRow] /\ code' \in [n : 0..MaxCodes, used : BOOLEAN]
  BY DEF VisitGoes, CodeKeeps
<1>7. \A j \in joined : invite'[j].made /\ invite'[j].accepted
  BY DEF OnboardingInv, InvitesInv, UserInv
<1>8. ASSUME NEW q \in Visitors, NEW j \in Invites
      PROVE  /\ Mails(q, j)' \/ Offered(q, j)' => invite'[j].made
             /\ Mails(q, j)' => ~invite'[j].accepted
             /\ Holds(q, j)' => invite'[j].accepted /\ j \notin joined
  <2>1. CASE q = r
    BY <1>2, <2>1
  <2>2. CASE q # r /\ j = i
    BY <1>1, <1>3, <2>2 DEF OnboardingInv, InvitesInv
  <2>3. CASE q # r /\ j # i
    BY <1>1, <2>3 DEF OnboardingInv, InvitesInv
  <2> QED BY <2>1, <2>2, <2>3
<1>9. ASSUME NEW p \in Visitors, NEW q \in Visitors, NEW j \in Invites
      PROVE  /\ Mails(p, j)' => ~Offered(q, j)'
             /\ Holds(p, j)' /\ Holds(q, j)' => q = p
             /\ Mails(p, j)' /\ Mails(q, j)' => q = p
  <2>1. CASE p = q
    BY <1>4, <2>1
  <2>2. CASE p # q /\ (j # i \/ (p # r /\ q # r))
    BY <1>1, <1>2, <2>2 DEF OnboardingInv, InvitesInv
  <2>3. CASE p # q /\ j = i /\ p = r
    BY <1>1, <1>3, <2>3
  <2>4. CASE p # q /\ j = i /\ q = r
    BY <1>1, <1>3, <2>4
  <2> QED BY <2>1, <2>2, <2>3, <2>4
<1> QED BY <1>5, <1>6, <1>7, <1>8, <1>9 DEF InvitesInv

LEMMA InvitationKeeps ==
    ASSUME OnboardingInv, NEW r \in Visitors,
           \/ MailInvite(r) \/ Claim(r) \/ SignUpInvited(r) \/ ReleaseClaim(r) \/ Join(r)
           \/ \E i \in Invites : IssueInvite(r, i) \/ Accept(r, i)
    PROVE  OnboardingInv'
<1> USE DEF MailUnchanged
<1>0. /\ \A j \in joined : invite[j].made /\ invite[j].accepted
      /\ \A j \in Invites : invite[j] \in InviteRow
      /\ NoInvite \in InviteRow
  BY DEF OnboardingInv, InvitesInv, InviteRow, NoInvite
<1>1. ASSUME NEW i \in Invites, IssueInvite(r, i) PROVE OnboardingInv'
  <2> DEFINE new == [NoInvite EXCEPT !.made = TRUE]
  <2>1. new \in InviteRow /\ new.made /\ ~new.accepted
    BY DEF NoInvite, InviteRow
  <2> HIDE DEF new
  <2>2. /\ ~invite[i].made /\ UserUnchanged /\ UNCHANGED <<joined, code>>
        /\ invite' = [invite EXCEPT ![i] = new]
    BY <1>1 DEF IssueInvite, new
  <2>3. VisitGoes(r, "mail", {i})
    <3> DEFINE entry == [visit[r] EXCEPT !.pc = "mail", !.invites = {i}]
    <3>1. entry \in VisitRow /\ entry.pc = "mail" /\ entry.invites = {i}
      BY VisitRows DEF VisitRow
    <3>2. visit' = [visit EXCEPT ![r] = entry]
      BY <1>1 DEF IssueInvite, OnboardingInv, InvitesInv
    <3> HIDE DEF entry
    <3>3. /\ visit' \in [Visitors -> VisitRow] /\ \A q \in Visitors \ {r} : visit'[q] = visit[q]
          /\ visit'[r] = entry
      BY <3>1, <3>2 DEF OnboardingInv, InvitesInv
    <3> QED BY <3>1, <3>3 DEF VisitGoes
  <2>4. \A q \in Visitors : ~Mails(q, i) /\ ~Offered(q, i) /\ ~Holds(q, i)
    BY <2>2 DEF OnboardingInv, InvitesInv, Offered, Holds
  <2>5. /\ invite' \in [Invites -> InviteRow] /\ invite'[i] = new
        /\ \A j \in Invites \ {i} : invite'[j] = invite[j]
    BY <2>1, <2>2 DEF OnboardingInv, InvitesInv
  <2>6. i \notin joined /\ CodeKeeps
    BY <1>0, <2>2 DEF OnboardingInv, InvitesInv, CodeKeeps
  <2>7. ~Holds(r, i)' /\ ~Offered(r, i)'
    BY <2>3 DEF VisitGoes, Holds, Offered, Holding
  <2>8. InvitesInv'
    BY <2>1, <2>2, <2>3, <2>4, <2>5, <2>6, <2>7, BesidesInvite
  <2> QED BY <2>2, <2>3, <2>8, UserKeeps DEF OnboardingInv
<1>2. CASE MailInvite(r)
  <2>1. UserUnchanged /\ UNCHANGED <<joined, code>> /\ VisitGoes(r, "idle", {}) /\ visit[r].pc = "mail"
    BY <1>2, VisitEnds DEF MailInvite, Ends
  <2>2. CodeKeeps
    BY <2>1 DEF CodeKeeps, OnboardingInv, InvitesInv
  <2>3. CASE UNCHANGED invite
    BY <2>1, <2>2, <2>3, UserKeeps, Alike, InvitesKeep DEF OnboardingInv, Holding, InvitesUnchanged
  <2>4. CASE invite' = [i \in Invites |-> IF i \in Its(r) THEN NoInvite ELSE invite[i]]
    <3>1. /\ \A i \in Invites : i \in Its(r) => Mails(r, i) /\ invite'[i] = NoInvite
          /\ \A i \in Invites : i \notin Its(r) => invite'[i] = invite[i]
          /\ invite' \in [Invites -> InviteRow]
      BY <1>0, <2>1, <2>4 DEF Its, Mails
    <3>2. \A i \in Invites : ~Mails(r, i)' /\ ~Offered(r, i)' /\ ~Holds(r, i)'
      BY <2>1 DEF VisitGoes, Mails, Offered, Holds, Holding
    <3>3. \A q \in Visitors \ {r}, i \in Invites :
            Mails(q, i)' = Mails(q, i) /\ Offered(q, i)' = Offered(q, i) /\ Holds(q, i)' = Holds(q, i)
      BY <2>1 DEF VisitGoes, Mails, Offered, Holds
    <3>4. \A q \in Visitors \ {r}, i \in Invites :
            i \in Its(r) => ~Mails(q, i) /\ ~Offered(q, i) /\ ~Holds(q, i)
      BY <3>1 DEF OnboardingInv, InvitesInv, Offered, Holds
    <3>5. \A j \in joined : invite'[j].made /\ invite'[j].accepted
      BY <1>0, <3>1 DEF OnboardingInv, InvitesInv, UserInv
    <3>6. \A q \in Visitors : visit'[q].pc \in {"claim"} \cup Holding =>
                                \E j \in Invites : visit'[q].invites = {j}
      BY <2>1 DEF OnboardingInv, InvitesInv, VisitGoes, Holding
    <3>7. InvitesInv'
      BY <2>1, <2>2, <3>1, <3>2, <3>3, <3>4, <3>5, <3>6 DEF OnboardingInv, InvitesInv, VisitGoes,
         CodeKeeps
    <3> QED BY <2>1, <3>7, UserKeeps DEF OnboardingInv
  <2> QED BY <1>2, <2>3, <2>4 DEF MailInvite
<1>3. ASSUME NEW i \in Invites, Accept(r, i) PROVE OnboardingInv'
  <2>1. /\ \A q \in Visitors : ~Mails(q, i)
        /\ invite[i].made /\ UserUnchanged /\ InvitesUnchanged /\ UNCHANGED code
        /\ VisitGoes(r, "claim", {i})
    BY <1>3, VisitBegins DEF Accept, Usable, Mails, Its
  <2>2. ~Mails(r, i)' /\ ~Holds(r, i)'
    BY <2>1 DEF VisitGoes, Mails, Holds, Holding
  <2>3. /\ invite' \in [Invites -> InviteRow] /\ \A j \in Invites : invite'[j] = invite[j]
        /\ CodeKeeps /\ joined' = joined
    BY <2>1 DEF OnboardingInv, InvitesInv, InvitesUnchanged, CodeKeeps
  <2>4. \A q \in Visitors : Holds(q, i) => invite[i].accepted
    BY DEF OnboardingInv, InvitesInv
  <2>5. InvitesInv'
    BY <1>0, <2>1, <2>2, <2>3, <2>4, BesidesInvite
  <2> QED BY <2>1, <2>3, <2>5, UserKeeps DEF OnboardingInv
<1>4. CASE Claim(r)
  <2>1. PICK i \in Its(r) : IF ClaimableOnce(i)
          THEN Goes(r, "claim", "signUp") /\ invite' = [invite EXCEPT ![i].accepted = TRUE]
          ELSE Ends(r, "claim") /\ UNCHANGED invite
    BY <1>4 DEF Claim
  <2>2. /\ visit[r].pc = "claim" /\ i \in Invites /\ visit[r].invites = {i} /\ UserUnchanged
        /\ UNCHANGED <<joined, code>> /\ CodeKeeps
    BY <1>4, <2>1, VisitRows DEF Claim, Goes, Ends, Its, OnboardingInv, InvitesInv, VisitRow,
       CodeKeeps
  <2>3. CASE ClaimableOnce(i)
    <3>1. /\ VisitGoes(r, "signUp", {i}) /\ invite[i].made /\ ~invite[i].accepted
          /\ invite' \in [Invites -> InviteRow] /\ \A j \in Invites \ {i} : invite'[j] = invite[j]
          /\ invite'[i].made /\ invite'[i].accepted
      <4> DEFINE entry == [invite[i] EXCEPT !.accepted = TRUE]
      <4>1. invite[i].made /\ ~invite[i].accepted
        BY <2>3 DEF ClaimableOnce
      <4>2. VisitGoes(r, "signUp", {i})
        BY <2>1, <2>2, <2>3, GoesOn
      <4>3. entry \in InviteRow /\ entry.made /\ entry.accepted
        BY <1>0, <2>2, <4>1 DEF InviteRow
      <4>4. invite' = [invite EXCEPT ![i] = entry]
        BY <2>1, <2>2, <2>3 DEF OnboardingInv, InvitesInv
      <4> HIDE DEF entry
      <4>5. /\ invite' \in [Invites -> InviteRow] /\ invite'[i] = entry
            /\ \A j \in Invites \ {i} : invite'[j] = invite[j]
        BY <2>2, <4>3, <4>4 DEF OnboardingInv, InvitesInv
      <4> QED BY <4>1, <4>2, <4>3, <4>5
    <3>2. Offered(r, i) /\ ~Mails(r, i)'
      BY <2>2, <3>1 DEF Offered, VisitGoes, Mails
    <3>3. \A q \in Visitors : ~Mails(q, i) /\ ~Holds(q, i)
      BY <2>2, <3>1, <3>2 DEF OnboardingInv, InvitesInv
    <3>4. i \notin joined
      BY <1>0, <3>1
    <3>5. InvitesInv'
      BY <2>2, <3>1, <3>2, <3>3, <3>4, BesidesInvite
    <3> QED BY <2>2, <3>1, <3>5, UserKeeps DEF OnboardingInv
  <2>4. CASE ~ClaimableOnce(i)
    BY <2>1, <2>2, <2>4, VisitEnds, UserKeeps, Alike, InvitesKeep DEF Ends, OnboardingInv, Holding,
       InvitesUnchanged
  <2> QED BY <2>3, <2>4
<1>5. CASE SignUpInvited(r)
  <2>1. PICK i \in Invites : visit[r].pc = "signUp" /\ visit[r].invites = {i}
    BY <1>5 DEF SignUpInvited, Goes, OnboardingInv, InvitesInv, Holding
  <2>2. /\ InvitesUnchanged /\ UNCHANGED <<profile, accounts, code>>
        /\ \/ identity = "none" /\ identity' = "confirmed"
           \/ UNCHANGED identity
        /\ \/ VisitGoes(r, "join", {i}) /\ identity' = "confirmed"
           \/ VisitGoes(r, "release", {i})
    BY <1>5, <2>1, GoesOn DEF SignUpInvited, SignUp
  <2>3. UserInv'
    BY <2>2 DEF OnboardingInv, UserInv, VisitGoes, InvitesUnchanged
  <2>4. Holds(r, i) /\ Offered(r, i) /\ ~Mails(r, i)'
    BY <2>1, <2>2 DEF Holds, Offered, Holding, VisitGoes, Mails
  <2>5. /\ invite[i].made /\ invite[i].accepted /\ i \notin joined
        /\ \A q \in Visitors : ~Mails(q, i) /\ (Holds(q, i) => q = r)
    BY <2>4 DEF OnboardingInv, InvitesInv
  <2>6. /\ invite' \in [Invites -> InviteRow] /\ \A j \in Invites : invite'[j] = invite[j]
        /\ CodeKeeps /\ joined' = joined
    BY <2>2 DEF OnboardingInv, InvitesInv, InvitesUnchanged, CodeKeeps
  <2>7. CASE VisitGoes(r, "join", {i})
    BY <2>3, <2>4, <2>5, <2>6, <2>7, BesidesInvite DEF OnboardingInv
  <2>8. CASE VisitGoes(r, "release", {i})
    BY <2>3, <2>4, <2>5, <2>6, <2>8, BesidesInvite DEF OnboardingInv
  <2> QED BY <2>2, <2>7, <2>8
<1>6. CASE ReleaseClaim(r)
  <2>1. PICK i \in Invites : visit[r].pc = "release" /\ visit[r].invites = {i}
    BY <1>6 DEF ReleaseClaim, Ends, OnboardingInv, InvitesInv, Holding
  <2>2. /\ VisitGoes(r, "idle", {}) /\ UserUnchanged /\ UNCHANGED <<joined, code>> /\ CodeKeeps
        /\ invite' = [j \in Invites |-> [invite[j] EXCEPT !.accepted =
                                           IF j \in Its(r) THEN FALSE ELSE invite[j].accepted]]
    BY <1>6, VisitEnds DEF ReleaseClaim, Ends, OnboardingInv, InvitesInv, CodeKeeps
  <2>3. Holds(r, i) /\ Offered(r, i) /\ Its(r) = {i}
    BY <2>1 DEF Holds, Offered, Holding, Its
  <2>4. /\ invite[i].made /\ i \notin joined
        /\ \A q \in Visitors : ~Mails(q, i) /\ (Holds(q, i) => q = r)
    BY <2>3 DEF OnboardingInv, InvitesInv
  <2>5. ASSUME NEW j \in Invites
        PROVE  invite'[j] \in InviteRow /\ invite'[j].made = invite[j].made
               /\ (j # i => invite'[j] = invite[j])
    BY <1>0, <2>2, <2>3 DEF InviteRow
  <2>6. invite' \in [Invites -> InviteRow]
    BY <2>2, <2>5
  <2>7. ~Mails(r, i)' /\ ~Offered(r, i)' /\ ~Holds(r, i)'
    BY <2>2 DEF VisitGoes, Mails, Offered, Holds, Holding
  <2>8. InvitesInv'
    <3>1. \A q \in Visitors \ {r} : ~Mails(q, i) /\ ~Holds(q, i)
      BY <2>4
    <3>2. "idle" \notin {"claim", "mail"} \cup Holding
      BY DEF Holding
    <3>3. \A j \in Invites \ {i} : invite'[j] = invite[j]
      BY <2>5
    <3>4. invite'[i].made /\ CodeKeeps /\ joined' = joined /\ VisitGoes(r, "idle", {})
      BY <2>2, <2>4, <2>5
    <3> QED BY <2>4, <2>6, <2>7, <3>1, <3>2, <3>3, <3>4, BesidesInvite
  <2> QED BY <2>2, <2>8, UserKeeps DEF OnboardingInv
<1>7. CASE Join(r)
  <2>1. PICK i \in Invites : visit[r].pc = "join" /\ visit[r].invites = {i}
    BY <1>7 DEF Join, Goes, OnboardingInv, InvitesInv, Holding
  <2>2. /\ VisitGoes(r, "provision", {i}) /\ profile = "none" /\ profile' = "verified"
        /\ joined' = joined \cup {i} /\ UNCHANGED <<identity, accounts, code, invite>>
    BY <1>7, <2>1, GoesOn DEF Join, Its
  <2>3. identity = "confirmed" /\ joined = {} /\ joined' = {i}
    BY <2>1, <2>2 DEF OnboardingInv, UserInv
  <2>4. UserInv'
    BY <2>2, <2>3 DEF OnboardingInv, UserInv, VisitGoes
  <2>5. Holds(r, i) /\ Offered(r, i)
    BY <2>1 DEF Holds, Offered, Holding
  <2>6. invite[i].made /\ invite[i].accepted /\ \A q \in Visitors : Holds(q, i) => q = r
    BY <2>5 DEF OnboardingInv, InvitesInv
  <2>7. \A j \in Invites : ~Mails(r, j)' /\ ~Offered(r, j)' /\ ~Holds(r, j)'
    BY <2>2 DEF VisitGoes, Mails, Offered, Holds, Holding
  <2>8. \A q \in Visitors \ {r}, j \in Invites :
          Mails(q, j)' = Mails(q, j) /\ Offered(q, j)' = Offered(q, j) /\ Holds(q, j)' = Holds(q, j)
    BY <2>2 DEF VisitGoes, Mails, Offered, Holds
  <2>9. \A q \in Visitors : visit'[q].pc \in {"claim"} \cup Holding =>
                              \E j \in Invites : visit'[q].invites = {j}
    BY <2>2 DEF OnboardingInv, InvitesInv, VisitGoes, Holding
  <2>10. InvitesInv'
    BY <2>2, <2>3, <2>6, <2>7, <2>8, <2>9 DEF OnboardingInv, InvitesInv, VisitGoes
  <2> QED BY <2>4, <2>10 DEF OnboardingInv
<1> QED BY <1>1, <1>2, <1>3, <1>4, <1>5, <1>6, <1>7

LEMMA OnboardingKeeps == OnboardingInv /\ [OnboardingNext]_onboardingVars => OnboardingInv'
<1> SUFFICES ASSUME OnboardingInv, [OnboardingNext]_onboardingVars PROVE OnboardingInv'
  OBVIOUS
<1>1. ASSUME NEW i \in Invites, InviteExpires(i) PROVE OnboardingInv'
  <2>1. /\ InvitesAlike /\ UserUnchanged /\ UNCHANGED <<code, visit>>
    BY ZenonT(30), <1>1 DEF InviteExpires, MailUnchanged, InvitesAlike, OnboardingInv, InvitesInv, InviteRow
  <2>2. UserInv'
    BY <2>1 DEF OnboardingInv, UserInv, UserUnchanged, InvitesAlike
  <2>3. InvitesInv'
    BY <2>1 DEF OnboardingInv, UserInv, InvitesInv, InvitesAlike, Mails, Offered, Holds
  <2> QED BY <2>2, <2>3 DEF OnboardingInv
<1>2. CASE UNCHANGED onboardingVars \/ \E n \in Codes : TokenExpires(n)
  <2>1. UNCHANGED <<identity, profile, accounts, code, invite, joined, visit>>
    BY <1>2 DEF onboardingVars, TokenExpires, UserUnchanged, InvitesUnchanged
  <2> QED BY <2>1 DEF OnboardingInv, UserInv, InvitesInv, Mails, Offered, Holds
<1> QED BY <1>1, <1>2, RegistrationKeeps, VerificationKeeps, InvitingKeeps, InvitationKeeps DEF
   OnboardingNext

LEMMA OnboardingStarts == OnboardingInit => OnboardingInv
<1> SUFFICES ASSUME OnboardingInit PROVE OnboardingInv
  OBVIOUS
<1>1. visit \in [Visitors -> VisitRow] /\ \A r \in Visitors : visit[r].pc = "idle"
  BY IdleVisits DEF OnboardingInit, IdleVisit
<1>2. invite \in [Invites -> InviteRow] /\ code \in [n : 0..MaxCodes, used : BOOLEAN]
  BY OnboardingAssumption DEF OnboardingInit, NoInvite, InviteRow
<1> QED BY <1>1, <1>2 DEF OnboardingInit, OnboardingInv, UserInv, InvitesInv, Mails, Offered,
   Holds, Holding

\* Registration, verification and invitations (auth.service.ts, invites.service.ts): however they
\* overlap, fail and stop, an address gets one account, only a confirmed identity's profile is
\* verified, and the one invitation it joined through stays accepted.
THEOREM OnboardedOneUser == OnboardingSpec => []OnboardedOnce
<1>1. OnboardingInv => OnboardedOnce
  <2>1. ASSUME OnboardingInv PROVE Cardinality(joined) <= 1
    <3>1. CASE joined = {}
      BY <3>1, FS_EmptySet
    <3>2. CASE joined # {}
      BY <2>1, <3>2, FS_Singleton DEF OnboardingInv, UserInv
    <3> QED BY <3>1, <3>2
  <2> QED BY <2>1 DEF OnboardingInv, UserInv, InvitesInv, OnboardedOnce
<1> QED BY <1>1, OnboardingStarts, OnboardingKeeps, PTL DEF OnboardingSpec

(***************************************************************************)
(* Signin: revoked sessions.  The argument: rows are only inserted, revoked *)
(* or touched, and a refresh that starts behind a revocation finds it      *)
(* again when it checks, because no step undoes one.                       *)
(***************************************************************************)
AttemptRow == [pc : {"idle", "factor", "unpark", "read", "prove", "record",
                     "touch", "create", "check", "revoke", "setPassword",
                     "revokeAll", "enable", "readOff", "proveOff", "delete",
                     "spendCode", "resetPassword", "spendToken"},
               sessions : SUBSET Sessions, barred : BOOLEAN, read : Factors]

AttemptInv(r) ==
    /\ attempt[r].sessions \subseteq granted
    /\ attempt[r].barred =>
         attempt[r].pc = "check" /\ \E s \in attempt[r].sessions : row[s] = "revoked"

SigninInv ==
    /\ SigninTypeOK
    /\ \A s \in Sessions : row[s] # "none" => s \in granted
    /\ \A r \in Attempts : AttemptInv(r)

\* What a step does to everything but the requests, and to the requests of r.
RowsGo ==
    /\ granted \subseteq granted' /\ granted' \subseteq Sessions /\ parked' \subseteq granted'
    /\ row' \in [Sessions -> {"none", "live", "revoked"}]
    /\ \A s \in Sessions : /\ row[s] = "revoked" => row'[s] = "revoked"
                           /\ row'[s] # "none" => s \in granted'
    /\ factor' \in Factors /\ period' \in 1..MaxPeriods /\ reset' \in {"none", "mailed", "token"}
RequestGoes(r) ==
    /\ attempt' \in [Attempts -> AttemptRow] /\ \A q \in Attempts \ {r} : attempt'[q] = attempt[q]
    /\ attempt'[r].sessions \subseteq granted'
    /\ attempt'[r].barred =>
         attempt'[r].pc = "check" /\ \E s \in attempt'[r].sessions : row'[s] = "revoked"

LEMMA Rows == SigninInv => attempt \in [Attempts -> AttemptRow]
  BY DEF SigninInv, SigninTypeOK, AttemptRow

LEMMA IdleIsARow == IdleAttempt \in AttemptRow /\ NoFactor \in Factors
  BY SigninAssumption DEF IdleAttempt, AttemptRow, NoFactor, Factors

LEMMA RowsStay ==
    ASSUME SigninInv, UNCHANGED <<granted, row, reset>>, FactorUnchanged
    PROVE  RowsGo
  BY DEF SigninInv, SigninTypeOK, FactorUnchanged, RowsGo

LEMMA TurnsGo ==
    ASSUME SigninInv, NEW r \in Attempts, NEW from, NEW to, Turns(r, from, to),
           from # "check",
           to \in {"read", "prove", "record", "touch", "create", "setPassword", "revokeAll",
                   "delete", "spendToken"},
           granted \subseteq granted'
    PROVE  RequestGoes(r)
<1>1. attempt[r] \in AttemptRow /\ AttemptInv(r)
  BY Rows DEF SigninInv
<1>2. /\ attempt'[r] \in AttemptRow /\ attempt'[r].sessions = attempt[r].sessions
      /\ attempt'[r].barred = attempt[r].barred /\ attempt[r].pc = from
      /\ attempt' \in [Attempts -> AttemptRow] /\ \A q \in Attempts \ {r} : attempt'[q] = attempt[q]
  BY <1>1, Rows DEF Turns, AttemptRow
<1> QED BY <1>1, <1>2 DEF RequestGoes, AttemptInv

LEMMA StartsGo ==
    ASSUME SigninInv, NEW r \in Attempts, NEW pc, NEW sessions, Starts(r, pc, sessions),
           pc \in {"factor", "unpark", "revoke", "setPassword", "enable", "readOff", "spendCode",
                   "resetPassword"},
           sessions \subseteq granted', granted \subseteq granted', granted' \subseteq Sessions
    PROVE  RequestGoes(r)
<1>1. attempt[r] \in AttemptRow /\ AttemptInv(r)
  BY Rows DEF SigninInv
<1>2. /\ attempt'[r].sessions = sessions
      /\ attempt'[r].barred = attempt[r].barred /\ attempt[r].pc = "idle"
      /\ attempt' \in [Attempts -> AttemptRow] /\ \A q \in Attempts \ {r} : attempt'[q] = attempt[q]
  BY <1>1, Rows DEF Starts, AttemptRow
<1> QED BY <1>1, <1>2 DEF RequestGoes, AttemptInv

LEMMA IdlesGo ==
    ASSUME SigninInv, NEW r \in Attempts, attempt' = [attempt EXCEPT ![r] = IdleAttempt]
    PROVE  RequestGoes(r)
<1>1. /\ attempt' \in [Attempts -> AttemptRow] /\ \A q \in Attempts \ {r} : attempt'[q] = attempt[q]
      /\ attempt'[r] = IdleAttempt
  BY Rows, IdleIsARow
<1> QED BY <1>1 DEF RequestGoes, IdleAttempt

LEMMA Revoked ==
    ASSUME SigninInv, NEW sessions, Revokes(sessions), UNCHANGED <<granted, reset>>,
           FactorUnchanged
    PROVE  RowsGo
  BY DEF SigninInv, SigninTypeOK, FactorUnchanged, RowsGo, Revokes

LEMMA AttemptKeeps ==
    ASSUME SigninInv, NEW r \in Attempts, RowsGo, RequestGoes(r)
    PROVE  SigninInv' /\ RowsGo
<1>1. \A q \in Attempts : AttemptInv(q)'
  BY Rows DEF SigninInv, RowsGo, RequestGoes, AttemptInv, AttemptRow
<1> QED BY <1>1 DEF SigninInv, SigninTypeOK, RowsGo, RequestGoes, AttemptRow

LEMMA OthersKeep ==
    ASSUME SigninInv, RowsGo, UNCHANGED attempt
    PROVE  SigninInv' /\ RowsGo
<1>1. \A q \in Attempts : AttemptInv(q)'
  BY Rows DEF SigninInv, RowsGo, AttemptInv, AttemptRow
<1> QED BY <1>1 DEF SigninInv, SigninTypeOK, RowsGo

LEMMA SigninKeeps ==
    ASSUME SigninInv, [SigninNext]_signinVars
    PROVE  SigninInv' /\ RowsGo
<1> USE DEF FactorUnchanged
<1>1. ASSUME NEW r \in Attempts, NEW s \in Sessions,
             \/ Login(r, s) \/ VerifyLoginMfa(r, s) \/ RevokeSession(r, s) \/ ChangePassword(r, s)
      PROVE  SigninInv' /\ RowsGo
  <2>1. RowsGo
    BY <1>1 DEF Login, Grant, VerifyLoginMfa, RevokeSession, ChangePassword, RowsGo, SigninInv,
       SigninTypeOK
  <2>2. s \in granted'
    BY <1>1 DEF Login, Grant, VerifyLoginMfa, RevokeSession, ChangePassword, SigninInv,
       SigninTypeOK
  <2>3. RequestGoes(r)
    BY <1>1, <2>1, <2>2, StartsGo DEF Login, VerifyLoginMfa, RevokeSession, ChangePassword, RowsGo
  <2> QED BY <2>1, <2>3, AttemptKeeps
<1>2. ASSUME NEW r \in Attempts, AskFactor(r) PROVE SigninInv' /\ RowsGo
  <2>1. RowsGo
    BY <1>2 DEF AskFactor, RowsGo, SigninInv, SigninTypeOK, AttemptInv
  <2>2. RequestGoes(r)
    BY <1>2, IdlesGo, TurnsGo DEF AskFactor, Done
  <2> QED BY <2>1, <2>2, AttemptKeeps
<1>3. ASSUME NEW r \in Attempts, Unpark(r) PROVE SigninInv' /\ RowsGo
  <2>1. RowsGo
    BY <1>3 DEF Unpark, RowsGo, SigninInv, SigninTypeOK
  <2>2. RequestGoes(r)
    BY <1>3, TurnsGo DEF Unpark
  <2> QED BY <2>1, <2>2, AttemptKeeps
<1>4. ASSUME NEW r \in Attempts, ReadFactor(r) PROVE SigninInv' /\ RowsGo
  <2>1. RowsGo
    BY <1>4, RowsStay DEF ReadFactor
  <2>2. CASE ~IsEnabled
    BY <1>4, <2>1, <2>2, IdlesGo, AttemptKeeps DEF ReadFactor
  <2>3. CASE IsEnabled
    <3>1. attempt[r] \in AttemptRow /\ factor \in Factors /\ ~attempt[r].barred
          /\ attempt[r].sessions \subseteq granted
      BY <1>4, Rows DEF ReadFactor, SigninInv, SigninTypeOK, AttemptInv
    <3>2. /\ attempt' \in [Attempts -> AttemptRow]
          /\ \A q \in Attempts \ {r} : attempt'[q] = attempt[q]
          /\ attempt'[r].sessions = attempt[r].sessions
          /\ attempt'[r].barred = attempt[r].barred
      BY <1>4, <2>3, <3>1, Rows DEF ReadFactor, AttemptRow
    <3>3. RequestGoes(r)
      BY <2>1, <3>1, <3>2 DEF RequestGoes, RowsGo
    <3> QED BY <2>1, <3>3, AttemptKeeps
  <2> QED BY <2>2, <2>3
<1>5. ASSUME NEW r \in Attempts, ProveFactor(r) PROVE SigninInv' /\ RowsGo
  <2>1. attempt[r].read \in Factors /\ factor \in Factors /\ period \in 1..MaxPeriods
    BY Rows DEF SigninInv, SigninTypeOK, AttemptRow
  <2>2. factor' \in Factors
    BY <1>5, <2>1, SigninAssumption DEF ProveFactor, Factors
  <2>3. RowsGo
    BY <1>5, <2>2 DEF ProveFactor, RowsGo, SigninInv, SigninTypeOK
  <2>4. RequestGoes(r)
    BY <1>5, TurnsGo DEF ProveFactor
  <2> QED BY <2>3, <2>4, AttemptKeeps
<1>6. ASSUME NEW r \in Attempts, NEW s \in Sessions, Refresh(r, s) PROVE SigninInv' /\ RowsGo
  <2>1. RowsGo
    BY <1>6, RowsStay DEF Refresh
  <2>2. /\ attempt' \in [Attempts -> AttemptRow]
        /\ \A q \in Attempts \ {r} : attempt'[q] = attempt[q]
        /\ attempt'[r].sessions = {s} /\ attempt'[r].pc = "check"
        /\ attempt'[r].barred = (row[s] = "revoked")
    <3> DEFINE b == row[s] = "revoked"
    <3>1. b \in BOOLEAN /\ attempt[r] \in AttemptRow
      BY Rows
    <3>2. attempt' = [attempt EXCEPT ![r] = [attempt[r] EXCEPT !.pc = "check", !.sessions = {s},
                                                               !.barred = b]]
      BY <1>6, Rows DEF Refresh
    <3> HIDE DEF b
    <3>3. [attempt[r] EXCEPT !.pc = "check", !.sessions = {s}, !.barred = b] \in AttemptRow
      BY <3>1 DEF AttemptRow
    <3>4. /\ attempt' \in [Attempts -> AttemptRow]
          /\ \A q \in Attempts \ {r} : attempt'[q] = attempt[q]
          /\ attempt'[r] = [attempt[r] EXCEPT !.pc = "check", !.sessions = {s}, !.barred = b]
      BY <3>2, <3>3, Rows
    <3>5. attempt'[r].sessions = {s} /\ attempt'[r].pc = "check" /\ attempt'[r].barred = b
      BY <3>1, <3>4 DEF AttemptRow
    <3> QED BY <3>4, <3>5 DEF b
  <2>3. RequestGoes(r)
    BY <1>6, <2>1, <2>2 DEF RequestGoes, RowsGo, Refresh
  <2> QED BY <2>1, <2>3, AttemptKeeps
<1>7. ASSUME NEW r \in Attempts, CheckRevoked(r) PROVE SigninInv' /\ RowsGo
  <2>1. RowsGo
    BY <1>7, RowsStay DEF CheckRevoked
  <2>2. CASE PassesUnrevoked(r)
    <3>1. attempt[r] \in AttemptRow /\ ~attempt[r].barred /\ attempt[r].sessions \subseteq granted
      BY <2>2, Rows DEF SigninInv, AttemptInv, PassesUnrevoked, AttemptRow
    <3>2. /\ attempt' \in [Attempts -> AttemptRow]
          /\ \A q \in Attempts \ {r} : attempt'[q] = attempt[q]
          /\ attempt'[r].sessions = attempt[r].sessions
          /\ attempt'[r].barred = attempt[r].barred
      BY <1>7, <2>2, <3>1, Rows DEF CheckRevoked, Turns, AttemptRow
    <3>3. RequestGoes(r)
      BY <2>1, <3>1, <3>2 DEF RequestGoes, RowsGo
    <3> QED BY <2>1, <3>3, AttemptKeeps
  <2>3. CASE ~PassesUnrevoked(r)
    BY <1>7, <2>1, <2>3, IdlesGo, AttemptKeeps DEF CheckRevoked, Done
  <2> QED BY <2>2, <2>3
<1>8. ASSUME NEW r \in Attempts, Record(r) PROVE SigninInv' /\ RowsGo
  <2>1. RowsGo
    BY <1>8, RowsStay DEF Record
  <2>2. RequestGoes(r)
    BY <1>8, IdlesGo, TurnsGo DEF Record, Done
  <2> QED BY <2>1, <2>2, AttemptKeeps
<1>9. ASSUME NEW r \in Attempts, WriteRow(r) PROVE SigninInv' /\ RowsGo
  <2>1. RowsGo
    BY <1>9 DEF WriteRow, Touched, RowsGo, SigninInv, SigninTypeOK, AttemptInv
  <2>2. RequestGoes(r)
    BY <1>9, IdlesGo DEF WriteRow, Done
  <2> QED BY <2>1, <2>2, AttemptKeeps
<1>10. ASSUME NEW r \in Attempts, WriteSessionRevoked(r) \/ RevokeAll(r)
       PROVE  SigninInv' /\ RowsGo
  <2>1. RowsGo
    BY <1>10, Revoked DEF WriteSessionRevoked, RevokeAll
  <2>2. RequestGoes(r)
    BY <1>10, IdlesGo DEF WriteSessionRevoked, RevokeAll, Done
  <2> QED BY <2>1, <2>2, AttemptKeeps
<1>11. ASSUME NEW r \in Attempts, SetPassword(r) PROVE SigninInv' /\ RowsGo
  <2>1. RowsGo
    BY <1>11, RowsStay DEF SetPassword
  <2>2. RequestGoes(r)
    BY <1>11, TurnsGo DEF SetPassword
  <2> QED BY <2>1, <2>2, AttemptKeeps
<1>12. ASSUME NEW r \in Attempts, Enable(r) \/ Disable(r) \/ VerifyResetOtp(r) \/ ResetPassword(r)
       PROVE  SigninInv' /\ RowsGo
  <2>1. RowsGo
    BY <1>12, RowsStay DEF Enable, Disable, VerifyResetOtp, ResetPassword
  <2>2. RequestGoes(r)
    BY <1>12, <2>1, StartsGo DEF Enable, Disable, VerifyResetOtp, ResetPassword, RowsGo
  <2> QED BY <2>1, <2>2, AttemptKeeps
<1>13. ASSUME NEW r \in Attempts,
              WriteEnabled(r) \/ DeleteFactor(r) \/ SpendCode(r) \/ SpendToken(r) \/ AttemptFails(r)
       PROVE  SigninInv' /\ RowsGo
  <2>1. factor' \in Factors /\ reset' \in {"none", "mailed", "token"}
    BY <1>13, IdleIsARow, SigninAssumption DEF WriteEnabled, DeleteFactor, SpendCode, SpendToken,
       AttemptFails, SigninInv, SigninTypeOK, Factors
  <2>2. RowsGo
    BY <1>13, <2>1 DEF WriteEnabled, DeleteFactor, SpendCode, SpendToken, AttemptFails, RowsGo,
       SigninInv, SigninTypeOK
  <2>3. RequestGoes(r)
    BY <1>13, IdlesGo DEF WriteEnabled, DeleteFactor, SpendCode, SpendToken, AttemptFails, Done
  <2> QED BY <2>2, <2>3, AttemptKeeps
<1>14. ASSUME NEW s \in Sessions, ChallengeExpires(s) \/ Logout(s) PROVE SigninInv' /\ RowsGo
  <2>1. RowsGo
    BY <1>14, Revoked DEF ChallengeExpires, Logout, RowsGo, SigninInv, SigninTypeOK
  <2> QED BY <1>14, <2>1, OthersKeep DEF ChallengeExpires, Logout
<1>15. CASE StartSetup \/ PeriodPasses \/ ForgotPassword \/ UNCHANGED signinVars
  <2>1. factor' \in Factors /\ period' \in 1..MaxPeriods
    BY <1>15, IdleIsARow, SigninAssumption DEF StartSetup, PeriodPasses, ForgotPassword,
       signinVars, SigninInv, SigninTypeOK, Factors, NoFactor
  <2>2. RowsGo
    BY <1>15, <2>1 DEF StartSetup, PeriodPasses, ForgotPassword, signinVars, RowsGo, SigninInv,
       SigninTypeOK
  <2> QED BY <1>15, <2>2, OthersKeep DEF StartSetup, PeriodPasses, ForgotPassword, signinVars
<1> QED BY <1>1, <1>2, <1>3, <1>4, <1>5, <1>6, <1>7, <1>8, <1>9, <1>10, <1>11, <1>12, <1>13, <1>14,
   <1>15 DEF SigninNext, SessionNext, ResetNext

LEMMA SigninStarts == SigninInit => SigninInv
<1> SUFFICES ASSUME SigninInit PROVE SigninInv
  OBVIOUS
<1>1. attempt \in [Attempts -> AttemptRow]
  BY IdleIsARow DEF SigninInit
<1> QED BY <1>1, IdleIsARow, SigninAssumption DEF SigninInit, SigninInv, SigninTypeOK, AttemptInv,
   IdleAttempt, AttemptRow

\* Sessions, second factor and requests keep their types; only a session that the provider
\* granted is ever parked behind a challenge.
THEOREM SigninTypes == SigninSpec => []SigninTypeOK
<1>1. SigninInv => SigninTypeOK
  BY DEF SigninInv
<1> QED BY <1>1, SigninStarts, SigninKeeps, PTL DEF SigninSpec

\* auth-sessions.service.ts: "a revoked row stays revoked", and a refresh that starts behind the
\* revocation gets no tokens, whatever other requests do in between.
THEOREM RevocationLasts == SigninSpec => SessionsStayRevoked
<1>1. SigninSpec => []SigninInv
  BY SigninStarts, SigninKeeps, PTL DEF SigninSpec
<1>2. ASSUME SigninInv, [SigninNext]_signinVars
      PROVE  [/\ \A s \in Sessions : row[s] = "revoked" => row'[s] = "revoked"
              /\ \A r \in Attempts : attempt'[r].barred => attempt'[r].pc = "check"]_signinVars
  <2>1. SigninInv' /\ RowsGo
    BY <1>2, SigninKeeps
  <2> QED BY <2>1 DEF SigninInv, AttemptInv, RowsGo
<1> QED BY <1>1, <1>2, PTL DEF SigninSpec, SessionsStayRevoked

(***************************************************************************)
(* Throttling: the limit holds in every window.  The argument: what INCR   *)
(* answered differs among the hits of one window of Redis, so that the     *)
(* admitted ones inject into 1..RateLimit; a memory admits at most as many *)
(* hits of its window as it has counted.                                   *)
(***************************************************************************)
HitRow == [pc : {"new", "arrived", "counting", "expiring", "judged", "memory",
                 "admitted", "refused", "lost"},
           server : Servers, total : Nat, by : {"none", "redis", "memory"}, window : Nat]
BucketRow == [count : Nat, window : Nat, over : BOOLEAN, blocked : BOOLEAN]

HitsInv ==
    /\ counter \in [count : Nat, expiring : BOOLEAN, window : Nat]
    /\ blockKey \in BOOLEAN /\ interrupted \in BOOLEAN
    /\ bucket \in [Servers -> BucketRow] /\ hit \in [Hits -> HitRow]
    /\ \A h \in Hits : /\ hit[h].pc \in {"expiring", "judged"} => hit[h].by = "redis"
                       /\ hit[h].pc \in {"new", "arrived", "counting", "memory"} => hit[h].by = "none"
                       /\ hit[h].pc = "admitted" => hit[h].by # "none"

RedisInv ==
    /\ \A h \in Hits : hit[h].by = "redis" =>
         /\ 1 <= hit[h].total /\ hit[h].window <= counter.window
         /\ counter.count > 0 /\ hit[h].window = counter.window => hit[h].total <= counter.count
         /\ hit[h].pc = "admitted" => hit[h].total <= RateLimit
    /\ \A g, h \in Hits : hit[g].by = "redis" /\ hit[h].by = "redis" /\ hit[g].window = hit[h].window
                          /\ hit[g].total = hit[h].total => g = h

ExpiryInv ==
    counter.count > 0 /\ ~counter.expiring /\ ~interrupted =>
      \E h \in Hits : hit[h].pc = "expiring" /\ hit[h].window = counter.window

\* The hits that window w of the memory of s let through.
Passed(s, w) == {g \in Hits : /\ hit[g].pc = "admitted" /\ hit[g].by = "memory"
                              /\ hit[g].server = s /\ hit[g].window = w}

MemoryInv ==
    \A s \in Servers, w \in Nat :
      /\ IsFiniteSet(Passed(s, w)) /\ Cardinality(Passed(s, w)) <= RateLimit
      /\ w > bucket[s].window => Passed(s, w) = {}
      /\ w = bucket[s].window /\ bucket[s].count > 0 => Cardinality(Passed(s, w)) <= bucket[s].count

ThrottlingInv == HitsInv /\ RedisInv /\ ExpiryInv /\ MemoryInv

\* A step after which Redis counts no hit that it did not count before.
LEMMA RedisKeeps ==
    ASSUME HitsInv, RedisInv, counter'.window = counter.window,
           counter'.count \in {counter.count, 0},
           \A g \in Hits : hit'[g].by = "redis" =>
             /\ hit[g].by = "redis" /\ hit'[g].total = hit[g].total /\ hit'[g].window = hit[g].window
             /\ hit'[g].pc = "admitted" => hit'[g].total <= RateLimit
    PROVE  RedisInv'
  BY DEF HitsInv, RedisInv

\* A step after which a memory has admitted what it had admitted before.
PassesAlike ==
    /\ \A g \in Hits : (hit'[g].pc = "admitted" /\ hit'[g].by = "memory") =
                         (hit[g].pc = "admitted" /\ hit[g].by = "memory")
    /\ \A g \in Hits : hit[g].pc = "admitted" =>
                         hit'[g].server = hit[g].server /\ hit'[g].window = hit[g].window

LEMMA PassedAlike ==
    ASSUME HitsInv, PassesAlike
    PROVE  \A s \in Servers, w \in Nat : Passed(s, w)' = Passed(s, w)
  BY DEF PassesAlike, Passed

LEMMA MemoryKeeps ==
    ASSUME HitsInv, MemoryInv, PassesAlike,
           \A s \in Servers : /\ bucket'[s].window = bucket[s].window
                              /\ bucket'[s].count \in {bucket[s].count, 0}
    PROVE  MemoryInv'
  BY PassedAlike DEF HitsInv, BucketRow, MemoryInv

LEMMA ExpiryKeeps ==
    ASSUME ExpiryInv, counter'.window = counter.window, interrupted => interrupted',
           counter'.count \in {counter.count, 0},
           counter.expiring => counter'.expiring \/ counter'.count = 0,
           counter' \in [count : Nat, expiring : BOOLEAN, window : Nat],
           \A g \in Hits : hit[g].pc = "expiring" =>
             hit'[g] = hit[g] \/ interrupted' \/ counter'.expiring
    PROVE  ExpiryInv'
  BY DEF ExpiryInv

\* A step of h that only moves on: its other fields stay.
Moves(h, from, to) ==
    /\ hit[h].pc = from /\ hit' \in [Hits -> HitRow] /\ \A g \in Hits \ {h} : hit'[g] = hit[g]
    /\ hit'[h].pc = to /\ hit'[h].by = hit[h].by /\ hit'[h].total = hit[h].total
    /\ hit'[h].window = hit[h].window /\ hit'[h].server = hit[h].server

LEMMA MovesOn ==
    ASSUME HitsInv, NEW h \in Hits, NEW to \in {"arrived", "counting", "judged", "memory", "admitted",
                                                "refused"},
           hit' = [hit EXCEPT ![h].pc = to]
    PROVE  Moves(h, hit[h].pc, to)
<1> DEFINE entry == [hit[h] EXCEPT !.pc = to]
<1>1. entry \in HitRow /\ entry.pc = to /\ entry.by = hit[h].by /\ entry.total = hit[h].total
      /\ entry.window = hit[h].window /\ entry.server = hit[h].server
  BY DEF HitsInv, HitRow
<1>2. hit' = [hit EXCEPT ![h] = entry]
  BY DEF HitsInv
<1> HIDE DEF entry
<1>3. hit' \in [Hits -> HitRow] /\ hit'[h] = entry /\ \A g \in Hits \ {h} : hit'[g] = hit[g]
  BY <1>1, <1>2 DEF HitsInv
<1> QED BY <1>1, <1>3 DEF Moves

LEMMA RedisStepKeeps ==
    ASSUME ThrottlingInv, NEW h \in Hits,
           (\E ready \in BOOLEAN : Arrive(h, ready)) \/ CheckBlock(h) \/ SetExpiry(h) \/ Judge(h)
           \/ RedisFails(h)
    PROVE  ThrottlingInv'
<1> USE DEF ThrottlingInv
<1>1. CASE (\E ready \in BOOLEAN : Arrive(h, ready)) \/ CheckBlock(h)
  <2>1. PICK to \in {"arrived", "memory", "refused", "counting"} :
          /\ hit' = [hit EXCEPT ![h].pc = to] /\ hit[h].pc \in {"new", "arrived"}
          /\ UNCHANGED <<counter, blockKey, bucket, interrupted>>
    BY <1>1 DEF Arrive, CheckBlock
  <2>2. Moves(h, hit[h].pc, to) /\ hit[h].by = "none"
    BY <2>1, MovesOn DEF HitsInv
  <2>3. HitsInv'
    BY <2>1, <2>2 DEF HitsInv, Moves
  <2>4. RedisInv'
    BY <2>1, <2>2, RedisKeeps DEF Moves, RedisInv
  <2>5. PassesAlike
    BY <2>1, <2>2 DEF Moves, PassesAlike
  <2>6. MemoryInv'
    BY <2>1, <2>5, MemoryKeeps
  <2>7. ExpiryInv'
    BY <2>1, <2>2 DEF Moves, ExpiryInv
  <2> QED BY <2>3, <2>4, <2>6, <2>7
<1>2. CASE SetExpiry(h)
  <2>1. /\ hit[h].pc = "expiring" /\ counter' = [counter EXCEPT !.expiring = TRUE]
        /\ UNCHANGED <<blockKey, bucket, interrupted>> /\ Moves(h, "expiring", "judged")
    BY <1>2, MovesOn DEF SetExpiry
  <2>2. /\ counter' \in [count : Nat, expiring : BOOLEAN, window : Nat] /\ counter'.expiring
        /\ counter'.count = counter.count /\ counter'.window = counter.window
    BY <2>1 DEF HitsInv
  <2>3. HitsInv' /\ PassesAlike
    BY <2>1, <2>2 DEF HitsInv, Moves, PassesAlike
  <2>4. RedisInv'
    BY <2>1, <2>2, RedisKeeps DEF Moves, RedisInv
  <2>5. MemoryInv'
    BY <2>1, <2>3, MemoryKeeps
  <2>6. ExpiryInv'
    BY <2>2 DEF ExpiryInv
  <2> QED BY <2>3, <2>4, <2>5, <2>6
<1>3. CASE Judge(h)
  <2>1. PICK to \in {"refused", "admitted"} :
          /\ hit' = [hit EXCEPT ![h].pc = to] /\ (to = "admitted" => ~(hit[h].total > RateLimit))
          /\ hit[h].pc = "judged" /\ UNCHANGED <<counter, bucket, interrupted>>
          /\ blockKey' \in BOOLEAN
    BY <1>3 DEF Judge
  <2>2. Moves(h, "judged", to) /\ hit[h].by = "redis" /\ hit[h].total \in Nat
    BY <2>1, MovesOn DEF HitsInv, HitRow
  <2>3. HitsInv' /\ PassesAlike
    BY <2>1, <2>2 DEF HitsInv, Moves, PassesAlike
  <2>4. RedisInv'
    BY <2>1, <2>2, RedisKeeps, ThrottlingAssumption DEF Moves, RedisInv
  <2>5. MemoryInv'
    BY <2>1, <2>3, MemoryKeeps
  <2>6. ExpiryInv'
    BY <2>1, <2>2 DEF ExpiryInv, Moves
  <2> QED BY <2>3, <2>4, <2>5, <2>6
<1>4. CASE RedisFails(h)
  <2> DEFINE entry == [hit[h] EXCEPT !.pc = "memory", !.by = "none"]
  <2>1. entry \in HitRow /\ entry.pc = "memory" /\ entry.by = "none" /\ hit[h] \in HitRow
    BY DEF HitsInv, HitRow
  <2>2. hit' = [hit EXCEPT ![h] = entry]
    BY <1>4 DEF RedisFails, HitsInv
  <2> HIDE DEF entry
  <2>3. hit' \in [Hits -> HitRow] /\ hit'[h] = entry /\ \A g \in Hits \ {h} : hit'[g] = hit[g]
    BY <2>1, <2>2 DEF HitsInv
  <2>4. /\ UNCHANGED <<counter, blockKey, bucket>> /\ interrupted' \in BOOLEAN
        /\ hit[h].pc # "admitted"
        /\ interrupted => interrupted'
        /\ hit[h].pc = "expiring" => interrupted'
    BY <1>4 DEF RedisFails, HitsInv
  <2>5. HitsInv' /\ PassesAlike
    <3>1. HitsInv'
      BY <2>1, <2>3, <2>4 DEF HitsInv
    <3>2. hit'[h].pc = "memory" /\ hit[h].pc # "admitted"
      BY <2>1, <2>3, <2>4
    <3> QED BY <2>3, <3>1, <3>2 DEF PassesAlike
  <2>6. RedisInv'
    BY <2>1, <2>3, <2>4, RedisKeeps DEF RedisInv
  <2>7. MemoryInv'
    BY <2>4, <2>5, MemoryKeeps
  <2>8. ExpiryInv'
    BY <2>1, <2>3, <2>4 DEF ExpiryInv
  <2> QED BY <2>5, <2>6, <2>7, <2>8
<1> QED BY <1>1, <1>2, <1>3, <1>4

LEMMA IncrementKeeps ==
    ASSUME ThrottlingInv, NEW h \in Hits, Increment(h)
    PROVE  ThrottlingInv'
<1> USE DEF ThrottlingInv
<1> DEFINE total == counter.count + 1
           window == counter.window + (IF total = 1 THEN 1 ELSE 0)
           pc == IF total = 1 THEN "expiring" ELSE "judged"
           entry == [hit[h] EXCEPT !.pc = pc, !.total = total, !.by = "redis", !.window = window]
<1>1. /\ total \in Nat /\ window \in Nat /\ pc \in {"expiring", "judged"}
      /\ total > counter.count /\ window >= counter.window /\ total > 0
      /\ counter.count = 0 => window > counter.window /\ pc = "expiring"
      /\ counter.count > 0 => window = counter.window
  BY DEF HitsInv
<1>2. /\ counter' = [counter EXCEPT !.count = total, !.window = window]
      /\ hit' = [hit EXCEPT ![h] = entry] /\ hit[h].pc = "counting"
      /\ UNCHANGED <<blockKey, bucket, interrupted>>
  BY DEF Increment, HitsInv
<1> HIDE DEF total, window, pc
<1>3. /\ entry \in HitRow /\ entry.pc = pc /\ entry.total = total
      /\ entry.by = "redis" /\ entry.window = window
      /\ entry.server = hit[h].server
  BY <1>1 DEF HitsInv, HitRow
<1> HIDE DEF entry
<1>4. hit' \in [Hits -> HitRow] /\ hit'[h] = entry /\ \A g \in Hits \ {h} : hit'[g] = hit[g]
  BY <1>2, <1>3 DEF HitsInv
<1>5. /\ counter' \in [count : Nat, expiring : BOOLEAN, window : Nat]
      /\ counter'.count = total /\ counter'.window = window /\ counter'.expiring = counter.expiring
  BY <1>1, <1>2 DEF HitsInv
<1>6. HitsInv' /\ PassesAlike
  BY <1>1, <1>2, <1>3, <1>4, <1>5 DEF HitsInv, PassesAlike
<1>7. MemoryInv'
  BY <1>2, <1>6, MemoryKeeps
<1>8. RedisInv'
  <2>1. ASSUME NEW g \in Hits \ {h}, hit[g].by = "redis"
        PROVE  /\ hit'[g] = hit[g] /\ 1 <= hit[g].total /\ hit[g].window <= window
               /\ hit[g].window = window => hit[g].total < total
               /\ hit[g].pc = "admitted" => hit[g].total <= RateLimit
    BY <1>1, <1>4, <2>1 DEF RedisInv, HitsInv, HitRow
  <2>2. /\ hit'[h].total = total /\ hit'[h].window = window /\ hit'[h].pc # "admitted"
        /\ hit'[h].by = "redis"
    BY <1>1, <1>3, <1>4
  <2>3. ASSUME NEW g \in Hits, hit'[g].by = "redis"
        PROVE  /\ 1 <= hit'[g].total /\ hit'[g].window <= window
               /\ hit'[g].window = window => hit'[g].total <= total
               /\ hit'[g].pc = "admitted" => hit'[g].total <= RateLimit
    <3>1. CASE g = h
      BY <1>1, <2>2, <3>1
    <3>2. CASE g # h
      BY <1>1, <1>4, <2>1, <2>3, <3>2 DEF HitsInv, HitRow
    <3> QED BY <3>1, <3>2
  <2>4. ASSUME NEW f \in Hits, NEW g \in Hits, hit'[f].by = "redis", hit'[g].by = "redis",
               hit'[f].window = hit'[g].window, hit'[f].total = hit'[g].total
        PROVE  f = g
    <3>1. CASE f # h /\ g # h
      BY <1>4, <2>4, <3>1 DEF RedisInv
    <3>2. CASE f = h /\ g # h
      BY <1>1, <1>4, <2>1, <2>2, <2>4, <3>2 DEF HitsInv, HitRow
    <3>3. CASE f # h /\ g = h
      BY <1>1, <1>4, <2>1, <2>2, <2>4, <3>3 DEF HitsInv, HitRow
    <3> QED BY <3>1, <3>2, <3>3
  <2> QED BY <1>5, <2>3, <2>4 DEF RedisInv
<1>9. ExpiryInv'
  <2>1. CASE counter.count = 0
    BY <1>1, <1>3, <1>4, <1>5, <2>1 DEF ExpiryInv
  <2>2. CASE counter.count > 0
    BY <1>1, <1>2, <1>4, <1>5, <2>2 DEF ExpiryInv
  <2> QED BY <2>1, <2>2 DEF HitsInv
<1> QED BY <1>6, <1>7, <1>8, <1>9

LEMMA CountKeeps ==
    ASSUME ThrottlingInv, NEW h \in Hits, CountInMemory(h)
    PROVE  ThrottlingInv'
<1> USE DEF ThrottlingInv
<1> DEFINE s == hit[h].server
           b == bucket[s]
           fresh == b.count = 0 \/ (b.over /\ ~b.blocked)
           count == IF fresh THEN 1 ELSE b.count + 1
           window == b.window + (IF fresh THEN 1 ELSE 0)
           refused == b.blocked \/ count > RateLimit
           over == ~fresh /\ b.over
           pc == IF refused THEN "refused" ELSE "admitted"
           entry == [hit[h] EXCEPT !.pc = pc, !.by = "memory", !.window = window]
           cell == [count |-> count, window |-> window, over |-> over, blocked |-> refused]
<1>0. s \in Servers /\ b \in BucketRow /\ hit[h] \in HitRow
  BY DEF HitsInv, HitRow
<1>1. /\ count \in Nat /\ window \in Nat /\ refused \in BOOLEAN /\ over \in BOOLEAN
      /\ window >= b.window /\ count > 0 /\ fresh \in BOOLEAN
      /\ fresh => window > b.window /\ count = 1
      /\ ~fresh => window = b.window /\ b.count > 0 /\ count = b.count + 1
      /\ pc \in {"refused", "admitted"} /\ (pc = "admitted" => ~b.blocked /\ count <= RateLimit)
  BY <1>0, ThrottlingAssumption DEF BucketRow
<1>2. /\ hit' = [hit EXCEPT ![h] = entry] /\ hit[h].pc = "memory"
      /\ UNCHANGED <<counter, blockKey, interrupted>>
      /\ bucket' = IF b.blocked THEN bucket ELSE [bucket EXCEPT ![s] = cell]
  BY DEF CountInMemory, HitsInv
<1> HIDE DEF count, window, refused, over, pc, fresh
<1>3. /\ entry \in HitRow /\ entry.pc = pc /\ entry.by = "memory" /\ entry.window = window
      /\ entry.server = s
  BY <1>0, <1>1 DEF HitRow
<1>4. cell \in BucketRow /\ cell.count = count /\ cell.window = window
  BY <1>1 DEF BucketRow
<1> HIDE DEF entry, cell
<1>5. hit' \in [Hits -> HitRow] /\ hit'[h] = entry /\ \A g \in Hits \ {h} : hit'[g] = hit[g]
  BY <1>2, <1>3 DEF HitsInv
<1>6. /\ bucket' \in [Servers -> BucketRow] /\ \A t \in Servers \ {s} : bucket'[t] = bucket[t]
      /\ IF b.blocked THEN bucket'[s] = b ELSE bucket'[s] = cell
  BY <1>0, <1>2, <1>4 DEF HitsInv
<1> HIDE DEF s, b
<1>7. HitsInv'
  BY <1>1, <1>2, <1>3, <1>5, <1>6 DEF HitsInv
<1>8. RedisInv'
  BY <1>2, <1>3, <1>5, RedisKeeps DEF RedisInv
<1>9. ExpiryInv'
  BY <1>2, <1>5 DEF ExpiryInv
<1>10. \A t \in Servers, w \in Nat : t # s \/ w # window \/ pc = "refused" =>
                                      Passed(t, w)' = Passed(t, w)
  <2> SUFFICES ASSUME NEW t \in Servers, NEW w \in Nat, t # s \/ w # window \/ pc = "refused",
                      NEW g \in Hits
               PROVE  (/\ hit[g].pc = "admitted" /\ hit[g].by = "memory"
                       /\ hit[g].server = t /\ hit[g].window = w)'
                      <=> (/\ hit[g].pc = "admitted" /\ hit[g].by = "memory"
                           /\ hit[g].server = t /\ hit[g].window = w)
    BY DEF Passed
  <2>1. CASE g = h
    BY <1>2, <1>3, <1>5, <2>1
  <2>2. CASE g # h
    BY <1>5, <2>2
  <2> QED BY <2>1, <2>2
<1>11. \A t \in Servers, w \in Nat : t = s /\ w = window /\ pc = "admitted" =>
                                      Passed(t, w)' = Passed(t, w) \cup {h}
  <2> SUFFICES ASSUME NEW t \in Servers, NEW w \in Nat, t = s, w = window, pc = "admitted",
                      NEW g \in Hits
               PROVE  (/\ hit[g].pc = "admitted" /\ hit[g].by = "memory"
                       /\ hit[g].server = t /\ hit[g].window = w)'
                      <=> (\/ /\ hit[g].pc = "admitted" /\ hit[g].by = "memory"
                              /\ hit[g].server = t /\ hit[g].window = w
                           \/ g = h)
    BY DEF Passed
  <2>1. CASE g = h
    BY <1>3, <1>5, <2>1
  <2>2. CASE g # h
    BY <1>5, <2>2
  <2> QED BY <2>1, <2>2
<1>12. MemoryInv'
  <2> SUFFICES ASSUME NEW t \in Servers, NEW w \in Nat
               PROVE  /\ IsFiniteSet(Passed(t, w)') /\ Cardinality(Passed(t, w)') <= RateLimit
                      /\ w > bucket'[t].window => Passed(t, w)' = {}
                      /\ w = bucket'[t].window /\ bucket'[t].count > 0 =>
                           Cardinality(Passed(t, w)') <= bucket'[t].count
    BY DEF MemoryInv
  <2>0. /\ IsFiniteSet(Passed(t, w)) /\ Cardinality(Passed(t, w)) <= RateLimit
        /\ w > bucket[t].window => Passed(t, w) = {}
        /\ w = bucket[t].window /\ bucket[t].count > 0 => Cardinality(Passed(t, w)) <= bucket[t].count
        /\ bucket[t] \in BucketRow
        /\ Cardinality(Passed(t, w)) \in Nat
    BY FS_CardinalityType DEF MemoryInv, HitsInv
  <2>1. CASE t # s
    BY <1>6, <1>10, <2>0, <2>1
  <2>2. CASE t = s /\ b.blocked
    BY <1>1, <1>6, <1>10, <2>0, <2>2 DEF b
  <2>3. CASE t = s /\ ~b.blocked /\ (w # window \/ pc = "refused")
    <3>1. bucket'[t].window = window /\ bucket'[t].count = count /\ b = bucket[t]
      BY <1>4, <1>6, <2>3 DEF b
    <3>2. Passed(t, w)' = Passed(t, w)
      BY <1>10, <2>3
    <3>3. w > window => Passed(t, w) = {}
      BY <1>1, <2>0, <3>1 DEF BucketRow
    <3>4. w = window => Cardinality(Passed(t, w)) <= count
      <4>1. CASE fresh
        <5>1. w = window => Passed(t, w) = {}
          BY <1>1, <2>0, <3>1, <4>1 DEF BucketRow
        <5> QED BY <1>1, <4>1, <5>1, FS_EmptySet
      <4>2. CASE ~fresh
        BY <1>1, <2>0, <3>1, <4>2 DEF BucketRow
      <4> QED BY <4>1, <4>2
    <3> QED BY <2>0, <3>1, <3>2, <3>3, <3>4
  <2>4. CASE t = s /\ ~b.blocked /\ w = window /\ pc = "admitted"
    <3>1. bucket'[t].window = window /\ bucket'[t].count = count /\ b = bucket[t] /\ count <= RateLimit
      BY <1>1, <1>4, <1>6, <2>4 DEF b
    <3>2. Passed(t, w)' = Passed(t, w) \cup {h} /\ h \notin Passed(t, w)
      BY <1>2, <1>11, <2>4 DEF Passed
    <3>3. /\ IsFiniteSet(Passed(t, w)')
          /\ Cardinality(Passed(t, w)') = Cardinality(Passed(t, w)) + 1
      BY <2>0, <3>2, FS_AddElement
    <3>4. Cardinality(Passed(t, w)) + 1 <= count
      <4>1. CASE fresh
        <5>1. Passed(t, w) = {}
          BY <1>1, <2>0, <2>4, <3>1, <4>1 DEF BucketRow
        <5> QED BY <1>1, <4>1, <5>1, FS_EmptySet
      <4>2. CASE ~fresh
        BY <1>1, <2>0, <2>4, <3>1, <4>2 DEF BucketRow
      <4> QED BY <4>1, <4>2
    <3> QED BY <1>1, <2>0, <2>4, <3>1, <3>3, <3>4, ThrottlingAssumption
  <2> QED BY <1>1, <2>1, <2>2, <2>3, <2>4
<1> QED BY <1>7, <1>8, <1>9, <1>12

LEMMA ClocksKeep ==
    ASSUME ThrottlingInv,
           WindowEnds \/ BlockEnds \/ \E s \in Servers : MemoryWindowEnds(s) \/ MemoryBlockEnds(s)
    PROVE  ThrottlingInv'
<1> USE DEF ThrottlingInv
<1>1. CASE WindowEnds
  <2>1. /\ counter' \in [count : Nat, expiring : BOOLEAN, window : Nat] /\ counter'.count = 0
        /\ counter'.window = counter.window /\ UNCHANGED <<blockKey, bucket, hit, interrupted>>
    BY <1>1 DEF WindowEnds, HitsInv
  <2>2. HitsInv' /\ MemoryInv'
    BY <2>1 DEF HitsInv, MemoryInv, Passed
  <2>3. RedisInv'
    BY <2>1, RedisKeeps DEF RedisInv
  <2> QED BY <2>1, <2>2, <2>3 DEF ExpiryInv
<1>2. CASE BlockEnds
  <2>1. UNCHANGED <<counter, bucket, hit, interrupted>> /\ blockKey' \in BOOLEAN
    BY <1>2 DEF BlockEnds
  <2>2. HitsInv'
    BY <2>1 DEF HitsInv
  <2>3. MemoryInv'
    BY <2>1 DEF MemoryInv, Passed
  <2>4. RedisInv' /\ ExpiryInv'
    BY <2>1 DEF RedisInv, ExpiryInv
  <2> QED BY <2>2, <2>3, <2>4
<1>3. ASSUME NEW s \in Servers, MemoryWindowEnds(s) \/ MemoryBlockEnds(s)
      PROVE  ThrottlingInv'
  <2>1. UNCHANGED <<counter, blockKey, hit, interrupted>>
    BY <1>3 DEF MemoryWindowEnds, MemoryBlockEnds
  <2>2. PICK entry \in BucketRow : /\ bucket' = [bucket EXCEPT ![s] = entry]
                                 /\ entry.window = bucket[s].window /\ entry.count = bucket[s].count
    <3>1. /\ [bucket[s] EXCEPT !.over = TRUE] \in BucketRow
          /\ [bucket[s] EXCEPT !.blocked = FALSE] \in BucketRow
      BY DEF HitsInv, BucketRow
    <3> QED BY <1>3, <3>1 DEF MemoryWindowEnds, MemoryBlockEnds, HitsInv, BucketRow
  <2>3. HitsInv' /\ RedisInv' /\ ExpiryInv'
    BY <2>1, <2>2 DEF HitsInv, RedisInv, ExpiryInv
  <2>4. PassesAlike
    BY <2>1 DEF PassesAlike
  <2>5. MemoryInv'
    BY <2>2, <2>4, MemoryKeeps DEF HitsInv
  <2> QED BY <2>3, <2>5
<1> QED BY <1>1, <1>2, <1>3

LEMMA StopKeeps ==
    ASSUME ThrottlingInv, NEW s \in Servers, ServerStops(s)
    PROVE  ThrottlingInv'
<1> USE DEF ThrottlingInv
<1> DEFINE lost == {h \in Hits : /\ hit[h].server = s
                                 /\ hit[h].pc \notin {"new", "admitted", "refused", "lost"}}
           cell == [NoBucket EXCEPT !.window = bucket[s].window]
<1>1. /\ interrupted' = (interrupted \/ \E h \in lost : hit[h].pc = "expiring")
      /\ hit' = [h \in Hits |-> IF h \in lost THEN [hit[h] EXCEPT !.pc = "lost"] ELSE hit[h]]
      /\ bucket' = [bucket EXCEPT ![s] = cell] /\ UNCHANGED <<counter, blockKey>>
  BY DEF ServerStops
<1>2. cell \in BucketRow /\ cell.window = bucket[s].window /\ cell.count = 0
  BY DEF NoBucket, BucketRow, HitsInv
<1> HIDE DEF cell
<1>3. ASSUME NEW h \in Hits
      PROVE  /\ hit'[h] \in HitRow /\ hit'[h].by = hit[h].by /\ hit'[h].total = hit[h].total
             /\ hit'[h].server = hit[h].server /\ hit'[h].window = hit[h].window
             /\ h \notin lost => hit'[h] = hit[h]
             /\ h \in lost => hit[h].pc # "admitted" /\ hit'[h].pc = "lost"
  <2>1. hit[h] \in HitRow
    BY DEF HitsInv
  <2> QED BY <1>1, <2>1 DEF HitRow
<1>4. interrupted' \in BOOLEAN /\ \A h \in lost : hit[h].pc = "expiring" => interrupted'
  BY <1>1 DEF HitsInv
<1>5. interrupted => interrupted'
  BY <1>1
<1>6. /\ hit' \in [Hits -> HitRow] /\ lost \subseteq Hits
  BY <1>1, <1>3
<1> HIDE DEF lost
<1>7. HitsInv'
  BY <1>1, <1>2, <1>3, <1>4, <1>6 DEF HitsInv
<1>8. PassesAlike
  BY <1>3 DEF PassesAlike
<1>9. MemoryInv'
  BY <1>1, <1>2, <1>8, MemoryKeeps DEF HitsInv
<1>10. RedisInv'
  BY <1>1, <1>3, RedisKeeps DEF RedisInv
<1>11. ExpiryInv'
  BY <1>1, <1>3, <1>4, <1>5 DEF ExpiryInv
<1> QED BY <1>7, <1>9, <1>10, <1>11

LEMMA ThrottlingKeeps == ThrottlingInv /\ [ThrottlingNext]_throttlingVars => ThrottlingInv'
<1>1. ASSUME ThrottlingInv, UNCHANGED throttlingVars PROVE ThrottlingInv'
  <2>1. HitsInv'
    BY <1>1 DEF throttlingVars, ThrottlingInv, HitsInv
  <2>2. RedisInv'
    BY <1>1 DEF throttlingVars, ThrottlingInv, RedisInv
  <2>3. ExpiryInv'
    BY <1>1 DEF throttlingVars, ThrottlingInv, ExpiryInv
  <2>4. MemoryInv'
    BY <1>1 DEF throttlingVars, ThrottlingInv, MemoryInv, Passed
  <2> QED BY <2>1, <2>2, <2>3, <2>4 DEF ThrottlingInv
<1> QED BY <1>1, RedisStepKeeps, IncrementKeeps, CountKeeps, ClocksKeep, StopKeeps DEF
   ThrottlingNext

LEMMA ThrottlingStarts == ThrottlingInit => ThrottlingInv
<1> SUFFICES ASSUME ThrottlingInit PROVE ThrottlingInv
  OBVIOUS
<1>1. hit \in [Hits -> HitRow] /\ \A h \in Hits : hit[h].pc = "new" /\ hit[h].by = "none"
  BY DEF ThrottlingInit, HitRow
<1>2. NoBucket \in BucketRow /\ NoBucket.count = 0
  BY DEF NoBucket, BucketRow
<1>3. HitsInv /\ RedisInv /\ ExpiryInv
  <2>1. /\ counter = [count |-> 0, expiring |-> FALSE, window |-> 0] /\ blockKey = FALSE
        /\ bucket = [s \in Servers |-> NoBucket] /\ interrupted = FALSE
    BY DEF ThrottlingInit
  <2>2. /\ counter \in [count : Nat, expiring : BOOLEAN, window : Nat] /\ counter.count = 0
        /\ bucket \in [Servers -> BucketRow]
    BY <1>2, <2>1
  <2>3. HitsInv
    BY <1>1, <2>1, <2>2 DEF HitsInv
  <2> QED BY <1>1, <2>2, <2>3 DEF RedisInv, ExpiryInv
<1>4. \A s \in Servers, w \in Nat : Passed(s, w) = {}
  BY <1>1 DEF Passed
<1>5. MemoryInv
  <2>1. IsFiniteSet({}) /\ Cardinality({}) = 0
    BY FS_EmptySet
  <2>2. \A s \in Servers : bucket[s].count = 0
    BY <1>2 DEF ThrottlingInit
  <2>3. 0 <= RateLimit
    BY ThrottlingAssumption
  <2>4. ASSUME NEW s \in Servers, NEW w \in Nat
        PROVE  /\ IsFiniteSet(Passed(s, w)) /\ Cardinality(Passed(s, w)) <= RateLimit
               /\ w > bucket[s].window => Passed(s, w) = {}
               /\ ~(bucket[s].count > 0)
    BY <1>4, <2>1, <2>2, <2>3
  <2> QED BY <2>4 DEF MemoryInv
<1> QED BY <1>3, <1>5 DEF ThrottlingInv

\* At most n things have different numbers in 1..n.
LEMMA FewNumbers ==
    ASSUME NEW S, NEW n \in Nat, NEW number \in [S -> 1..n],
           \A a, b \in S : number[a] = number[b] => a = b
    PROVE  Cardinality(S) <= n
<1>1. number \in Injection(S, 1..n)
  BY DEF Injection, IsInjective
<1>2. IsFiniteSet(1..n) /\ Cardinality(1..n) = n
  BY FS_Interval
<1> QED BY <1>1, <1>2, FS_Injection

\* The throttler of app.module.ts over Redis and its fallback (redis-throttler.storage.ts): whatever
\* fails, a window of the shared counter or of one memory lets at most the limit through, and a
\* counter that counts has an expiry coming unless the request that would set it was interrupted.
THEOREM WindowsAreLimited == ThrottlingSpec => []LimitsHold
<1>1. ThrottlingInv => LimitsHold
  <2> SUFFICES ASSUME ThrottlingInv PROVE LimitsHold
    OBVIOUS
  <2>1. ASSUME NEW h \in Hits, hit[h].pc = "admitted"
        PROVE  Cardinality({g \in Hits : /\ hit[g].pc = "admitted" /\ hit[g].by = hit[h].by
                                         /\ hit[g].window = hit[h].window
                                         /\ hit[h].by = "memory" => hit[g].server = hit[h].server})
                 <= RateLimit
    <3> DEFINE S == {g \in Hits : /\ hit[g].pc = "admitted" /\ hit[g].by = hit[h].by
                                  /\ hit[g].window = hit[h].window
                                  /\ hit[h].by = "memory" => hit[g].server = hit[h].server}
    <3>0. hit[h].by \in {"redis", "memory"} /\ hit[h].server \in Servers /\ hit[h].window \in Nat
      BY <2>1 DEF ThrottlingInv, HitsInv, HitRow
    <3>1. CASE hit[h].by = "redis"
      <4>1. ASSUME NEW g \in S PROVE hit[g].by = "redis" /\ hit[g].total \in 1..RateLimit
        BY <3>1, ThrottlingAssumption DEF ThrottlingInv, RedisInv, HitsInv, HitRow
      <4> DEFINE number == [g \in S |-> hit[g].total]
      <4>2. number \in [S -> 1..RateLimit]
        BY <4>1
      <4>3. ASSUME NEW a \in S, NEW b \in S, number[a] = number[b] PROVE a = b
        BY <4>1, <4>3 DEF ThrottlingInv, RedisInv
      <4> HIDE DEF S, number
      <4>4. Cardinality(S) <= RateLimit
        BY <4>2, <4>3, FewNumbers, ThrottlingAssumption
      <4> QED BY <4>4 DEF S
    <3>2. CASE hit[h].by = "memory"
      <4>1. S = Passed(hit[h].server, hit[h].window)
        BY <3>2 DEF Passed
      <4> QED BY <3>0, <4>1 DEF ThrottlingInv, MemoryInv
    <3> QED BY <3>0, <3>1, <3>2
  <2> QED BY <2>1 DEF LimitsHold, ThrottlingInv, ExpiryInv
<1> QED BY <1>1, ThrottlingStarts, ThrottlingKeeps, PTL DEF ThrottlingSpec

(***************************************************************************)
(* Conversations: replies and decisions.  The argument: an item is decided *)
(* only behind a reply, so no later reply replaces it, and a decision sets *)
(* its approval or finds it set alike, which is final.                     *)
(***************************************************************************)
ItemRow == [decision : {"PENDING"} \cup Verdicts, approval : SUBSET Approvals]
ApprovalRow == [status : {"PENDING"} \cup Verdicts, changed : BOOLEAN]

ConversationInv ==
    /\ replies \in [Questions -> {0, 1}]
    /\ item \in [Questions -> ItemRow]
    /\ approval \in [Approvals -> ApprovalRow]
    /\ \A q \in Questions : replies[q] = 0 => item[q].decision = "PENDING"
    /\ \A q \in Questions : item[q].decision # "PENDING" =>
         \A a \in item[q].approval : approval[a].status = item[q].decision

\* What one step does to replies, items and approvals.
ConversationEffect ==
    /\ \A q \in Questions :
         /\ item[q].decision # "PENDING" /\ chat' = "open" => item'[q] = item[q]
         /\ item'[q].decision # "PENDING" => item'[q] = item[q] \/ replies[q] = 1
    /\ \A a \in Approvals : approval[a].status \in {"PENDING", approval'[a].status}

LEMMA ConversationStarts == ConversationInit => ConversationInv
  BY DEF ConversationInit, ConversationInv, NoItem, ItemRow, ApprovalRow

LEMMA ConversationKeeps ==
    ASSUME ConversationInv, [ConversationNext]_conversationVars
    PROVE  ConversationInv' /\ ConversationEffect
<1> USE DEF ConversationInv
<1>1. CASE CreateChat \/ \E q \in Questions : CreateMessage(q)
  BY <1>1 DEF CreateChat, CreateMessage, ConversationEffect
<1>2. CASE RemoveChat
  <2>1. /\ chat' = "deleted" /\ UNCHANGED approval
        /\ \A q \in Questions : replies'[q] = 0 /\ item'[q] = NoItem
        /\ replies' \in [Questions -> {0, 1}] /\ item' \in [Questions -> ItemRow]
    BY <1>2 DEF RemoveChat, NoItem, ItemRow
  <2> QED BY <2>1 DEF ConversationEffect, NoItem
<1>3. CASE \E r \in Calls : AgentFails(r) \/ \E q \in Questions : Respond(r, q)
  BY <1>3 DEF AgentFails, Respond, ConversationEffect
<1>4. ASSUME NEW r \in Calls, NEW as \in SUBSET Approvals, PersistReply(r, as)
      PROVE  ConversationInv' /\ ConversationEffect
  <2> DEFINE new == {q \in call[r] : UnansweredStill(q)}
  <2>1. /\ \A q \in new : replies[q] = 0
        /\ replies' = [q \in Questions |-> replies[q] + IF q \in new THEN 1 ELSE 0]
        /\ item' = [q \in Questions |-> IF q \in new
                      THEN [NoItem EXCEPT !.approval = as] ELSE item[q]]
        /\ UNCHANGED <<chat, approval>>
    BY <1>4 DEF PersistReply, UnansweredStill
  <2> HIDE DEF new
  <2>2. /\ \A q \in Questions : q \in new => replies'[q] = 1 /\ item'[q].decision = "PENDING"
        /\ \A q \in Questions : q \notin new => replies'[q] = replies[q] /\ item'[q] = item[q]
        /\ replies' \in [Questions -> {0, 1}] /\ item' \in [Questions -> ItemRow]
    <3> DEFINE fresh == [NoItem EXCEPT !.approval = as]
    <3>1. fresh \in ItemRow /\ fresh.decision = "PENDING"
      BY DEF NoItem, ItemRow
    <3> HIDE DEF fresh
    <3>2. item' = [q \in Questions |-> IF q \in new THEN fresh ELSE item[q]]
      BY <2>1 DEF fresh
    <3>3. /\ \A q \in Questions : q \in new => item'[q].decision = "PENDING"
          /\ \A q \in Questions : q \notin new => item'[q] = item[q]
          /\ item' \in [Questions -> ItemRow]
      BY <3>1, <3>2
    <3>4. /\ \A q \in Questions : q \in new => replies'[q] = 1
          /\ \A q \in Questions : q \notin new => replies'[q] = replies[q]
          /\ replies' \in [Questions -> {0, 1}]
      BY <2>1
    <3> QED BY <3>3, <3>4
  <2> QED BY <2>1, <2>2 DEF ConversationEffect
<1>5. ASSUME NEW p \in Questions, NEW verdict \in Verdicts, Decide(p, verdict)
      PROVE  ConversationInv' /\ ConversationEffect
  <2>1. /\ replies[p] = 1 /\ item[p].decision = "PENDING" /\ UNCHANGED replies
        /\ \A a \in item[p].approval : approval[a].status \in {"PENDING", verdict}
        /\ approval' = [a \in Approvals |->
                          IF a \in item[p].approval /\ approval[a].status = "PENDING"
                          THEN [approval[a] EXCEPT !.status = verdict] ELSE approval[a]]
        /\ item' = [item EXCEPT ![p].decision = verdict]
    BY <1>5 DEF Decide, AgreesWithApproval
  <2>2. item[p] \in ItemRow /\ verdict # "PENDING"
    BY DEF Verdicts
  <2>3. /\ item'[p].decision = verdict /\ item'[p].approval = item[p].approval
        /\ \A q \in Questions \ {p} : item'[q] = item[q]
        /\ item' \in [Questions -> ItemRow]
    BY <2>1, <2>2 DEF ItemRow
  <2>4. /\ \A a \in Approvals : /\ approval'[a] \in ApprovalRow
                                /\ approval[a].status \in {"PENDING", approval'[a].status}
        /\ \A a \in item[p].approval : approval'[a].status = verdict
        /\ approval' \in [Approvals -> ApprovalRow]
    BY <2>1, <2>2 DEF ItemRow, ApprovalRow
  <2>5. \A q \in Questions : item'[q].decision # "PENDING" =>
           \A a \in item'[q].approval : approval'[a].status = item'[q].decision
    BY <2>3, <2>4 DEF ItemRow
  <2> QED BY <2>1, <2>3, <2>4, <2>5 DEF ConversationEffect
<1>6. ASSUME NEW b \in Approvals, QuoteChanges(b)
      PROVE  ConversationInv' /\ ConversationEffect
  <2>1. /\ approval' \in [Approvals -> ApprovalRow] /\ UNCHANGED <<chat, replies, item>>
        /\ \A a \in Approvals : approval'[a].status = approval[a].status
    BY <1>6 DEF QuoteChanges, ApprovalRow
  <2> QED BY <2>1 DEF ConversationEffect, ItemRow
<1>7. CASE UNCHANGED conversationVars
  BY <1>7 DEF conversationVars, ConversationEffect
<1> QED BY <1>1, <1>2, <1>3, <1>4, <1>5, <1>6, <1>7 DEF ConversationNext

\* chat-replies.service.ts: a message has at most one reply however often it was asked for, its
\* decision is the purchase's, and neither is revised while the chat exists.
THEOREM DecisionsHold == ConversationSpec => DecisionsAgree
<1>1. ConversationSpec => []ConversationInv
  BY ConversationStarts, ConversationKeeps, PTL DEF ConversationSpec
<1>2. ASSUME ConversationInv, [ConversationNext]_conversationVars
      PROVE  [/\ \A q \in Questions :
                   /\ replies'[q] <= 1
                   /\ item[q].decision # "PENDING" /\ chat' = "open" => item'[q] = item[q]
                   /\ item'[q].decision # "PENDING" =>
                        \A a \in item'[q].approval : approval'[a].status = item'[q].decision
              /\ \A a \in Approvals :
                   approval[a].status \in {"PENDING", approval'[a].status}]_conversationVars
  <2>1. ConversationInv' /\ ConversationEffect
    BY <1>2, ConversationKeeps
  <2> QED BY <2>1 DEF ConversationInv, ConversationEffect
<1> QED BY <1>1, <1>2, PTL DEF ConversationSpec, DecisionsAgree

(***************************************************************************)
(* Waitlist: the row of one address.  The argument: who has written the    *)
(* row uncommitted is alone, so the fields it found empty are still empty  *)
(* when it commits; and one submission at most ever inserts the row.       *)
(***************************************************************************)
SubmissionRow == [pc : {"new", "inserted", "filling", "joined", "again", "announce", "done"},
                  todo : SUBSET Fields]
Written(s) == DOMAIN uncommitted[s]
Announced(s) == <<"announcement", s>> \in mails

\* The submission that inserted the row, or is about to.
Founder(s) == submission[s].pc \in {"inserted", "joined", "announce"} \/ Announced(s)

SubmissionInv(s) ==
    /\ Written(s) \subseteq Fields /\ \A f \in Written(s) : uncommitted[s][f] = {s}
    /\ Written(s) # {} => submission[s].pc \in {"inserted", "filling"}
    /\ submission[s].pc = "inserted" => saved = "none" /\ Written(s) = Fields
    /\ submission[s].pc = "filling" => \A f \in Written(s) : signup[f] = {}
    /\ submission[s].pc \in {"joined", "announce"} \/ Announced(s) =>
         saved = "there" /\ \A f \in Fields : signup[f] = {s}

WaitlistInv ==
    /\ saved \in {"none", "there"} /\ DOMAIN uncommitted = Submissions
    /\ submission \in [Submissions -> SubmissionRow]
    /\ saved = "none" => /\ \A f \in Fields : signup[f] = {}
                         /\ \A s \in Submissions : submission[s].pc \in {"new", "inserted"}
    /\ \A s \in Submissions : SubmissionInv(s)
    /\ \A s, u \in Submissions : Written(s) # {} /\ Written(u) # {} => s = u
    /\ \A s, u \in Submissions : Founder(s) /\ Founder(u) => s = u

\* A step of s leaves the other submissions as they are.
Only(s) ==
    /\ \A u \in Submissions \ {s} : submission'[u] = submission[u] /\ Written(u)' = Written(u)
                                    /\ uncommitted'[u] = uncommitted[u]
    /\ submission' \in [Submissions -> SubmissionRow] /\ DOMAIN uncommitted' = Submissions
SignupEffect ==
    \A f \in Fields : signup[f] # {} => signup'[f] = signup[f]

LEMMA WaitlistStarts == WaitlistInit => WaitlistInv
<1> SUFFICES ASSUME WaitlistInit PROVE WaitlistInv
  OBVIOUS
<1>1. \A s \in Submissions : uncommitted[s] = <<>> /\ Written(s) = {} /\ ~Announced(s)
                             /\ submission[s].pc = "new"
  BY DEF WaitlistInit, Written, Announced
<1>2. submission \in [Submissions -> SubmissionRow] /\ DOMAIN uncommitted = Submissions
      /\ saved \in {"none", "there"} /\ (saved = "none" => \A f \in Fields : signup[f] = {})
  BY DEF WaitlistInit, SubmissionRow
<1> QED BY <1>1, <1>2 DEF WaitlistInv, SubmissionInv, Founder

LEMMA InsertKeeps ==
    ASSUME WaitlistInv, NEW s \in Submissions, InsertSignup(s)
    PROVE  WaitlistInv' /\ SignupEffect
<1>1. Only(s) /\ UNCHANGED <<signup, saved, mails>> /\ submission[s].pc = "new"
  BY DEF WaitlistInv, InsertSignup, Only, SubmissionRow, Written
<1>2. CASE saved = "none"
  <2>1. /\ submission'[s].pc = "inserted" /\ Written(s)' = Fields
        /\ \A f \in Fields : uncommitted'[s][f] = {s}
    BY <1>2 DEF WaitlistInv, InsertSignup, Written, SubmissionRow
  <2>2. \A u \in Submissions : ~Founder(u) /\ Written(u) = {} /\ submission[u].pc = "new"
    BY <1>2 DEF WaitlistInv, InsertSignup, Founder, SubmissionInv
  <2>3. SubmissionInv(s)'
    BY <1>1, <1>2, <2>1, <2>2 DEF SubmissionInv, Founder, Announced
  <2>4. \A u \in Submissions \ {s} : SubmissionInv(u)' /\ ~Founder(u)' /\ Written(u)' = {}
                                    /\ submission'[u].pc = "new"
    <3> SUFFICES ASSUME NEW u \in Submissions \ {s}
                 PROVE  SubmissionInv(u)' /\ ~Founder(u)' /\ Written(u)' = {}
                        /\ submission'[u].pc = "new"
      OBVIOUS
    <3>1. submission'[u].pc = "new" /\ Written(u)' = {}
      BY <1>1, <2>2 DEF Only
    <3>2. ~Founder(u)' /\ ~Announced(u)'
      BY <1>1, <2>2, <3>1 DEF Founder, Announced
    <3> QED BY <3>1, <3>2 DEF SubmissionInv
  <2>5. \A f \in Fields : signup'[f] = {}
    BY <1>1, <1>2 DEF WaitlistInv
  <2> QED BY <1>1, <1>2, <2>1, <2>3, <2>4, <2>5 DEF WaitlistInv, Only, SignupEffect
<1>3. CASE saved # "none"
  <2>1. /\ submission'[s].pc = "filling" /\ Written(s)' = {}
    BY <1>3 DEF WaitlistInv, InsertSignup, Written, SubmissionRow
  <2> QED BY <1>1, <1>3, <2>1 DEF WaitlistInv, SubmissionInv, Only, Founder, Announced,
     SignupEffect
<1> QED BY <1>2, <1>3

LEMMA FillKeeps ==
    ASSUME WaitlistInv, NEW s \in Submissions, NEW f \in Fields, FillField(s, f)
    PROVE  WaitlistInv' /\ SignupEffect
<1>1. Only(s) /\ UNCHANGED <<signup, saved, mails>>
      /\ submission[s].pc = "filling" /\ submission'[s].pc = "filling"
  BY DEF WaitlistInv, FillField, Only, SubmissionRow, Written
<1>2. \A u \in Submissions \ {s} : Written(u) = {}
  BY DEF FillField, SignupFree, Written
<1>3. /\ Written(s)' \subseteq Fields
      /\ \A g \in Written(s)' : uncommitted'[s][g] = {s} /\ signup[g] = {}
  <2>1. CASE Fills(s, f)
    <3>1. uncommitted'[s] = [g \in Written(s) \cup {f} |-> IF g = f THEN {s} ELSE uncommitted[s][g]]
      BY <2>1 DEF FillField, WaitlistInv, Written
    <3>2. /\ Written(s)' = Written(s) \cup {f}
          /\ \A g \in Written(s)' : uncommitted'[s][g] = IF g = f THEN {s} ELSE uncommitted[s][g]
      BY <3>1 DEF Written
    <3> QED BY <1>1, <2>1, <3>2 DEF WaitlistInv, SubmissionInv, Fills
  <2>2. CASE ~Fills(s, f)
    <3>1. uncommitted'[s] = uncommitted[s]
      BY <2>2 DEF FillField, WaitlistInv
    <3> QED BY <1>1, <3>1 DEF WaitlistInv, SubmissionInv, Written
  <2> QED BY <2>1, <2>2
<1> QED BY <1>1, <1>2, <1>3 DEF WaitlistInv, SubmissionInv, Only, Founder, Announced, SignupEffect

LEMMA CommitKeeps ==
    ASSUME WaitlistInv, NEW s \in Submissions, CommitSignup(s)
    PROVE  WaitlistInv' /\ SignupEffect
<1>1. Only(s) /\ saved' = "there" /\ UNCHANGED mails /\ Written(s)' = {}
      /\ \A f \in Fields : signup'[f] = IF f \in Written(s) THEN {s} ELSE signup[f]
  <2>1. Only(s) /\ saved' = "there" /\ UNCHANGED mails /\ Written(s)' = {}
    BY DEF WaitlistInv, CommitSignup, Only, SubmissionRow, Written
  <2>2. signup' = [f \in Fields |-> IF f \in Written(s) THEN uncommitted[s][f] ELSE signup[f]]
    BY DEF CommitSignup, Written
  <2>3. \A f \in Written(s) : uncommitted[s][f] = {s}
    BY DEF WaitlistInv, SubmissionInv
  <2> QED BY <2>1, <2>2, <2>3
<1>2. CASE submission[s].pc = "inserted"
  <2>1. submission'[s].pc = "joined" /\ \A f \in Fields : signup'[f] = {s} /\ signup[f] = {}
    BY <1>1, <1>2 DEF WaitlistInv, CommitSignup, SubmissionInv
  <2>2. \A u \in Submissions \ {s} : ~Founder(u) /\ Written(u) = {} /\ submission[u].pc = "new"
    BY <1>2 DEF WaitlistInv, SubmissionInv, Founder
  <2> QED BY <1>1, <2>1, <2>2 DEF WaitlistInv, SubmissionInv, Only, Founder, Announced,
     SignupEffect
<1>3. CASE submission[s].pc # "inserted"
  <2>1. submission[s].pc = "filling" /\ submission'[s].pc = "again"
    BY <1>3 DEF WaitlistInv, CommitSignup
  <2>2. \A f \in Written(s) : signup[f] = {}
    BY <2>1 DEF WaitlistInv, SubmissionInv
  <2>3. \A u \in Submissions \ {s} :
          /\ Written(s) = {} \/ Written(u) = {}
          /\ submission[u].pc \in {"joined", "announce"} \/ Announced(u) => Written(s) = {}
    BY SMTT(30), <2>2 DEF WaitlistInv, SubmissionInv
  <2>4. Announced(s) => Written(s) = {}
    BY <2>2 DEF WaitlistInv, SubmissionInv
  <2>5. \A u \in Submissions : submission[u].pc # "inserted"
    BY <2>1 DEF WaitlistInv, SubmissionInv
  <2> QED BY <1>1, <2>1, <2>2, <2>3, <2>4, <2>5 DEF WaitlistInv, SubmissionInv, Only, Founder,
     Announced, SignupEffect
<1> QED BY <1>2, <1>3

LEMMA RollBackKeeps ==
    ASSUME WaitlistInv, NEW s \in Submissions, RollBack(s)
    PROVE  WaitlistInv' /\ SignupEffect
<1>1. Only(s) /\ UNCHANGED <<signup, saved, mails>> /\ Written(s)' = {}
      /\ submission'[s].pc = "new"
  BY DEF WaitlistInv, RollBack, Only, SubmissionRow, Written
<1> QED BY <1>1 DEF WaitlistInv, SubmissionInv, Only, Founder, Announced, SignupEffect

LEMMA MailKeeps ==
    ASSUME WaitlistInv, NEW s \in Submissions, NEW sent \in BOOLEAN,
           ConfirmWaitlist(s, sent) \/ NotifyInbox(s, sent)
    PROVE  WaitlistInv' /\ SignupEffect
<1>1. Only(s) /\ UNCHANGED <<signup, saved>> /\ Written(s)' = Written(s)
      /\ uncommitted'[s] = uncommitted[s]
  BY DEF WaitlistInv, ConfirmWaitlist, NotifyInbox, Only, SubmissionRow, Written
<1>2. /\ submission[s].pc \in {"joined", "again", "announce"}
      /\ submission'[s].pc \in {"announce", "done"}
      /\ submission'[s].pc = "announce" => submission[s].pc = "joined"
      /\ Announced(s)' => Announced(s) \/ submission[s].pc = "announce"
      /\ \A u \in Submissions \ {s} : Announced(u)' => Announced(u)
  BY DEF WaitlistInv, ConfirmWaitlist, NotifyInbox, Announced, SubmissionRow
<1>3. Written(s) = {}
  BY <1>2 DEF WaitlistInv, SubmissionInv
<1>4. submission[s].pc \in {"joined", "announce"} => saved = "there" /\ \A f \in Fields : signup[f] = {s}
  BY DEF WaitlistInv, SubmissionInv
<1>5. saved = "there"
  BY <1>2 DEF WaitlistInv
<1>6. \A u \in Submissions : Founder(u)' => Founder(u)
  BY <1>1, <1>2 DEF Founder, Only
<1> QED BY <1>1, <1>2, <1>3, <1>4, <1>5, <1>6 DEF WaitlistInv, SubmissionInv, Only, SignupEffect

LEMMA WaitlistKeeps ==
    ASSUME WaitlistInv, [WaitlistNext]_waitlistVars
    PROVE  WaitlistInv' /\ SignupEffect
<1>1. CASE UNCHANGED waitlistVars
  BY <1>1 DEF waitlistVars, WaitlistInv, SubmissionInv, Written, Founder, Announced, SignupEffect
<1> QED BY <1>1, InsertKeeps, FillKeeps, CommitKeeps, RollBackKeeps, MailKeeps DEF WaitlistNext

\* marketing.service.ts: a detail that is saved stays, whatever submissions overlap, and a signup
\* is announced once, by the submission whose details the row has.
THEOREM DetailsStay == WaitlistSpec => SavedDetailsStay
<1>1. WaitlistSpec => []WaitlistInv
  BY WaitlistStarts, WaitlistKeeps, PTL DEF WaitlistSpec
<1>2. ASSUME WaitlistInv, [WaitlistNext]_waitlistVars
      PROVE  [/\ \A f \in Fields : signup[f] # {} => signup'[f] = signup[f]
              /\ \A s, u \in Submissions :
                   <<"announcement", s>> \in mails' =>
                     /\ <<"announcement", u>> \in mails' => u = s
                     /\ \A f \in Fields : signup'[f] = {s}]_waitlistVars
  <2>1. WaitlistInv' /\ SignupEffect
    BY <1>2, WaitlistKeeps
  <2> QED BY <2>1 DEF WaitlistInv, SubmissionInv, Founder, Announced, SignupEffect
<1> QED BY <1>1, <1>2, PTL DEF WaitlistSpec, SavedDetailsStay

(***************************************************************************)
(* Helpdesk: one live request for deletion, and resolved tickets.          *)
(***************************************************************************)
TicketRow == [kind : {"none", "support", "deletion"}, status : Statuses, reopened : BOOLEAN, said : Nat]
DeskRow == [pc : {"idle", "guess", "proved", "profile", "looked", "reply", "answer", "status"},
            purpose : {"none", "delete", "change"}, on : SUBSET Tickets, live : BOOLEAN,
            status : Statuses, secret : Secrets]

InProfile(d) == desk[d].pc \in {"profile", "looked"}
Fresh(t) == t \in LiveRequests /\ ~ticket[t].reopened

OneIsLive == Cardinality({t \in LiveRequests : ~ticket[t].reopened}) <= 1

\* Whoever looked for a live request holds the profile, and whoever replies holds the ticket.
HelpdeskInv ==
    /\ ticket \in [Tickets -> TicketRow] /\ passcode \in Secrets /\ desk \in [Desks -> DeskRow]
    /\ \A d, e \in Desks : InProfile(d) /\ InProfile(e) => d = e
    /\ \A d \in Desks : desk[d].pc = "looked" /\ ~desk[d].live => \A t \in Tickets : ~Fresh(t)
    /\ \A t, u \in Tickets : Fresh(t) /\ Fresh(u) => t = u
    /\ \A d \in Desks : desk[d].pc = "reply" => \A t \in desk[d].on : desk[d].status = ticket[t].status

LEMMA SecretsAreSecrets == NoSecret \in Secrets /\ AtDesk \in DeskRow
  BY HelpdeskAssumption DEF NoSecret, Secrets, AtDesk, DeskRow, Statuses

LEMMA SecretsAreCleared ==
    ASSUME NEW secret \in Secrets
    PROVE  [secret EXCEPT !.failed = 0, !.lock = "none"] \in Secrets
<1> DEFINE zero == 0
<1>1. zero \in 0 .. MaxAttempts
  BY HelpdeskAssumption
<1> HIDE DEF zero
<1>2. [secret EXCEPT !.failed = zero, !.lock = "none"] \in Secrets
  BY <1>1 DEF Secrets
<1> QED BY <1>2 DEF zero

LEMMA HelpdeskStarts == HelpdeskInit => HelpdeskInv
  BY SecretsAreSecrets DEF HelpdeskInit, HelpdeskInv, InProfile, Fresh, LiveRequests, Unraised,
     TicketRow, Statuses, AtDesk

\* A desk that neither enters the profile nor takes a ticket.
LEMMA DeskMoves ==
    ASSUME HelpdeskInv, NEW d \in Desks, NEW entry \in DeskRow, UNCHANGED ticket, passcode' \in Secrets,
           desk' = [desk EXCEPT ![d] = entry], entry.pc \notin {"profile", "looked", "reply"}
    PROVE  HelpdeskInv'
<1>1. /\ desk' \in [Desks -> DeskRow] /\ desk'[d] = entry
      /\ \A e \in Desks : e # d => desk'[e] = desk[e]
  BY DEF HelpdeskInv
<1>2. \A t \in Tickets : Fresh(t)' = Fresh(t)
  BY DEF Fresh, LiveRequests
<1> QED BY <1>1, <1>2 DEF HelpdeskInv, InProfile

LEMMA PasscodeMoves ==
    ASSUME HelpdeskInv, NEW d \in Desks,
           \/ \E purpose \in {"delete", "change"} : GetOwned(d, purpose)
           \/ VerifyRight(d) \/ VerifyWrong(d) \/ UpdatePasscode(d)
    PROVE  HelpdeskInv'
<1>1. desk \in [Desks -> DeskRow] /\ desk[d] \in DeskRow /\ passcode \in Secrets
  BY DEF HelpdeskInv
<1>2. CASE \E purpose \in {"delete", "change"} : GetOwned(d, purpose)
  <2>1. PICK purpose \in {"delete", "change"} : GetOwned(d, purpose)
    BY <1>2
  <2> DEFINE entry == [AtDesk EXCEPT !.pc = "guess", !.purpose = purpose, !.secret = passcode]
  <2>2. entry \in DeskRow /\ entry.pc = "guess"
    BY <1>1, SecretsAreSecrets DEF DeskRow
  <2>3. desk' = [desk EXCEPT ![d] = entry] /\ UNCHANGED <<ticket, passcode>>
    BY <2>1 DEF GetOwned
  <2> HIDE DEF entry
  <2> QED BY <1>1, <2>2, <2>3, DeskMoves
<1>3. CASE VerifyRight(d)
  <2> DEFINE entry == [desk[d] EXCEPT !.pc = "proved", !.secret = NoSecret]
  <2>1. entry \in DeskRow /\ entry.pc = "proved"
    BY <1>1, SecretsAreSecrets DEF DeskRow
  <2>2. desk' = [desk EXCEPT ![d] = entry] /\ UNCHANGED ticket
    BY <1>1, <1>3 DEF VerifyRight
  <2>3. passcode' \in Secrets
    BY <1>1, <1>3, SecretsAreCleared DEF VerifyRight
  <2> HIDE DEF entry
  <2> QED BY <2>1, <2>2, <2>3, DeskMoves
<1>4. CASE VerifyWrong(d)
  <2>1. desk' = [desk EXCEPT ![d] = AtDesk] /\ UNCHANGED ticket /\ AtDesk.pc = "idle"
    BY <1>4 DEF VerifyWrong, Leaves, AtDesk
  <2>2. passcode' \in Secrets
    <3> DEFINE n == desk[d].secret.failed
               f == IF n + 1 >= MaxAttempts THEN 0 ELSE n + 1
               l == IF n + 1 >= MaxAttempts THEN "locked" ELSE "none"
    <3>1. n \in Nat
      BY <1>1 DEF DeskRow, Secrets
    <3>2. f \in 0 .. MaxAttempts /\ l \in {"none", "locked", "over"}
      BY <3>1, HelpdeskAssumption
    <3>3. passcode' = [passcode EXCEPT !.failed = f, !.lock = l]
      BY <1>4 DEF VerifyWrong
    <3> HIDE DEF f, l
    <3> QED BY <1>1, <3>2, <3>3 DEF Secrets
  <2> QED BY <2>1, <2>2, SecretsAreSecrets, DeskMoves
<1>5. CASE UpdatePasscode(d)
  <2>1. desk' = [desk EXCEPT ![d] = AtDesk] /\ UNCHANGED ticket /\ AtDesk.pc = "idle"
    BY <1>5 DEF UpdatePasscode, Leaves, AtDesk
  <2>2. passcode' \in Secrets
    BY <1>1, <1>5, SecretsAreCleared DEF UpdatePasscode
  <2> QED BY <2>1, <2>2, SecretsAreSecrets, DeskMoves
<1> QED BY <1>2, <1>3, <1>4, <1>5

LEMMA DeskLeaves ==
    ASSUME HelpdeskInv, NEW d \in Desks,
           RefuseDeletion(d) \/ AnswerExisting(d) \/ \E t \in Tickets : ReplyAsSupport(d, t)
    PROVE  HelpdeskInv'
<1>1. desk' = [desk EXCEPT ![d] = AtDesk] /\ UNCHANGED <<ticket, passcode>> /\ AtDesk.pc = "idle"
  BY DEF RefuseDeletion, AnswerExisting, ReplyAsSupport, Leaves, AtDesk
<1> QED BY <1>1, SecretsAreSecrets, DeskMoves DEF HelpdeskInv

LEMMA HelperReads ==
    ASSUME HelpdeskInv, NEW d \in Desks, NEW t \in Tickets, NEW status \in Statuses,
           ReadTicket(d, t) \/ ChangeStatus(d, t, status)
    PROVE  HelpdeskInv'
<1>1. desk \in [Desks -> DeskRow] /\ desk[d] \in DeskRow /\ passcode \in Secrets
  BY DEF HelpdeskInv
<1> DEFINE seen == [desk[d] EXCEPT !.pc = "answer", !.on = {t}]
           told == [desk[d] EXCEPT !.pc = "status", !.on = {t}, !.status = status]
<1>2. seen \in DeskRow /\ seen.pc = "answer" /\ told \in DeskRow /\ told.pc = "status"
  BY <1>1 DEF DeskRow
<1>3. /\ desk' = [desk EXCEPT ![d] = seen] \/ desk' = [desk EXCEPT ![d] = told]
      /\ UNCHANGED <<ticket, passcode>>
  BY <1>1 DEF ReadTicket, ChangeStatus
<1> HIDE DEF seen, told
<1>4. CASE desk' = [desk EXCEPT ![d] = seen]
  BY <1>1, <1>2, <1>3, <1>4, DeskMoves
<1>5. CASE desk' = [desk EXCEPT ![d] = told]
  BY <1>1, <1>2, <1>3, <1>5, DeskMoves
<1> QED BY <1>3, <1>4, <1>5

LEMMA ProfileMoves ==
    ASSUME HelpdeskInv, NEW d \in Desks, LockProfile(d) \/ LookForRequest(d)
    PROVE  HelpdeskInv'
<1>1. /\ desk' \in [Desks -> DeskRow] /\ \A e \in Desks : e # d => desk'[e] = desk[e]
      /\ desk'[d].pc \in {"profile", "looked"}
      /\ desk'[d].pc = "looked" => (desk'[d].live <=> LiveRequests # {})
      /\ UNCHANGED <<ticket, passcode>>
  BY DEF HelpdeskInv, LockProfile, LookForRequest, DeskRow
<1>2. \A e \in Desks : InProfile(e) => e = d
  BY DEF HelpdeskInv, LockProfile, LookForRequest, ProfileFree, InProfile
<1>3. \A t \in Tickets : Fresh(t)' = Fresh(t) /\ (Fresh(t) => LiveRequests # {})
  BY <1>1 DEF Fresh, LiveRequests
<1>4. \A e, f \in Desks : InProfile(e)' /\ InProfile(f)' => e = f
  BY <1>1, <1>2 DEF InProfile
<1>5. \A e \in Desks : desk'[e].pc = "looked" /\ ~desk'[e].live => \A t \in Tickets : ~Fresh(t)'
  BY <1>1, <1>3 DEF HelpdeskInv
<1> QED BY <1>1, <1>3, <1>4, <1>5 DEF HelpdeskInv

LEMMA DeletionKeepsRequests ==
    ASSUME HelpdeskInv, NEW d \in Desks, NEW t \in Tickets, DeletionRequest(d, t)
    PROVE  HelpdeskInv'
<1>1. /\ desk' \in [Desks -> DeskRow] /\ desk'[d].pc = "idle"
      /\ \A e \in Desks : e # d => desk'[e] = desk[e]
      /\ UNCHANGED passcode /\ InProfile(d)
  BY SecretsAreSecrets DEF HelpdeskInv, DeletionRequest, Leaves, AtDesk, InProfile
<1>2. /\ ticket' \in [Tickets -> TicketRow]
      /\ \A u \in Tickets : /\ ticket'[u].status = ticket[u].status
                            /\ u # t => ticket'[u] = ticket[u]
  BY DEF HelpdeskInv, DeletionRequest, TicketRow
<1>3. \A u \in Tickets : ~Fresh(u)
  BY DEF HelpdeskInv, DeletionRequest
<1>4. \A u \in Tickets : Fresh(u)' => u = t
  BY <1>2, <1>3 DEF Fresh, LiveRequests
<1>5. \A e \in Desks : ~InProfile(e)'
  BY <1>1 DEF HelpdeskInv, InProfile
<1>6. \A e \in Desks : desk'[e].pc = "reply" => \A u \in desk'[e].on : desk'[e].status = ticket'[u].status
  <2>1. \A e \in Desks : desk[e].on \subseteq Tickets
    BY DEF HelpdeskInv, DeskRow
  <2> QED BY <1>1, <1>2, <2>1 DEF HelpdeskInv
<1> QED BY <1>1, <1>2, <1>4, <1>5, <1>6 DEF HelpdeskInv, InProfile

\* What leaves the status of the tickets and the requests that are live.
LEMMA TicketMoves ==
    ASSUME HelpdeskInv, ticket' \in [Tickets -> TicketRow], passcode' \in Secrets,
           \A t \in Tickets : Fresh(t)' => Fresh(t),
           \A t \in Tickets : ticket'[t].status = ticket[t].status,
           desk' \in [Desks -> DeskRow],
           \A e \in Desks : desk'[e] = desk[e] \/ desk'[e] = AtDesk
    PROVE  HelpdeskInv'
<1>1. AtDesk.pc = "idle" /\ \A e \in Desks : desk[e].on \subseteq Tickets
  BY DEF AtDesk, HelpdeskInv, DeskRow
<1>2. \A e \in Desks : InProfile(e)' => InProfile(e)
  BY <1>1 DEF InProfile
<1>3. \A e \in Desks : desk'[e].pc \in {"reply", "looked"} => desk'[e] = desk[e]
  BY <1>1
<1> QED BY <1>1, <1>2, <1>3 DEF HelpdeskInv

LEMMA SupportKeepsRequests ==
    ASSUME HelpdeskInv, NEW t \in Tickets, Support(t)
    PROVE  HelpdeskInv'
<1>1. /\ ticket' \in [Tickets -> TicketRow]
      /\ \A u \in Tickets : /\ ticket'[u].status = ticket[u].status
                            /\ ticket'[u].reopened = ticket[u].reopened
                            /\ ticket'[u].kind = "deletion" => ticket[u].kind = "deletion"
  BY DEF HelpdeskInv, Support, TicketRow
<1>2. \A u \in Tickets : Fresh(u)' => Fresh(u)
  BY <1>1 DEF Fresh, LiveRequests
<1> QED BY <1>1, <1>2, TicketMoves DEF HelpdeskInv, Support

\* A reply is added to a ticket that is not resolved.
LEMMA ReplyKeepsRequests ==
    ASSUME HelpdeskInv, NEW d \in Desks, NEW t \in Tickets, Reply(d, t)
    PROVE  /\ HelpdeskInv'
           /\ \A u \in Tickets : ticket'[u].said > ticket[u].said => ticket[u].status # "RESOLVED"
<1>1. /\ ticket \in [Tickets -> TicketRow] /\ desk \in [Desks -> DeskRow]
      /\ desk[d].pc = "reply" /\ t \in desk[d].on /\ desk[d].status = ticket[t].status
  BY DEF HelpdeskInv, Reply
<1> DEFINE n == ticket[t].said + IF desk[d].status = "RESOLVED" THEN 0 ELSE 1
<1>2. /\ ticket' = [ticket EXCEPT ![t].said = n] /\ n \in Nat
      /\ n > ticket[t].said => ticket[t].status # "RESOLVED"
  BY <1>1 DEF Reply, TicketRow
<1> HIDE DEF n
<1>3. /\ ticket' \in [Tickets -> TicketRow] /\ ticket'[t].said = n
      /\ \A u \in Tickets : /\ ticket'[u].status = ticket[u].status
                            /\ ticket'[u].reopened = ticket[u].reopened
                            /\ ticket'[u].kind = ticket[u].kind
                            /\ u # t => ticket'[u] = ticket[u]
                            /\ ticket[u].said \in Nat
  BY <1>1, <1>2 DEF TicketRow
<1>4. \A u \in Tickets : Fresh(u)' => Fresh(u)
  BY <1>3 DEF Fresh, LiveRequests
<1>5. desk' \in [Desks -> DeskRow] /\ \A e \in Desks : desk'[e] = desk[e] \/ desk'[e] = AtDesk
  BY <1>1, SecretsAreSecrets DEF Reply, Leaves
<1>6. \A u \in Tickets : ticket'[u].said > ticket[u].said => ticket[u].status # "RESOLVED"
  BY <1>2, <1>3
<1> QED BY <1>3, <1>4, <1>5, <1>6, TicketMoves DEF HelpdeskInv, Reply

LEMMA LockTicketKeepsRequests ==
    ASSUME HelpdeskInv, NEW d \in Desks, NEW t \in Tickets, LockTicket(d, t)
    PROVE  HelpdeskInv'
<1> DEFINE s == ticket[t].status
           entry == [desk[d] EXCEPT !.pc = "reply", !.on = {t}, !.status = s]
<1>a. desk \in [Desks -> DeskRow] /\ desk[d] \in DeskRow /\ s \in Statuses
  BY DEF HelpdeskInv, TicketRow
<1>b. desk' = [desk EXCEPT ![d] = entry] /\ UNCHANGED <<ticket, passcode>>
  BY <1>a DEF LockTicket
<1> HIDE DEF s
<1>c. entry \in DeskRow /\ entry.pc = "reply" /\ entry.on = {t} /\ entry.status = s
  BY <1>a DEF DeskRow
<1> HIDE DEF entry
<1>d. /\ desk' \in [Desks -> DeskRow] /\ desk'[d].pc = "reply" /\ desk'[d].on = {t}
      /\ desk'[d].status = s /\ \A e \in Desks : e # d => desk'[e] = desk[e]
  BY <1>a, <1>b, <1>c
<1>1. /\ desk' \in [Desks -> DeskRow] /\ desk'[d].pc = "reply" /\ desk'[d].on = {t}
      /\ desk'[d].status = ticket[t].status /\ \A e \in Desks : e # d => desk'[e] = desk[e]
      /\ UNCHANGED <<ticket, passcode>>
  BY <1>b, <1>d DEF s
<1>2. \A u \in Tickets : Fresh(u)' = Fresh(u)
  BY <1>1 DEF Fresh, LiveRequests
<1> QED BY <1>1, <1>2 DEF HelpdeskInv, InProfile

\* A request that was resolved and is opened again is no fresh one.
LEMMA WriteStatusKeepsRequests ==
    ASSUME HelpdeskInv, NEW d \in Desks, NEW t \in Tickets, WriteStatus(d, t)
    PROVE  HelpdeskInv'
<1>1. /\ ticket \in [Tickets -> TicketRow] /\ desk \in [Desks -> DeskRow] /\ desk[d] \in DeskRow
      /\ desk[d].pc = "status" /\ TicketFree(t) /\ UNCHANGED passcode
  BY DEF HelpdeskInv, WriteStatus
<1> DEFINE s == desk[d].status
           r == ticket[t].reopened \/ t \in ClosedRequests
<1>2. ticket' = [ticket EXCEPT ![t].status = s, ![t].reopened = r] /\ s \in Statuses
  BY <1>1 DEF WriteStatus, DeskRow
<1>3. r \in BOOLEAN /\ (t \in ClosedRequests => r) /\ (ticket[t].reopened => r)
  BY <1>1 DEF TicketRow
<1> HIDE DEF s, r
<1>4. /\ ticket' \in [Tickets -> TicketRow] /\ ticket'[t].reopened = r
      /\ ticket'[t].kind = ticket[t].kind /\ ticket[t].status \in Statuses
      /\ \A u \in Tickets : u # t => ticket'[u] = ticket[u]
  BY <1>1, <1>2, <1>3 DEF TicketRow
<1>5. \A u \in Tickets : Fresh(u)' => Fresh(u)
  <2>1. Fresh(t)' => Fresh(t)
    BY <1>3, <1>4 DEF Fresh, LiveRequests, ClosedRequests
  <2> QED BY <1>4, <2>1 DEF Fresh, LiveRequests
<1>6. /\ desk' \in [Desks -> DeskRow] /\ desk'[d].pc = "idle"
      /\ \A e \in Desks : e # d => desk'[e] = desk[e]
  BY <1>1, SecretsAreSecrets DEF WriteStatus, Leaves, AtDesk
<1>7. \A e \in Desks : desk'[e].pc = "reply" => \A u \in desk'[e].on : desk'[e].status = ticket'[u].status
  <2>1. \A e \in Desks : desk[e].on \subseteq Tickets /\ (desk[e].pc = "reply" => t \notin desk[e].on)
    BY <1>1 DEF DeskRow, TicketFree
  <2> QED BY <1>4, <1>6, <2>1 DEF HelpdeskInv
<1>8. \A e \in Desks : InProfile(e)' => InProfile(e) /\ desk'[e] = desk[e]
  BY <1>6 DEF InProfile
<1>9. \A e, f \in Desks : InProfile(e)' /\ InProfile(f)' => e = f
  BY <1>8 DEF HelpdeskInv
<1>10. \A e \in Desks : desk'[e].pc = "looked" /\ ~desk'[e].live => \A u \in Tickets : ~Fresh(u)'
  BY <1>5, <1>6 DEF HelpdeskInv
<1>11. \A u, v \in Tickets : Fresh(u)' /\ Fresh(v)' => u = v
  BY <1>5 DEF HelpdeskInv
<1> QED BY <1>1, <1>4, <1>6, <1>7, <1>9, <1>10, <1>11 DEF HelpdeskInv

LEMMA HelpdeskStays ==
    ASSUME HelpdeskInv, [HelpdeskNext]_helpdeskVars
    PROVE  /\ HelpdeskInv'
           /\ UNCHANGED helpdeskVars \/
                \A t \in Tickets : ticket'[t].said > ticket[t].said => ticket[t].status # "RESOLVED"
<1>1. ticket \in [Tickets -> TicketRow] /\ \A t \in Tickets : ticket[t].said \in Nat
  BY DEF HelpdeskInv, TicketRow
<1>2. CASE CreatePasscode \/ LockIsOver \/ ObligationsChange \/ UNCHANGED helpdeskVars
  <2>1. UNCHANGED <<ticket, desk>> /\ passcode' \in Secrets
    BY <1>2 DEF CreatePasscode, LockIsOver, ObligationsChange, helpdeskVars, HelpdeskInv, Secrets
  <2>2. \A t \in Tickets : Fresh(t)' => Fresh(t)
    BY <2>1 DEF Fresh, LiveRequests
  <2> QED BY <1>1, <2>1, <2>2, TicketMoves DEF HelpdeskInv
<1>3. CASE \E t \in Tickets : Support(t) \/ RaiseForUser(t)
  <2>1. PICK t \in Tickets : Support(t)
    BY <1>3 DEF RaiseForUser
  <2>2. \A u \in Tickets : ticket'[u].said = ticket[u].said
    BY <1>1, <2>1 DEF Support, TicketRow
  <2> QED BY <1>1, <2>1, <2>2, SupportKeepsRequests
<1>4. ASSUME NEW d \in Desks,
             \/ \E purpose \in {"delete", "change"} : GetOwned(d, purpose)
             \/ VerifyRight(d) \/ VerifyWrong(d) \/ UpdatePasscode(d)
             \/ LockProfile(d) \/ LookForRequest(d)
      PROVE  HelpdeskInv' /\ \A t \in Tickets : ~(ticket'[t].said > ticket[t].said)
  <2>1. UNCHANGED ticket
    BY <1>4 DEF GetOwned, VerifyRight, VerifyWrong, UpdatePasscode, LockProfile, LookForRequest
  <2> QED BY <1>1, <1>4, <2>1, PasscodeMoves, ProfileMoves
<1>5. ASSUME NEW d \in Desks, NEW t \in Tickets, DeletionRequest(d, t)
      PROVE  HelpdeskInv' /\ \A u \in Tickets : ~(ticket'[u].said > ticket[u].said)
  <2>1. \A u \in Tickets : ticket'[u].said = ticket[u].said
    BY <1>1, <1>5 DEF DeletionRequest, TicketRow
  <2> QED BY <1>1, <1>5, <2>1, DeletionKeepsRequests
<1>6. ASSUME NEW d \in Desks, NEW t \in Tickets, WriteStatus(d, t)
      PROVE  HelpdeskInv' /\ \A u \in Tickets : ~(ticket'[u].said > ticket[u].said)
  <2>1. \A u \in Tickets : ticket'[u].said = ticket[u].said
    BY <1>1, <1>6 DEF WriteStatus, TicketRow
  <2> QED BY <1>1, <1>6, <2>1, WriteStatusKeepsRequests
<1>7. ASSUME NEW d \in Desks, NEW t \in Tickets, NEW status \in Statuses,
             LockTicket(d, t) \/ ReadTicket(d, t) \/ ReplyAsSupport(d, t) \/ ChangeStatus(d, t, status)
      PROVE  HelpdeskInv' /\ \A u \in Tickets : ~(ticket'[u].said > ticket[u].said)
  <2>1. UNCHANGED ticket
    BY <1>7 DEF LockTicket, ReadTicket, ReplyAsSupport, ChangeStatus
  <2> QED BY <1>1, <1>7, <2>1, LockTicketKeepsRequests, HelperReads, DeskLeaves
<1>8. ASSUME NEW d \in Desks, NEW t \in Tickets,
             \/ DeletionRequest(d, t) \/ LockTicket(d, t) \/ Reply(d, t)
             \/ ReadTicket(d, t) \/ ReplyAsSupport(d, t) \/ WriteStatus(d, t)
             \/ \E status \in Statuses : ChangeStatus(d, t, status)
      PROVE  HelpdeskInv' /\ \A u \in Tickets : ticket'[u].said > ticket[u].said => ticket[u].status # "RESOLVED"
  <2>1. "OPEN" \in Statuses
    BY DEF Statuses
  <2>2. CASE LockTicket(d, t) \/ ReadTicket(d, t) \/ ReplyAsSupport(d, t)
    BY <1>7, <2>1, <2>2
  <2>3. CASE \E status \in Statuses : ChangeStatus(d, t, status)
    BY <1>7, <2>3
  <2>4. CASE DeletionRequest(d, t)
    BY <1>5, <2>4
  <2>5. CASE WriteStatus(d, t)
    BY <1>6, <2>5
  <2>6. CASE Reply(d, t)
    BY <2>6, ReplyKeepsRequests
  <2> QED BY <1>8, <2>2, <2>3, <2>4, <2>5, <2>6
<1>9. ASSUME NEW d \in Desks, RefuseDeletion(d) \/ AnswerExisting(d)
      PROVE  HelpdeskInv' /\ \A u \in Tickets : ~(ticket'[u].said > ticket[u].said)
  <2>1. UNCHANGED ticket
    BY <1>9 DEF RefuseDeletion, AnswerExisting
  <2> QED BY <1>1, <1>9, <2>1, DeskLeaves
<1>10. CASE UNCHANGED helpdeskVars
  BY <1>2, <1>10
<1>11. CASE CreatePasscode \/ LockIsOver \/ ObligationsChange
  BY <1>2, <1>11
<1>12. CASE \E d \in Desks :
         \/ \E purpose \in {"delete", "change"} : GetOwned(d, purpose)
         \/ VerifyRight(d) \/ VerifyWrong(d) \/ UpdatePasscode(d)
         \/ LockProfile(d) \/ LookForRequest(d)
  BY <1>4, <1>12
<1>13. CASE \E d \in Desks : RefuseDeletion(d) \/ AnswerExisting(d)
  BY <1>9, <1>13
<1>14. CASE \E d \in Desks : \E t \in Tickets :
             \/ DeletionRequest(d, t) \/ LockTicket(d, t) \/ Reply(d, t)
             \/ ReadTicket(d, t) \/ ReplyAsSupport(d, t) \/ WriteStatus(d, t)
             \/ \E status \in Statuses : ChangeStatus(d, t, status)
  BY <1>8, <1>14
<1> QED
  BY <1>3, <1>10, <1>11, <1>12, <1>13, <1>14 DEF HelpdeskNext

\* deletionRequest and addMessage: whoever asks at the same time, one request for deletion is live
\* that was not opened again, and the user adds nothing to a ticket that is resolved.
THEOREM RequestsAreOneByOne == HelpdeskSpec => RequestsAreSerial
<1>1. ASSUME HelpdeskInv PROVE Cardinality({t \in LiveRequests : ~ticket[t].reopened}) <= 1
  <2> DEFINE S == {t \in LiveRequests : ~ticket[t].reopened}
  <2>1. \A t, u \in S : t = u
    BY <1>1 DEF HelpdeskInv, Fresh, LiveRequests
  <2>2. S = {} \/ \E t \in S : S = {t}
    BY <2>1
  <2> HIDE DEF S
  <2>3. Cardinality(S) <= 1
    <3>1. CASE S = {}
      BY <3>1, FS_EmptySet
    <3>2. CASE \E t \in S : S = {t}
      <4>1. PICK t \in S : S = {t}
        BY <3>2
      <4>2. Cardinality({t}) = 1
        BY FS_Singleton
      <4> QED BY <4>1, <4>2
    <3> QED BY <2>2, <3>1, <3>2
  <2> QED BY <2>3 DEF S
<1>2. HelpdeskInv => OneIsLive
  BY <1>1 DEF OneIsLive
<1>3. HelpdeskInv /\ [HelpdeskNext]_helpdeskVars => HelpdeskInv'
  BY HelpdeskStays
<1>4. HelpdeskInv' => OneIsLive'
  BY <1>2, PTL
<1>5. HelpdeskInv /\ [HelpdeskNext]_helpdeskVars =>
        [/\ Cardinality({t \in LiveRequests' : ~ticket'[t].reopened}) <= 1
         /\ \A t \in Tickets : ticket'[t].said > ticket[t].said => ticket[t].status # "RESOLVED"]_helpdeskVars
  BY <1>3, <1>4, HelpdeskStays DEF OneIsLive
<1> QED BY <1>3, <1>5, HelpdeskStarts, PTL DEF HelpdeskSpec, RequestsAreSerial

(***************************************************************************)
(* Contact: numbers and addresses.  An address that is about to be copied  *)
(* was confirmed, and a request that marks a number verified has seen a    *)
(* code of its user come back; the unique indexes do the rest.             *)
(***************************************************************************)
PersonRow == [phone : MaybeNumber, phoneVerified : BOOLEAN, email : SUBSET Addresses]
SupabaseRow == [email : SUBSET Addresses, pending : SUBSET Addresses, confirmed : SUBSET Addresses]
CodeRow == [user : Users, live : BOOLEAN, sentTo : MaybeNumber]
RequestRow == [pc : {"idle", "compare", "write", "send", "deliver", "verify", "consume", "mark",
                     "marking", "sync"},
               user : Users, number : MaybeNumber, address : SUBSET Addresses, changed : BOOLEAN, code : Nat]

HasProved(u) == \E n \in Numbers : <<u, n>> \in proved

ContactTypes ==
    /\ person \in [Users -> PersonRow] /\ supabase \in [Users -> SupabaseRow]
    /\ otpRows \in Seq(CodeRow) /\ request \in [Requests -> RequestRow]

ContactInv ==
    /\ ContactTypes /\ ContactsAreOwned
    /\ \A u \in Users : supabase[u].email \subseteq supabase[u].confirmed
    /\ \A k \in Requests :
         /\ request[k].pc \in {"consume", "mark", "marking"} => HasProved(request[k].user)
         /\ request[k].pc = "sync" => request[k].address \subseteq supabase[request[k].user].confirmed

LEMMA IdleRequestIsRequest == IdleRequest \in RequestRow
<1>1. (CHOOSE u \in Users : TRUE) \in Users
  BY ContactAssumption
<1> QED BY <1>1 DEF IdleRequest, RequestRow, MaybeNumber

LEMMA ContactStarts == ContactInit => ContactInv
<1> SUFFICES ASSUME ContactInit PROVE ContactInv
  OBVIOUS
<1>1. Registered \in Registrations
  BY ContactAssumption DEF Registered
<1>2. /\ Registered \in [Users -> Addresses]
      /\ \A u, w \in Users : Registered[u] = Registered[w] => u = w
  BY <1>1 DEF Registrations
<1>3. person \in [Users -> PersonRow] /\ supabase \in [Users -> SupabaseRow]
  BY <1>2 DEF ContactInit, PersonRow, SupabaseRow, MaybeNumber
<1>4. otpRows \in Seq(CodeRow) /\ request \in [Requests -> RequestRow]
  BY IdleRequestIsRequest DEF ContactInit
<1>5. ContactsAreOwned
  <2>1. \A u, w \in Users : u # w => {Registered[u]} # {Registered[w]}
    BY <1>2
  <2>2. \A u \in Users : /\ person[u].email = {Registered[u]} /\ person[u].phone = {}
                         /\ ~person[u].phoneVerified /\ supabase[u].confirmed = {Registered[u]}
    BY DEF ContactInit
  <2> QED BY <2>1, <2>2 DEF ContactsAreOwned
<1>6. \A k \in Requests : request[k].pc = "idle"
  BY DEF ContactInit, IdleRequest
<1>7. \A u \in Users : supabase[u].email \subseteq supabase[u].confirmed
  BY DEF ContactInit
<1> QED BY <1>3, <1>4, <1>5, <1>6, <1>7 DEF ContactInv, ContactTypes

(***************************************************************************)
(* The ways a step goes: a request moves; the rows of a person change.     *)
(***************************************************************************)
\* A request moves: what it claims to have proved was proved, what it copies was confirmed.
LEMMA RequestMoves ==
    ASSUME ContactInv, NEW k \in Requests, NEW entry \in RequestRow, otpRows' \in Seq(CodeRow),
           UNCHANGED <<person, supabase>>, proved \subseteq proved',
           request' = [request EXCEPT ![k] = entry],
           entry.pc \in {"consume", "mark", "marking"} => \E n \in Numbers : <<entry.user, n>> \in proved',
           entry.pc = "sync" => entry.address \subseteq supabase[entry.user].confirmed
    PROVE  ContactInv'
<1>1. /\ request' \in [Requests -> RequestRow] /\ request'[k] = entry
      /\ \A j \in Requests : j # k => request'[j] = request[j]
  BY DEF ContactInv, ContactTypes
<1>2. \A u \in Users : HasProved(u) => HasProved(u)'
  BY DEF HasProved
<1>3. ContactsAreOwned'
  BY <1>2 DEF ContactInv, ContactsAreOwned, HasProved
<1>4. ASSUME NEW j \in Requests
      PROVE  /\ request'[j].pc \in {"consume", "mark", "marking"} => \E n \in Numbers : <<request'[j].user, n>> \in proved'
             /\ request'[j].pc = "sync" => request'[j].address \subseteq supabase'[request'[j].user].confirmed
  <2>1. CASE j = k
    BY <1>1, <2>1
  <2>2. CASE j # k
    <3>1. request'[j] = request[j] /\ request[j].user \in Users
      BY <1>1, <2>2 DEF ContactInv, ContactTypes, RequestRow
    <3> QED BY <1>2, <3>1 DEF ContactInv, HasProved
  <2> QED BY <2>1, <2>2
<1> QED BY <1>1, <1>3, <1>4 DEF ContactInv, ContactTypes, HasProved

\* A request ends and writes its person's row: numbers and addresses stay one person's.
LEMMA PersonMoves ==
    ASSUME ContactInv, NEW k \in Requests, NEW entry \in PersonRow, NEW v \in Users,
           UNCHANGED <<supabase, otpRows, proved>>, Closes(k),
           person' = [person EXCEPT ![v] = entry],
           entry.email \subseteq supabase[v].confirmed, entry.phoneVerified => HasProved(v),
           \A w \in Users : w # v => /\ entry.email # person[w].email
                                     /\ entry.phone # {} => entry.phone # person[w].phone
    PROVE  ContactInv'
<1>1. /\ person' \in [Users -> PersonRow] /\ person'[v] = entry
      /\ \A w \in Users : w # v => person'[w] = person[w]
  BY DEF ContactInv, ContactTypes
<1>2. /\ request' \in [Requests -> RequestRow] /\ request'[k].pc = "idle"
      /\ \A j \in Requests : j # k => request'[j] = request[j]
  BY IdleRequestIsRequest DEF ContactInv, ContactTypes, Closes, IdleRequest
<1>3. ContactsAreOwned'
  <2>1. \A u \in Users : /\ person'[u].email \subseteq supabase'[u].confirmed
                         /\ person'[u].phoneVerified => \E n \in Numbers : <<u, n>> \in proved'
    BY <1>1 DEF ContactInv, ContactsAreOwned, HasProved
  <2>2. ASSUME NEW u \in Users, NEW w \in Users, u # w
        PROVE  person'[u].email # person'[w].email /\ (person'[u].phone # {} => person'[u].phone # person'[w].phone)
    <3>1. CASE u = v
      BY <1>1, <2>2, <3>1
    <3>2. CASE w = v
      BY <1>1, <2>2, <3>2
    <3>3. CASE u # v /\ w # v
      BY <1>1, <2>2, <3>3 DEF ContactInv, ContactsAreOwned
    <3> QED BY <3>1, <3>2, <3>3
  <2> QED BY <2>1, <2>2 DEF ContactsAreOwned
<1>4. \A j \in Requests :
         /\ request'[j].pc \in {"consume", "mark", "marking"} => \E n \in Numbers : <<request'[j].user, n>> \in proved'
         /\ request'[j].pc = "sync" => request'[j].address \subseteq supabase'[request'[j].user].confirmed
  BY <1>2 DEF ContactInv, HasProved
<1> QED BY <1>1, <1>2, <1>3, <1>4 DEF ContactInv, ContactTypes, HasProved

\* Supabase's row changes: what was confirmed stays so.
LEMMA SupabaseMoves ==
    ASSUME ContactInv, NEW v \in Users, NEW entry \in SupabaseRow,
           UNCHANGED <<person, otpRows, request, proved>>, supabase' = [supabase EXCEPT ![v] = entry],
           supabase[v].confirmed \subseteq entry.confirmed, entry.email \subseteq entry.confirmed
    PROVE  ContactInv'
<1>1. /\ supabase' \in [Users -> SupabaseRow] /\ supabase'[v] = entry
      /\ \A w \in Users : w # v => supabase'[w] = supabase[w]
  BY DEF ContactInv, ContactTypes
<1>2. \A w \in Users : supabase[w].confirmed \subseteq supabase'[w].confirmed
                       /\ supabase'[w].email \subseteq supabase'[w].confirmed
  BY <1>1 DEF ContactInv
<1>3. ContactsAreOwned'
  BY <1>2 DEF ContactInv, ContactsAreOwned
<1>4. \A j \in Requests : request[j].user \in Users
  BY DEF ContactInv, ContactTypes, RequestRow
<1>5. \A j \in Requests :
         /\ request[j].pc \in {"consume", "mark", "marking"} => HasProved(request[j].user)'
         /\ request[j].pc = "sync" => request[j].address \subseteq supabase'[request[j].user].confirmed
  BY <1>2, <1>4 DEF ContactInv, HasProved
<1> QED BY <1>1, <1>2, <1>3, <1>5 DEF ContactInv, ContactTypes

(***************************************************************************)
(* The codes.                                                              *)
(***************************************************************************)
LEMMA VoidedAreCodes ==
    ASSUME NEW codes \in Seq(CodeRow), NEW u \in Users PROVE Voided(codes, u) \in Seq(CodeRow)
<1>1. \A i \in DOMAIN codes : codes[i] \in CodeRow
  OBVIOUS
<1>2. ASSUME NEW i \in DOMAIN codes PROVE [codes[i] EXCEPT !.live = @ /\ codes[i].user # u] \in CodeRow
  <2> DEFINE b == codes[i].live /\ codes[i].user # u
  <2>1. b \in BOOLEAN
    OBVIOUS
  <2> HIDE DEF b
  <2>2. [codes[i] EXCEPT !.live = b] \in CodeRow
    BY <1>1, <2>1 DEF CodeRow
  <2> QED BY <2>2 DEF b
<1> DEFINE n == Len(codes)
<1>3. n \in Nat /\ DOMAIN codes = 1 .. n
  OBVIOUS
<1>4. Voided(codes, u) \in [1 .. n -> CodeRow]
  BY <1>2, <1>3 DEF Voided
<1> QED BY <1>3, <1>4, SeqDef

LEMMA UsedCodesAreCodes ==
    ASSUME NEW codes \in Seq(CodeRow), NEW i \in Int
    PROVE  [codes EXCEPT ![i].live = FALSE] \in Seq(CodeRow)
<1> DEFINE m == Len(codes)
<1>1. m \in Nat /\ codes \in [1 .. m -> CodeRow]
  OBVIOUS
<1> HIDE DEF m
<1>2. [codes EXCEPT ![i].live = FALSE] \in [1 .. m -> CodeRow]
  BY <1>1 DEF CodeRow
<1> QED BY <1>1, <1>2, SeqDef

LEMMA SentCodesAreCodes ==
    ASSUME NEW codes \in Seq(CodeRow), NEW i \in Int, NEW n \in MaybeNumber
    PROVE  [codes EXCEPT ![i].sentTo = n] \in Seq(CodeRow)
<1> DEFINE m == Len(codes)
<1>1. m \in Nat /\ codes \in [1 .. m -> CodeRow]
  OBVIOUS
<1> HIDE DEF m
<1>2. [codes EXCEPT ![i].sentTo = n] \in [1 .. m -> CodeRow]
  BY <1>1 DEF CodeRow
<1> QED BY <1>1, <1>2, SeqDef

LEMMA PhoneStays ==
    ASSUME ContactInv, PhoneNext
    PROVE  ContactInv'
<1>1. /\ person \in [Users -> PersonRow] /\ supabase \in [Users -> SupabaseRow]
      /\ otpRows \in Seq(CodeRow) /\ request \in [Requests -> RequestRow]
  BY DEF ContactInv, ContactTypes
<1>2. IdleRequest \in RequestRow /\ IdleRequest.pc = "idle"
  BY IdleRequestIsRequest DEF IdleRequest
<1>3. \A i \in DOMAIN otpRows : otpRows[i] \in CodeRow
  BY <1>1
<1>4. ASSUME NEW k \in Requests, NEW u \in Users, NEW n \in Numbers, AssertPhoneAvailable(k, u, n) PROVE ContactInv'
  <2> DEFINE entry == [IdleRequest EXCEPT !.pc = "compare", !.user = u, !.number = {n}]
  <2>1. entry \in RequestRow /\ entry.pc = "compare"
    BY <1>2 DEF RequestRow, MaybeNumber
  <2>2. request' = [request EXCEPT ![k] = entry] /\ UNCHANGED <<person, supabase, otpRows, proved>>
    BY <1>4 DEF AssertPhoneAvailable
  <2> HIDE DEF entry
  <2> QED BY <1>1, <2>1, <2>2, RequestMoves
<1>5. ASSUME NEW k \in Requests, PhoneChanged(k) PROVE ContactInv'
  <2> DEFINE b == person[request[k].user].phone # request[k].number
             entry == [request[k] EXCEPT !.pc = "write", !.changed = b]
  <2>1. b \in BOOLEAN
    OBVIOUS
  <2>2. request' = [request EXCEPT ![k] = entry] /\ UNCHANGED <<person, supabase, otpRows, proved>>
    BY <1>1, <1>5 DEF PhoneChanged
  <2> HIDE DEF b
  <2>3. entry \in RequestRow /\ entry.pc = "write"
    BY <1>1, <2>1 DEF RequestRow
  <2> HIDE DEF entry
  <2> QED BY <1>1, <2>2, <2>3, RequestMoves
<1>6. ASSUME NEW k \in Requests, UpdatePhone(k) PROVE ContactInv'
  <2> DEFINE v == request[k].user
             m == request[k].number
             b == person[v].phoneVerified /\ ~request[k].changed
             kept == person[v]
             moved == [person[v] EXCEPT !.phone = m, !.phoneVerified = b]
  <2>1. v \in Users /\ m \in MaybeNumber /\ b \in BOOLEAN /\ kept \in PersonRow
    BY <1>1 DEF RequestRow
  <2>2. /\ UNCHANGED <<supabase, otpRows, proved>> /\ Closes(k)
        /\ person' = IF \A n \in m : ~Held(v, n) THEN [person EXCEPT ![v] = moved] ELSE person
    BY <1>1, <1>6, <2>1 DEF UpdatePhone
  <2>3. person = [person EXCEPT ![v] = kept]
    BY <1>1
  <2>4. /\ kept.email \subseteq supabase[v].confirmed /\ (kept.phoneVerified => HasProved(v)) /\ (b => kept.phoneVerified)
        /\ \A w \in Users : w # v => /\ kept.email # person[w].email
                                     /\ kept.phone # {} => kept.phone # person[w].phone
    BY <2>1 DEF ContactInv, ContactsAreOwned, HasProved
  <2>5. moved.email = kept.email /\ moved.phone = m /\ moved.phoneVerified = b /\ moved \in PersonRow
    BY <2>1 DEF PersonRow
  <2>6. CASE \A n \in m : ~Held(v, n)
    <3>1. \A w \in Users : w # v /\ m # {} => m # person[w].phone
      BY <2>1, <2>6 DEF Held, MaybeNumber
    <3>2. person' = [person EXCEPT ![v] = moved]
      BY <2>2, <2>6
    <3> HIDE DEF moved, m, b, kept, v
    <3>3. /\ moved.email \subseteq supabase[v].confirmed /\ (moved.phoneVerified => HasProved(v))
          /\ \A w \in Users : w # v => /\ moved.email # person[w].email
                                       /\ moved.phone # {} => moved.phone # person[w].phone
      BY <2>4, <2>5, <3>1
    <3> QED BY <2>1, <2>2, <2>5, <3>2, <3>3, PersonMoves
  <2>7. CASE ~\A n \in m : ~Held(v, n)
    <3>1. person' = [person EXCEPT ![v] = kept]
      BY <2>2, <2>3, <2>7
    <3> HIDE DEF moved, m, b, kept, v
    <3> QED BY <2>1, <2>2, <2>4, <3>1, PersonMoves
  <2> QED BY <2>6, <2>7
<1>7. ASSUME NEW k \in Requests, NEW u \in Users, NEW pc \in {"send", "verify"}, AssertOwnTarget(k, u, pc)
      PROVE  ContactInv'
  <2> DEFINE phone == person[u].phone
             entry == [IdleRequest EXCEPT !.pc = pc, !.user = u, !.number = phone]
  <2>1. phone \in MaybeNumber
    BY <1>1 DEF PersonRow
  <2>2. request' = [request EXCEPT ![k] = entry] /\ UNCHANGED <<person, supabase, otpRows, proved>>
    BY <1>7 DEF AssertOwnTarget
  <2> HIDE DEF phone
  <2>3. entry \in RequestRow /\ entry.pc \in {"send", "verify"}
    BY <1>2, <2>1 DEF RequestRow
  <2> HIDE DEF entry
  <2> QED BY <1>1, <2>2, <2>3, RequestMoves
<1>14. ASSUME NEW k \in Requests, Send(k) PROVE ContactInv'
  <2> DEFINE n == Len(otpRows) + 1
             u == request[k].user
             entry == [request[k] EXCEPT !.pc = "deliver", !.code = n]
             made == [user |-> u, live |-> TRUE, sentTo |-> {}]
  <2>1. n \in Nat /\ u \in Users /\ made \in CodeRow
    BY <1>1 DEF RequestRow, CodeRow, MaybeNumber
  <2>2. /\ request' = [request EXCEPT ![k] = entry] /\ UNCHANGED <<person, supabase, proved>>
        /\ otpRows' = Append(Voided(otpRows, u), made)
    BY <1>1, <1>14 DEF Send
  <2> HIDE DEF n, made
  <2>3. entry \in RequestRow /\ entry.pc = "deliver"
    BY <1>1, <2>1 DEF RequestRow
  <2> HIDE DEF u
  <2>4. otpRows' \in Seq(CodeRow)
    BY <1>1, <2>1, <2>2, VoidedAreCodes
  <2> HIDE DEF entry
  <2> QED BY <2>2, <2>3, <2>4, RequestMoves
<1>15. ASSUME NEW k \in Requests, RefuseCode(k) PROVE ContactInv'
  <2>1. request' = [request EXCEPT ![k] = IdleRequest] /\ UNCHANGED <<person, supabase, otpRows, proved>>
    BY <1>15 DEF RefuseCode, Closes
  <2> QED BY <1>1, <1>2, <2>1, RequestMoves
<1>8. ASSUME NEW k \in Requests, NEW delivered \in BOOLEAN, Deliver(k, delivered) PROVE ContactInv'
  <2>1. request' = [request EXCEPT ![k] = IdleRequest] /\ UNCHANGED <<person, supabase, proved>>
    BY <1>8 DEF Deliver, Closes
  <2>2. request[k].code \in Int /\ request[k].number \in MaybeNumber /\ request[k].user \in Users
    BY <1>1 DEF RequestRow
  <2>3. otpRows' = [otpRows EXCEPT ![request[k].code].sentTo = request[k].number]
        \/ otpRows' = Voided(otpRows, request[k].user)
    BY <1>8 DEF Deliver
  <2>4. /\ [otpRows EXCEPT ![request[k].code].sentTo = request[k].number] \in Seq(CodeRow)
        /\ Voided(otpRows, request[k].user) \in Seq(CodeRow)
    BY <1>1, <2>2, SentCodesAreCodes, VoidedAreCodes
  <2>5. otpRows' \in Seq(CodeRow)
    BY <2>3, <2>4
  <2> QED BY <1>2, <2>1, <2>5, RequestMoves
<1>9. ASSUME NEW i \in DOMAIN otpRows, CodeExpires(i) PROVE ContactInv'
  <2>1. otpRows' \in Seq(CodeRow) /\ UNCHANGED <<person, supabase, request, proved>>
    BY <1>1, <1>9, UsedCodesAreCodes DEF CodeExpires
  <2> QED BY <2>1 DEF ContactInv, ContactTypes, ContactsAreOwned, HasProved
<1>10. ASSUME NEW k \in Requests, NEW i \in DOMAIN otpRows, FindCode(k, i) PROVE ContactInv'
  <2> DEFINE u == request[k].user
             entry == [request[k] EXCEPT !.pc = "consume", !.code = i]
  <2>1. i \in Nat
    BY <1>1
  <2>2. /\ request' = [request EXCEPT ![k] = entry] /\ UNCHANGED <<person, supabase, otpRows>>
        /\ proved' = proved \cup {<<u, n>> : n \in otpRows[i].sentTo}
    BY <1>1, <1>10 DEF FindCode
  <2>3. PICK n \in Numbers : n \in otpRows[i].sentTo
    BY <1>3, <1>10 DEF FindCode, CodeRow, MaybeNumber
  <2>4. <<u, n>> \in proved'
    BY <2>2, <2>3
  <2>5. entry \in RequestRow /\ entry.pc = "consume" /\ entry.user = u
    BY <1>1, <2>1 DEF RequestRow
  <2> HIDE DEF entry
  <2>6. proved \subseteq proved' /\ otpRows' \in Seq(CodeRow)
    BY <1>1, <2>2
  <2> QED BY <2>2, <2>4, <2>5, <2>6, RequestMoves
<1>11. ASSUME NEW k \in Requests, UseCode(k) PROVE ContactInv'
  <2> DEFINE entry == [request[k] EXCEPT !.pc = "mark"]
  <2>1. /\ request' = [request EXCEPT ![k] = entry] /\ UNCHANGED <<person, supabase, proved>>
        /\ otpRows' = [otpRows EXCEPT ![request[k].code].live = FALSE]
    BY <1>1, <1>11 DEF UseCode
  <2>2. entry \in RequestRow /\ entry.pc = "mark" /\ entry.user = request[k].user /\ request[k].code \in Int
    BY SMTT(30), <1>1 DEF RequestRow
  <2>3. otpRows' \in Seq(CodeRow)
    BY <1>1, <2>1, <2>2, UsedCodesAreCodes
  <2>4. \E n \in Numbers : <<entry.user, n>> \in proved'
    BY <1>11, <2>1, <2>2 DEF UseCode, ContactInv, HasProved
  <2> HIDE DEF entry
  <2> QED BY <2>1, <2>2, <2>3, <2>4, RequestMoves
<1>12. ASSUME NEW k \in Requests, CompareTarget(k) PROVE ContactInv'
  <2> DEFINE entry == [request[k] EXCEPT !.pc = "marking"]
  <2>1. /\ request' = [request EXCEPT ![k] = entry] \/ request' = [request EXCEPT ![k] = IdleRequest]
        /\ UNCHANGED <<person, supabase, otpRows, proved>>
    BY <1>1, <1>12 DEF CompareTarget, Closes
  <2>2. entry \in RequestRow /\ entry.pc = "marking" /\ entry.user = request[k].user
    BY <1>1 DEF RequestRow
  <2>3. \E n \in Numbers : <<entry.user, n>> \in proved'
    BY <1>12, <2>1, <2>2 DEF CompareTarget, ContactInv, HasProved
  <2> HIDE DEF entry
  <2>4. CASE request' = [request EXCEPT ![k] = entry]
    BY <1>1, <2>1, <2>2, <2>3, <2>4, RequestMoves
  <2>5. CASE request' = [request EXCEPT ![k] = IdleRequest]
    BY <1>1, <1>2, <2>1, <2>5, RequestMoves
  <2> QED BY <2>1, <2>4, <2>5
<1>13. ASSUME NEW k \in Requests, MarkVerified(k) PROVE ContactInv'
  <2> DEFINE v == request[k].user
             entry == [person[v] EXCEPT !.phoneVerified = TRUE]
  <2>1. v \in Users /\ HasProved(v)
    BY <1>1, <1>13 DEF MarkVerified, RequestRow, ContactInv
  <2>2. person' = [person EXCEPT ![v] = entry] /\ UNCHANGED <<supabase, otpRows, proved>> /\ Closes(k)
    BY <1>1, <1>13, <2>1 DEF MarkVerified
  <2>3. /\ entry \in PersonRow /\ entry.email = person[v].email /\ entry.phone = person[v].phone
    BY <1>1, <2>1 DEF PersonRow
  <2>4. /\ entry.email \subseteq supabase[v].confirmed
        /\ \A w \in Users : w # v => /\ entry.email # person[w].email
                                     /\ entry.phone # {} => entry.phone # person[w].phone
    BY <2>1, <2>3 DEF ContactInv, ContactsAreOwned
  <2> HIDE DEF entry, v
  <2> QED BY <2>1, <2>2, <2>3, <2>4, PersonMoves
<1> QED BY <1>4, <1>5, <1>6, <1>7, <1>8, <1>9, <1>10, <1>11, <1>12, <1>13, <1>14, <1>15 DEF PhoneNext

LEMMA EmailStays ==
    ASSUME ContactInv, EmailNext
    PROVE  ContactInv'
<1>1. /\ person \in [Users -> PersonRow] /\ supabase \in [Users -> SupabaseRow]
      /\ otpRows \in Seq(CodeRow) /\ request \in [Requests -> RequestRow]
  BY DEF ContactInv, ContactTypes
<1>2. ASSUME NEW u \in Users, NEW e \in Addresses, RequestEmailChange(u, e) PROVE ContactInv'
  <2> DEFINE entry == [supabase[u] EXCEPT !.pending = {e}]
  <2>1. supabase' = [supabase EXCEPT ![u] = entry] /\ UNCHANGED <<person, otpRows, request, proved>>
    BY <1>1, <1>2 DEF RequestEmailChange
  <2>2. entry \in SupabaseRow /\ entry.email = supabase[u].email /\ entry.confirmed = supabase[u].confirmed
    BY <1>1 DEF SupabaseRow
  <2>3. entry.email \subseteq entry.confirmed
    BY <2>2 DEF ContactInv
  <2> HIDE DEF entry
  <2> QED BY <2>1, <2>2, <2>3, SupabaseMoves
<1>3. ASSUME NEW u \in Users, ConfirmChange(u) PROVE ContactInv'
  <2> DEFINE e == supabase[u].pending
             c == supabase[u].confirmed \cup supabase[u].pending
             entry == [email |-> e, pending |-> {}, confirmed |-> c]
  <2>1. supabase' = [supabase EXCEPT ![u] = entry] /\ UNCHANGED <<person, otpRows, request, proved>>
    BY <1>1, <1>3 DEF ConfirmChange
  <2>2. e \subseteq c /\ supabase[u].confirmed \subseteq c /\ e \subseteq Addresses /\ c \subseteq Addresses
    BY <1>1 DEF SupabaseRow
  <2> HIDE DEF e, c
  <2>3. entry \in SupabaseRow /\ entry.email = e /\ entry.confirmed = c
    BY <2>2 DEF SupabaseRow
  <2> HIDE DEF entry
  <2> QED BY <2>1, <2>2, <2>3, SupabaseMoves
<1>4. ASSUME NEW k \in Requests, NEW u \in Users, GetUser(k, u) PROVE ContactInv'
  <2> DEFINE e == supabase[u].email
             entry == [IdleRequest EXCEPT !.pc = "sync", !.user = u, !.address = e]
  <2>1. request' = [request EXCEPT ![k] = entry] /\ UNCHANGED <<person, supabase, otpRows, proved>>
    BY <1>4 DEF GetUser, ConfirmedEmail
  <2>2. e \subseteq Addresses /\ e \subseteq supabase[u].confirmed
    BY <1>1 DEF SupabaseRow, ContactInv
  <2> HIDE DEF e
  <2>3. entry \in RequestRow /\ entry.pc = "sync" /\ entry.user = u /\ entry.address = e
    BY <2>2, IdleRequestIsRequest DEF RequestRow
  <2> HIDE DEF entry
  <2> QED BY <1>1, <2>1, <2>2, <2>3, RequestMoves
<1>5. ASSUME NEW k \in Requests, SyncEmail(k) PROVE ContactInv'
  <2> DEFINE v == request[k].user
             e == request[k].address
             taken == \E w \in Users \ {v} : person[w].email = e
             kept == person[v]
             moved == [person[v] EXCEPT !.email = e]
  <2>1. v \in Users /\ e \subseteq Addresses /\ e \subseteq supabase[v].confirmed
    BY <1>1, <1>5 DEF SyncEmail, RequestRow, ContactInv
  <2>2. /\ UNCHANGED <<supabase, otpRows, proved>> /\ Closes(k)
        /\ person' = IF taken THEN person ELSE [person EXCEPT ![v] = moved]
    BY <1>1, <1>5, <2>1 DEF SyncEmail
  <2>3. person = [person EXCEPT ![v] = kept] /\ kept \in PersonRow
    BY <1>1, <2>1
  <2>4. /\ kept.email \subseteq supabase[v].confirmed /\ (kept.phoneVerified => HasProved(v))
        /\ \A w \in Users : w # v => /\ kept.email # person[w].email
                                     /\ kept.phone # {} => kept.phone # person[w].phone
    BY <2>1 DEF ContactInv, ContactsAreOwned, HasProved
  <2>5. moved.email = e /\ moved.phone = kept.phone /\ moved.phoneVerified = kept.phoneVerified /\ moved \in PersonRow
    BY <2>1, <2>3 DEF PersonRow
  <2>6. ~taken => \A w \in Users : w # v => e # person[w].email
    OBVIOUS
  <2> HIDE DEF taken, v, e, kept, moved
  <2>7. CASE taken
    BY <2>1, <2>2, <2>3, <2>4, <2>7, PersonMoves
  <2>8. CASE ~taken
    <3>1. person' = [person EXCEPT ![v] = moved]
      BY <2>2, <2>8
    <3>2. /\ moved.email \subseteq supabase[v].confirmed /\ (moved.phoneVerified => HasProved(v))
          /\ \A w \in Users : w # v => /\ moved.email # person[w].email
                                       /\ moved.phone # {} => moved.phone # person[w].phone
      BY <2>1, <2>4, <2>5, <2>6, <2>8
    <3> QED BY <2>1, <2>2, <2>5, <3>1, <3>2, PersonMoves
  <2> QED BY <2>7, <2>8
<1> QED BY <1>2, <1>3, <1>4, <1>5 DEF EmailNext

\* ProfilesService.update, OtpService and EmailChangeService: however they overlap, an address or a
\* number is one profile's, a profile's address was confirmed by its owner, and a number is verified
\* only for somebody who sent a code back.
THEOREM ContactsStayOwned == ContactSpec => []ContactsAreOwned
<1>1. ContactInv /\ [PhoneNext \/ EmailNext]_contactVars => ContactInv'
  <2> SUFFICES ASSUME ContactInv, [PhoneNext \/ EmailNext]_contactVars PROVE ContactInv'
    OBVIOUS
  <2>1. CASE UNCHANGED contactVars
    BY <2>1 DEF contactVars, ContactInv, ContactTypes, ContactsAreOwned, HasProved
  <2> QED BY <2>1, PhoneStays, EmailStays
<1>2. ContactInv => ContactsAreOwned
  BY DEF ContactInv
<1> QED BY <1>1, <1>2, ContactStarts, PTL DEF ContactSpec

(***************************************************************************)
(* Settings: patches, enrolments and the feed.  Of what is stored nothing  *)
(* survives the merge with an instance that defines every preference: the  *)
(* stored preferences are those of one patch.                              *)
(***************************************************************************)
Progress == Open \cup {"new", "done", "refused", "failed", "stopped"}
Kinds == Alerted \cup {"none", "patch", "payee", "budget"}
EnrolmentRow == [row : SUBSET Changes, publicKey : BOOLEAN, isActive : BOOLEAN]
IsChange(entry) ==
    /\ entry = [pc |-> entry.pc, kind |-> entry.kind, on |-> entry.on, row |-> entry.row, values |-> entry.values]
    /\ entry.pc \in Progress /\ entry.kind \in Kinds

ChangeTypes ==
    /\ change = [c \in Changes |-> change[c]] /\ \A c \in Changes : IsChange(change[c])
    /\ feed \in [Changes -> {"none", "UNREAD", "READ"}]

\* What a patch is about to store is the patch, and what is stored is a patch that was answered.
WishesInv ==
    /\ DOMAIN preferences \subseteq Choices
    /\ \A p \in DOMAIN preferences : p \in DOMAIN wanted /\ preferences[p] = wanted[p]
    /\ wanted # <<>> => \E c \in Changes : change[c].pc = "done" /\ change[c].kind = "patch"
                                          /\ preferences = change[c].on
    /\ \A c \in Changes : change[c].pc = "patching" =>
         rowLock = {c} /\ change[c].on \in Patches /\ change[c].values = change[c].on

KeysInv == biometric \in [Gadgets -> EnrolmentRow] /\ keyed = {g \in Gadgets : biometric[g].publicKey}

\* A request that comes to its alert has its audit row, and one past it is in the feed.
FeedInv ==
    \A c \in Changes :
        /\ feed[c] # "none" \/ change[c].pc = "alert" => c \in audited
        /\ change[c].pc \in {"devices", "push"} => feed[c] # "none"
        /\ change[c].pc = "done" /\ change[c].kind \in Alerted => feed[c] # "none"
        /\ change[c].pc = "resolved" => change[c].kind = "payee"
        /\ change[c].pc = "patching" => change[c].kind = "patch"

SettingsInv == ChangeTypes /\ WishesInv /\ KeysInv /\ FeedInv

LEMMA NotMadeIsChange ==
    IsChange(NotMade) /\ NotMade.pc = "new" /\ NotMade.kind = "none"
  BY DEF IsChange, NotMade, Progress, Kinds, Open

\* Each preference is defined by the instance, so nothing else is left of the merge.
LEMMA MergeIsPatch ==
    ASSUME NEW patch \in Patches, NEW known, DOMAIN known \subseteq Choices
    PROVE  Merged(patch, known) = patch
<1> DEFINE whole == Over(Instance(patch), Over(known, Defaults))
<1>1. /\ DOMAIN patch \subseteq Choices /\ patch = [p \in DOMAIN patch |-> patch[p]]
      /\ \A p \in DOMAIN patch : patch[p] \in Settled
  BY DEF Patches
<1>2. DOMAIN Instance(patch) = Choices /\ DOMAIN Over(known, Defaults) = Choices
  BY DEF Instance, Over, Defaults
<1>3. DOMAIN whole = Choices /\ \A p \in Choices : whole[p] = Instance(patch)[p]
  BY <1>2 DEF Over
<1>4. \A p \in Choices : whole[p] = IF p \in DOMAIN patch THEN patch[p] ELSE "undefined"
  BY <1>3 DEF Instance
<1>5. \A p \in DOMAIN patch : patch[p] # "undefined"
  BY <1>1 DEF Settled
<1> HIDE DEF whole
<1>6. {p \in DOMAIN whole : whole[p] # "undefined"} = DOMAIN patch
  BY <1>1, <1>3, <1>4, <1>5
<1>7. AsJson(whole) = [p \in DOMAIN patch |-> whole[p]]
  BY <1>6 DEF AsJson
<1>8. \A p \in DOMAIN patch : whole[p] = patch[p]
  BY <1>1, <1>4
<1> QED BY <1>1, <1>7, <1>8 DEF Merged, whole

\* A record with new fields, one at a time.
LEMMA ChangeGoes ==
    ASSUME NEW old, IsChange(old), NEW pc, NEW on
    PROVE  [old EXCEPT !.pc = pc, !.on = on] =
             [pc |-> pc, kind |-> old.kind, on |-> on, row |-> old.row, values |-> old.values]
<1> DEFINE r1 == [old EXCEPT !.pc = pc]
           r2 == [r1 EXCEPT !.on = on]
<1>1. r1 = [pc |-> pc, kind |-> old.kind, on |-> old.on, row |-> old.row, values |-> old.values]
  BY DEF IsChange
<1> HIDE DEF r1
<1>2. r2 = [pc |-> pc, kind |-> old.kind, on |-> on, row |-> old.row, values |-> old.values]
  BY <1>1
<1> QED BY <1>2, Zenon DEF r1, r2

LEMMA ChangeBecomes ==
    ASSUME NEW old, IsChange(old), NEW pc, NEW kind, NEW on
    PROVE  [old EXCEPT !.pc = pc, !.kind = kind, !.on = on] =
             [pc |-> pc, kind |-> kind, on |-> on, row |-> old.row, values |-> old.values]
<1> DEFINE r1 == [old EXCEPT !.pc = pc]
           r2 == [r1 EXCEPT !.kind = kind]
           r3 == [r2 EXCEPT !.on = on]
<1>1. r1 = [pc |-> pc, kind |-> old.kind, on |-> old.on, row |-> old.row, values |-> old.values]
  BY DEF IsChange
<1> HIDE DEF r1
<1>2. r2 = [pc |-> pc, kind |-> kind, on |-> old.on, row |-> old.row, values |-> old.values]
  BY <1>1
<1> HIDE DEF r2
<1>3. r3 = [pc |-> pc, kind |-> kind, on |-> on, row |-> old.row, values |-> old.values]
  BY <1>2
<1> QED BY <1>3, Zenon DEF r1, r2, r3

LEMMA SettingsStart == SettingsInit => SettingsInv
<1> SUFFICES ASSUME SettingsInit PROVE SettingsInv
  OBVIOUS
<1>1. ChangeTypes
  BY NotMadeIsChange DEF SettingsInit, ChangeTypes
<1>2. \A c \in Changes : change[c].pc = "new" /\ feed[c] = "none"
  BY NotMadeIsChange DEF SettingsInit
<1>3. KeysInv
  BY DEF SettingsInit, KeysInv, EnrolmentRow, NoRow
<1>4. FeedInv
  BY <1>2 DEF FeedInv
<1>5. WishesInv
  <2>1. DOMAIN <<>> = {}
    OBVIOUS
  <2> QED BY <1>2, <2>1 DEF SettingsInit, WishesInv
<1> QED BY <1>1, <1>3, <1>4, <1>5 DEF SettingsInv

(***************************************************************************)
(* Enrolments.                                                             *)
(***************************************************************************)
LEMMA KeysStay ==
    ASSUME KeysInv, [SettingsNext]_settingsVars
    PROVE  KeysInv'
<1>1. biometric \in [Gadgets -> EnrolmentRow] /\ NoRow \in EnrolmentRow /\ ~NoRow.publicKey
  BY DEF KeysInv, EnrolmentRow, NoRow
<1>2. ASSUME UNCHANGED enrolments PROVE KeysInv'
  BY <1>2 DEF KeysInv, enrolments
<1>3. ASSUME NEW g \in Gadgets, NEW entry \in EnrolmentRow, biometric' = [biometric EXCEPT ![g] = entry],
             keyed' = IF entry.publicKey THEN keyed \cup {g} ELSE keyed \ {g}
      PROVE  KeysInv'
  <2>1. /\ biometric' \in [Gadgets -> EnrolmentRow] /\ biometric'[g] = entry
        /\ \A k \in Gadgets : k # g => biometric'[k] = biometric[k]
    BY <1>1, <1>3
  <2> QED BY <1>3, <2>1 DEF KeysInv, EnrolmentRow
<1>4. ASSUME NEW c \in Changes, NEW g \in Gadgets, CreateEnrolment(c, g) PROVE KeysInv'
  <2> DEFINE entry == [row |-> {c}, publicKey |-> TRUE, isActive |-> TRUE]
  <2>1. entry \in EnrolmentRow /\ entry.publicKey
    BY DEF EnrolmentRow
  <2>2. \/ UNCHANGED enrolments
        \/ biometric' = [biometric EXCEPT ![g] = entry] /\ keyed' = keyed \cup {g}
    BY <1>4 DEF CreateEnrolment
  <2> HIDE DEF entry
  <2> QED BY <1>2, <1>3, <2>1, <2>2
<1>5. ASSUME NEW c \in Changes, NEW g \in Gadgets, NEW active \in BOOLEAN, RecordLocal(c, g, active) PROVE KeysInv'
  <2> DEFINE fresh == [row |-> {c}, publicKey |-> FALSE, isActive |-> active]
             kept == [biometric[g] EXCEPT !.isActive = active]
             entry == IF biometric[g] = NoRow THEN fresh ELSE kept
  <2>1. fresh \in EnrolmentRow /\ ~fresh.publicKey
    BY DEF EnrolmentRow
  <2>2. kept \in EnrolmentRow /\ kept.publicKey = biometric[g].publicKey
    BY <1>1 DEF EnrolmentRow
  <2>3. biometric' = [biometric EXCEPT ![g] = entry] /\ keyed' = keyed
    BY <1>1, <1>5 DEF RecordLocal
  <2>4. g \in keyed <=> biometric[g].publicKey
    BY DEF KeysInv
  <2> HIDE DEF fresh, kept
  <2>5. entry \in EnrolmentRow /\ (entry.publicKey <=> g \in keyed)
    BY <1>1, <2>1, <2>2, <2>4
  <2> HIDE DEF entry
  <2> QED BY <1>3, <2>3, <2>5
<1>6. ASSUME NEW c \in Changes, NEW g \in Gadgets, NEW active \in BOOLEAN, WriteEnrolment(c, g, active) PROVE KeysInv'
  <2> DEFINE kept == [biometric[g] EXCEPT !.isActive = active]
  <2>1. kept \in EnrolmentRow /\ kept.publicKey = biometric[g].publicKey
    BY <1>1 DEF EnrolmentRow
  <2>2. \/ UNCHANGED enrolments
        \/ biometric' = [biometric EXCEPT ![g] = NoRow] /\ keyed' = keyed \ {g}
        \/ biometric' = [biometric EXCEPT ![g] = kept] /\ keyed' = keyed
    BY <1>1, <1>6 DEF WriteEnrolment
  <2>3. g \in keyed <=> biometric[g].publicKey
    BY DEF KeysInv
  <2> HIDE DEF kept
  <2> QED BY <1>1, <1>2, <1>3, <2>1, <2>2, <2>3
<1>7. ASSUME NEW c \in Changes, NEW g \in Gadgets, NEW kind \in {"update", "remove"}, FindEnrolment(c, g, kind)
      PROVE  KeysInv'
  BY <1>2, <1>7 DEF FindEnrolment
<1>8. ASSUME NEW c \in Changes,
             \/ WritePreferences(c) \/ SavePayee(c) \/ RecordAudit(c) \/ CreateAlert(c)
             \/ SendPushes(c) \/ MarkRead(c) \/ StopChange(c)
             \/ \E patch \in Patches : ReadPreferences(c, patch)
             \/ SaveAddress(c) \/ UpdateBudget(c) \/ UpdateAvatar(c)
             \/ \E fails \in BOOLEAN : ReadDevices(c, fails)
             \/ \E p \in Payees : RemovePayee(c, p) \/ \E resolved \in BOOLEAN : ResolvePayee(c, p, resolved)
      PROVE  KeysInv'
  <2>1. UNCHANGED enrolments
    BY <1>8 DEF WritePreferences, SavePayee, RecordAudit, CreateAlert, SendPushes, MarkRead,
       StopChange, ReadPreferences, SaveAddress, UpdateBudget, UpdateAvatar, SaveDetail,
       ReadDevices, RemovePayee, ResolvePayee
  <2> QED BY <1>2, <2>1
<1>9. CASE MarkAllRead \/ (\E t \in Tokens, u \in {"user", "another"} : RegisterDevice(t, u) \/ UnregisterDevice(t, u))
  BY <1>2, <1>9 DEF MarkAllRead, RegisterDevice, UnregisterDevice
<1>10. CASE UNCHANGED settingsVars
  BY <1>2, <1>10 DEF settingsVars, enrolments
<1>11. CASE \E c \in Changes, g \in Gadgets :
              \/ CreateEnrolment(c, g)
              \/ \E kind \in {"update", "remove"} : FindEnrolment(c, g, kind)
              \/ \E active \in BOOLEAN : RecordLocal(c, g, active) \/ WriteEnrolment(c, g, active)
  BY <1>4, <1>5, <1>6, <1>7, <1>11
<1>12. CASE \E c \in Changes :
             \/ WritePreferences(c) \/ SavePayee(c) \/ RecordAudit(c) \/ CreateAlert(c)
             \/ SendPushes(c) \/ MarkRead(c) \/ StopChange(c)
             \/ \E patch \in Patches : ReadPreferences(c, patch)
             \/ SaveAddress(c) \/ UpdateBudget(c) \/ UpdateAvatar(c)
             \/ \E fails \in BOOLEAN : ReadDevices(c, fails)
             \/ \E p \in Payees : RemovePayee(c, p) \/ \E resolved \in BOOLEAN : ResolvePayee(c, p, resolved)
  BY <1>8, <1>12
<1> QED
  BY <1>9, <1>10, <1>11, <1>12 DEF SettingsNext

(***************************************************************************)
(* Requests.                                                               *)
(***************************************************************************)
\* A request moves outside a patch: the lock of the row may be given up by its holder only.
LEMMA ChangeMoves ==
    ASSUME SettingsInv, KeysInv', NEW c \in Changes, NEW entry,
           IsChange(entry), change' = [change EXCEPT ![c] = entry], change[c].pc # "done",
           UNCHANGED <<preferences, wanted>>, rowLock' \in {rowLock, rowLock \ {c}},
           feed' \in [Changes -> {"none", "UNREAD", "READ"}],
           \A k \in Changes : feed'[k] # feed[k] => feed'[k] # "none" /\ k \in audited',
           audited \subseteq audited', entry.pc # "patching",
           entry.pc = "alert" => c \in audited',
           entry.pc \in {"devices", "push"} => feed'[c] # "none",
           entry.pc = "done" /\ entry.kind \in Alerted => feed'[c] # "none",
           entry.pc = "resolved" => entry.kind = "payee"
    PROVE  SettingsInv'
<1>1. /\ change' = [k \in Changes |-> IF k = c THEN entry ELSE change[k]]
      /\ change'[c] = entry /\ \A k \in Changes : k # c => change'[k] = change[k]
  BY DEF SettingsInv, ChangeTypes
<1>2. ChangeTypes'
  <2>1. change' = [k \in Changes |-> change'[k]]
    BY <1>1
  <2>2. \A k \in Changes : IsChange(change'[k])
    BY <1>1 DEF SettingsInv, ChangeTypes
  <2> QED BY <2>1, <2>2 DEF ChangeTypes, IsChange
<1>3. WishesInv'
  <2>1. ASSUME NEW k \in Changes, change'[k].pc = "patching"
        PROVE  rowLock' = {k} /\ change'[k].on \in Patches /\ change'[k].values = change'[k].on
    <3>1. k # c
      BY <1>1, <2>1
    <3>2. change'[k] = change[k] /\ rowLock = {k}
      BY <1>1, <2>1, <3>1 DEF SettingsInv, WishesInv
    <3> QED BY <2>1, <3>1, <3>2 DEF SettingsInv, WishesInv
  <2>2. wanted # <<>> => \E k \in Changes : change'[k].pc = "done" /\ change'[k].kind = "patch"
                                           /\ preferences = change'[k].on
    <3>1. \A k \in Changes : change[k].pc = "done" => change'[k] = change[k]
      BY <1>1
    <3> QED BY <3>1 DEF SettingsInv, WishesInv
  <2> QED BY <2>1, <2>2 DEF SettingsInv, WishesInv
<1>4. FeedInv'
  <2>1. ASSUME NEW k \in Changes, k # c
        PROVE  /\ feed'[k] # "none" \/ change'[k].pc = "alert" => k \in audited'
               /\ change'[k].pc \in {"devices", "push"} => feed'[k] # "none"
               /\ change'[k].pc = "done" /\ change'[k].kind \in Alerted => feed'[k] # "none"
               /\ change'[k].pc = "resolved" => change'[k].kind = "payee"
               /\ change'[k].pc = "patching" => change'[k].kind = "patch"
    BY <1>1, <2>1 DEF SettingsInv, FeedInv
  <2>2. feed'[c] # "none" => c \in audited'
    BY DEF SettingsInv, FeedInv
  <2> QED BY <1>1, <2>1, <2>2 DEF FeedInv, Alerted
<1> QED BY <1>2, <1>3, <1>4 DEF SettingsInv

\* Nothing but the feed moves, and other rows of the user.
LEMMA FeedMoves ==
    ASSUME SettingsInv, KeysInv', UNCHANGED <<change, preferences, wanted, rowLock, audited>>,
           feed' \in [Changes -> {"none", "UNREAD", "READ"}],
           \A k \in Changes : feed'[k] = "none" <=> feed[k] = "none"
    PROVE  SettingsInv'
<1>1. ChangeTypes'
  BY DEF SettingsInv, ChangeTypes
<1>2. WishesInv'
  BY DEF SettingsInv, WishesInv
<1>3. FeedInv'
  BY DEF SettingsInv, FeedInv, Alerted
<1> QED BY <1>1, <1>2, <1>3 DEF SettingsInv

LEMMA ReadKeepsSettings ==
    ASSUME SettingsInv, KeysInv', NEW c \in Changes, NEW patch \in Patches, ReadPreferences(c, patch)
    PROVE  SettingsInv'
<1> DEFINE entry == [pc |-> "patching", kind |-> "patch", on |-> patch, row |-> {}, values |-> patch]
<1>1. /\ change' = [change EXCEPT ![c] = entry] /\ rowLock' = {c} /\ rowLock = {} /\ change[c].pc = "new"
      /\ UNCHANGED <<preferences, wanted, audited, feed>>
  <2>1. Merged(patch, preferences) = patch
    BY MergeIsPatch DEF SettingsInv, WishesInv
  <2> QED BY <2>1 DEF ReadPreferences, RowIsFree, records
<1>2. IsChange(entry) /\ entry.pc = "patching" /\ entry.kind = "patch" /\ entry.on = patch /\ entry.values = patch
  BY DEF IsChange, Progress, Open, Kinds
<1> HIDE DEF entry
<1>3. /\ change' = [k \in Changes |-> IF k = c THEN entry ELSE change[k]]
      /\ change'[c] = entry /\ \A k \in Changes : k # c => change'[k] = change[k]
  BY <1>1 DEF SettingsInv, ChangeTypes
<1>4. ChangeTypes'
  <2>1. change' = [k \in Changes |-> change'[k]]
    BY <1>3
  <2>2. \A k \in Changes : IsChange(change'[k])
    BY <1>2, <1>3 DEF SettingsInv, ChangeTypes
  <2> QED BY <1>1, <2>1, <2>2 DEF SettingsInv, ChangeTypes, IsChange
<1>5. \A k \in Changes : k # c => change'[k].pc # "patching"
  BY <1>1, <1>3 DEF SettingsInv, WishesInv
<1>6. WishesInv'
  <2>1. wanted # <<>> => \E k \in Changes : change'[k].pc = "done" /\ change'[k].kind = "patch"
                                           /\ preferences = change'[k].on
    <3>1. \A k \in Changes : change[k].pc = "done" => change'[k] = change[k]
      BY <1>1, <1>3
    <3> QED BY <3>1 DEF SettingsInv, WishesInv
  <2>2. rowLock' = {c} /\ change'[c].on \in Patches /\ change'[c].values = change'[c].on
    BY <1>1, <1>2, <1>3
  <2> QED BY <1>1, <1>5, <2>1, <2>2 DEF SettingsInv, WishesInv
<1>7. FeedInv'
  BY <1>1, <1>2, <1>3 DEF SettingsInv, FeedInv, Alerted
<1> QED BY <1>4, <1>6, <1>7 DEF SettingsInv

LEMMA WriteKeepsSettings ==
    ASSUME SettingsInv, KeysInv', NEW c \in Changes, WritePreferences(c)
    PROVE  SettingsInv'
<1> DEFINE patch == change[c].on
           entry == [change[c] EXCEPT !.pc = "done"]
<1>1. IsChange(change[c]) /\ change[c].pc = "patching" /\ change[c].kind = "patch"
  BY DEF WritePreferences, SettingsInv, ChangeTypes, FeedInv
<1>2. /\ change' = [change EXCEPT ![c] = entry] /\ rowLock' = {} /\ rowLock = {c} /\ patch \in Patches
      /\ preferences' = patch /\ wanted' = Over(patch, wanted)
      /\ UNCHANGED <<audited, feed>>
  BY <1>1 DEF WritePreferences, Enters, SettingsInv, ChangeTypes, WishesInv, records
<1>3. IsChange(entry) /\ entry.pc = "done" /\ entry.kind = "patch" /\ entry.on = patch
  BY <1>1 DEF IsChange, Progress, Open
<1> HIDE DEF entry
<1>4. /\ change' = [k \in Changes |-> IF k = c THEN entry ELSE change[k]]
      /\ change'[c] = entry /\ \A k \in Changes : k # c => change'[k] = change[k]
  BY <1>2 DEF SettingsInv, ChangeTypes
<1>5. ChangeTypes'
  <2>1. change' = [k \in Changes |-> change'[k]]
    BY <1>4
  <2>2. \A k \in Changes : IsChange(change'[k])
    BY <1>3, <1>4 DEF SettingsInv, ChangeTypes
  <2> QED BY <1>2, <2>1, <2>2 DEF SettingsInv, ChangeTypes, IsChange
<1>6. \A k \in Changes : change'[k].pc # "patching"
  BY <1>2, <1>3, <1>4 DEF SettingsInv, WishesInv
<1>7. /\ DOMAIN preferences' \subseteq Choices
      /\ \A p \in DOMAIN preferences' : p \in DOMAIN wanted' /\ preferences'[p] = wanted'[p]
  BY <1>2 DEF Patches, Over
<1>8. WishesInv'
  BY <1>2, <1>3, <1>4, <1>6, <1>7 DEF WishesInv
<1>9. FeedInv'
  BY <1>2, <1>3, <1>4 DEF SettingsInv, FeedInv, Alerted
<1> QED BY <1>5, <1>8, <1>9 DEF SettingsInv
\* A new request: whatever it is about, it has written nothing.
LEMMA BeginKeepsSettings ==
    ASSUME SettingsInv, KeysInv', NEW c \in Changes, NEW kind \in Kinds, NEW on, NEW pc \in Progress,
           Begins(c, kind, on, pc), UNCHANGED wishes, UNCHANGED records,
           pc \notin {"patching", "alert", "devices", "push"}, pc = "resolved" => kind = "payee",
           pc = "done" => kind \notin Alerted
    PROVE  SettingsInv'
<1> DEFINE s == {on}
           entry == [NotMade EXCEPT !.pc = pc, !.kind = kind, !.on = s]
<1>1. change' = [change EXCEPT ![c] = entry] /\ change[c].pc = "new"
  BY DEF Begins
<1> HIDE DEF s
<1>2. entry = [pc |-> pc, kind |-> kind, on |-> s, row |-> NotMade.row, values |-> NotMade.values]
  <2>1. IsChange(NotMade)
    BY NotMadeIsChange
  <2>2. [NotMade EXCEPT !.pc = pc, !.kind = kind, !.on = s] =
          [pc |-> pc, kind |-> kind, on |-> s, row |-> NotMade.row, values |-> NotMade.values]
    BY <2>1, ChangeBecomes
  <2> QED BY <2>2
<1> HIDE DEF entry
<1>3. IsChange(entry) /\ entry.pc = pc /\ entry.kind = kind
  BY <1>2 DEF IsChange
<1>4. feed' \in [Changes -> {"none", "UNREAD", "READ"}]
  BY DEF SettingsInv, ChangeTypes, records
<1> QED BY <1>1, <1>3, <1>4, ChangeMoves DEF wishes, records

\* A request goes to another of its steps.
LEMMA EnterKeepsSettings ==
    ASSUME SettingsInv, KeysInv', NEW c \in Changes, NEW pc \in Progress, Enters(c, pc), change[c].pc # "done",
           UNCHANGED <<preferences, wanted>>, rowLock' \in {rowLock, rowLock \ {c}},
           feed' \in [Changes -> {"none", "UNREAD", "READ"}],
           \A k \in Changes : feed'[k] # feed[k] => feed'[k] # "none" /\ k \in audited',
           audited \subseteq audited', pc \notin {"patching", "resolved"},
           pc = "alert" => c \in audited',
           pc \in {"devices", "push"} => feed'[c] # "none",
           pc = "done" /\ change[c].kind \in Alerted => feed'[c] # "none"
    PROVE  SettingsInv'
<1> DEFINE entry == [change[c] EXCEPT !.pc = pc]
<1>1. change' = [change EXCEPT ![c] = entry] /\ IsChange(change[c])
  BY DEF Enters, SettingsInv, ChangeTypes
<1>2. IsChange(entry) /\ entry.pc = pc /\ entry.kind = change[c].kind
  BY <1>1 DEF IsChange
<1> HIDE DEF entry
<1> QED BY <1>1, <1>2, ChangeMoves

LEMMA EnrolmentKeepsSettings ==
    ASSUME SettingsInv, KeysInv', NEW c \in Changes, NEW g \in Gadgets,
           \/ CreateEnrolment(c, g)
           \/ \E kind \in {"update", "remove"} : FindEnrolment(c, g, kind)
           \/ \E active \in BOOLEAN : RecordLocal(c, g, active) \/ WriteEnrolment(c, g, active)
    PROVE  SettingsInv'
<1>1. {"audit", "refused", "failed", "found"} \subseteq Progress /\ {"create", "local", "update", "remove"} \subseteq Kinds
  BY DEF Progress, Open, Kinds, Alerted
<1>2. feed \in [Changes -> {"none", "UNREAD", "READ"}]
  BY DEF SettingsInv, ChangeTypes
<1>3. CASE CreateEnrolment(c, g)
  <2>1. /\ Begins(c, "create", g, "audit") \/ Begins(c, "create", g, "refused")
        /\ UNCHANGED wishes /\ UNCHANGED records
    BY <1>3 DEF CreateEnrolment
  <2> QED BY <1>1, <2>1, BeginKeepsSettings
<1>4. CASE \E active \in BOOLEAN : RecordLocal(c, g, active)
  <2>1. Begins(c, "local", g, "audit") /\ UNCHANGED wishes /\ UNCHANGED records
    BY <1>4 DEF RecordLocal
  <2> QED BY <1>1, <2>1, BeginKeepsSettings
<1>5. ASSUME NEW kind \in {"update", "remove"}, FindEnrolment(c, g, kind) PROVE SettingsInv'
  <2> DEFINE s == {g}
             r == biometric[g].row
             entry == [NotMade EXCEPT !.pc = "found", !.kind = kind, !.on = s, !.row = r]
  <2>1. /\ Begins(c, kind, g, "refused") \/ change' = [change EXCEPT ![c] = entry]
        /\ change[c].pc # "done" /\ UNCHANGED wishes /\ UNCHANGED records
    BY <1>5 DEF FindEnrolment, Begins
  <2> HIDE DEF s, r
  <2>2. entry = [pc |-> "found", kind |-> kind, on |-> s, row |-> r, values |-> NotMade.values]
    <3>1. IsChange(NotMade)
      BY NotMadeIsChange
    <3> DEFINE r1 == [NotMade EXCEPT !.pc = "found", !.kind = kind, !.on = s]
    <3>2. r1 = [pc |-> "found", kind |-> kind, on |-> s, row |-> NotMade.row, values |-> NotMade.values]
      BY <3>1, ChangeBecomes
    <3> HIDE DEF r1
    <3>3. [r1 EXCEPT !.row = r] = [pc |-> "found", kind |-> kind, on |-> s, row |-> r, values |-> NotMade.values]
      BY <3>2
    <3> QED BY <3>3, Zenon DEF r1
  <2> HIDE DEF entry
  <2>3. IsChange(entry) /\ entry.pc = "found" /\ entry.kind = kind
    BY <1>1, <2>2 DEF IsChange
  <2>4. CASE Begins(c, kind, g, "refused")
    BY <1>1, <2>1, <2>4, BeginKeepsSettings
  <2>5. CASE change' = [change EXCEPT ![c] = entry]
    BY <1>2, <2>1, <2>3, <2>5, ChangeMoves DEF wishes, records
  <2> QED BY <2>1, <2>4, <2>5
<1>6. CASE \E active \in BOOLEAN : WriteEnrolment(c, g, active)
  <2>1. (Enters(c, "failed") \/ Enters(c, "audit")) /\ change[c].pc # "done"
    BY <1>6 DEF WriteEnrolment
  <2>2. UNCHANGED wishes /\ UNCHANGED records
    BY <1>6 DEF WriteEnrolment
  <2> QED BY <1>1, <1>2, <2>1, <2>2, EnterKeepsSettings DEF wishes, records
<1> QED BY <1>3, <1>4, <1>5, <1>6

LEMMA DetailKeepsSettings ==
    ASSUME SettingsInv, KeysInv', NEW c \in Changes,
           \/ SavePayee(c) \/ SaveAddress(c) \/ UpdateBudget(c) \/ UpdateAvatar(c)
           \/ \E p \in Payees : RemovePayee(c, p) \/ \E resolved \in BOOLEAN : ResolvePayee(c, p, resolved)
    PROVE  SettingsInv'
<1>1. /\ {"audit", "resolved", "failed", "done", "refused"} \subseteq Progress
      /\ {"address", "budget", "avatar", "payee"} \subseteq Kinds /\ "payee" \notin Alerted
  BY DEF Progress, Open, Kinds, Alerted
<1>2. feed \in [Changes -> {"none", "UNREAD", "READ"}]
  BY DEF SettingsInv, ChangeTypes
<1>3. UNCHANGED wishes /\ UNCHANGED records
  BY DEF SavePayee, SaveAddress, UpdateBudget, UpdateAvatar, SaveDetail, RemovePayee, ResolvePayee
<1>4. CASE SavePayee(c)
  <2>1. Enters(c, "done") /\ change[c].pc # "done" /\ change[c].kind = "payee"
    BY <1>4 DEF SavePayee, SettingsInv, FeedInv
  <2> QED BY <1>1, <1>2, <1>3, <2>1, EnterKeepsSettings DEF wishes, records
<1>5. CASE SaveAddress(c) \/ UpdateBudget(c) \/ UpdateAvatar(c)
  <2>1. \/ Begins(c, "address", "address", "audit") \/ Begins(c, "budget", "budget", "audit")
        \/ Begins(c, "avatar", "avatar", "audit")
    BY <1>5 DEF SaveAddress, UpdateBudget, UpdateAvatar, SaveDetail
  <2>2. ASSUME NEW kind \in {"address", "budget", "avatar"}, Begins(c, kind, kind, "audit") PROVE SettingsInv'
    BY <1>1, <1>3, <2>2, BeginKeepsSettings
  <2> QED BY <2>1, <2>2
<1>6. ASSUME NEW p \in Payees, RemovePayee(c, p) \/ \E resolved \in BOOLEAN : ResolvePayee(c, p, resolved)
      PROVE  SettingsInv'
  <2>1. PICK pc \in {"resolved", "failed", "done", "refused"} : Begins(c, "payee", p, pc)
    BY <1>6 DEF RemovePayee, ResolvePayee
  <2> QED BY <1>1, <1>3, <2>1, BeginKeepsSettings
<1> QED BY <1>4, <1>5, <1>6

LEMMA RecordKeepsSettings ==
    ASSUME SettingsInv, KeysInv', NEW c \in Changes,
           \/ RecordAudit(c) \/ CreateAlert(c) \/ SendPushes(c) \/ StopChange(c)
           \/ \E fails \in BOOLEAN : ReadDevices(c, fails)
    PROVE  SettingsInv'
<1>1. {"alert", "devices", "push", "failed", "done", "stopped"} \subseteq Progress
  BY DEF Progress, Open
<1>2. feed \in [Changes -> {"none", "UNREAD", "READ"}]
  BY DEF SettingsInv, ChangeTypes
<1>3. CASE RecordAudit(c)
  <2>1. /\ Enters(c, "alert") \/ (Enters(c, "done") /\ change[c].kind \notin Alerted)
        /\ audited' = audited \cup {c} /\ change[c].pc # "done"
        /\ UNCHANGED <<preferences, wanted, rowLock, feed>>
    BY <1>3 DEF RecordAudit, wishes
  <2> QED BY <1>1, <1>2, <2>1, EnterKeepsSettings
<1>4. CASE CreateAlert(c)
  <2>1. /\ Enters(c, "devices") \/ Enters(c, "done")
        /\ feed' = [feed EXCEPT ![c] = "UNREAD"] /\ c \in audited
        /\ change[c].pc # "done" /\ UNCHANGED <<preferences, wanted, rowLock, audited>>
    BY <1>4 DEF CreateAlert, wishes, SettingsInv, FeedInv
  <2>2. /\ feed' \in [Changes -> {"none", "UNREAD", "READ"}] /\ feed'[c] = "UNREAD"
        /\ \A k \in Changes : feed'[k] # feed[k] => feed'[k] # "none" /\ k \in audited'
    BY <1>2, <2>1
  <2> QED BY <1>1, <2>1, <2>2, EnterKeepsSettings
<1>5. CASE SendPushes(c)
  <2>1. Enters(c, "done") /\ change[c].pc # "done" /\ feed[c] # "none" /\ UNCHANGED <<preferences, wanted, rowLock, audited, feed>>
    BY <1>5 DEF SendPushes, wishes, SettingsInv, FeedInv
  <2> QED BY <1>1, <1>2, <2>1, EnterKeepsSettings
<1>6. CASE StopChange(c)
  <2>1. Enters(c, "stopped") /\ change[c].pc # "done" /\ rowLock' = rowLock \ {c}
        /\ UNCHANGED <<preferences, wanted, audited, feed>>
    BY <1>6 DEF StopChange, Open, records
  <2> QED BY <1>1, <1>2, <2>1, EnterKeepsSettings
<1>7. ASSUME NEW fails \in BOOLEAN, ReadDevices(c, fails) PROVE SettingsInv'
  <2> DEFINE s == {t \in Tokens : pushDevice[t] = "user"}
             pc == IF fails THEN "failed" ELSE "push"
             entry == [change[c] EXCEPT !.pc = pc, !.on = s]
  <2>1. /\ change' = [change EXCEPT ![c] = entry] /\ IsChange(change[c]) /\ feed[c] # "none"
        /\ change[c].pc # "done" /\ UNCHANGED <<preferences, wanted, rowLock, audited, feed>>
    BY <1>7 DEF ReadDevices, SettingsInv, ChangeTypes, FeedInv, wishes, records
  <2>2. pc \in Progress /\ pc \in {"failed", "push"}
    BY <1>1
  <2> HIDE DEF s, pc
  <2>3. entry = [pc |-> pc, kind |-> change[c].kind, on |-> s, row |-> change[c].row, values |-> change[c].values]
    BY <2>1, ChangeGoes
  <2> HIDE DEF entry
  <2>4. IsChange(entry) /\ entry.pc = pc
    BY <2>1, <2>2, <2>3 DEF IsChange
  <2> QED BY <1>2, <2>1, <2>2, <2>4, ChangeMoves
<1> QED BY <1>3, <1>4, <1>5, <1>6, <1>7

LEMMA SettingsStay ==
    ASSUME SettingsInv, [SettingsNext]_settingsVars
    PROVE  SettingsInv'
<1>1. KeysInv'
  BY KeysStay DEF SettingsInv
<1>2. feed \in [Changes -> {"none", "UNREAD", "READ"}] /\ feed = [k \in Changes |-> feed[k]]
  BY DEF SettingsInv, ChangeTypes
<1>3. CASE MarkAllRead \/ \E c \in Changes : MarkRead(c)
  <2>1. /\ feed' \in [Changes -> {"none", "UNREAD", "READ"}]
        /\ \A k \in Changes : feed'[k] = "none" <=> feed[k] = "none"
        /\ UNCHANGED <<change, preferences, wanted, rowLock, audited>>
    BY <1>2, <1>3 DEF MarkAllRead, MarkRead, wishes
  <2> QED BY <1>1, <2>1, FeedMoves
<1>4. CASE UNCHANGED settingsVars
  BY <1>1, <1>2, <1>4, FeedMoves DEF settingsVars
<1>5. CASE \E t \in Tokens, u \in {"user", "another"} : RegisterDevice(t, u) \/ UnregisterDevice(t, u)
  BY <1>1, <1>2, <1>5, FeedMoves DEF RegisterDevice, UnregisterDevice, wishes, records
<1>6. CASE \E c \in Changes : WritePreferences(c) \/ \E patch \in Patches : ReadPreferences(c, patch)
  BY <1>1, <1>6, ReadKeepsSettings, WriteKeepsSettings
<1>7. CASE \E c \in Changes, g \in Gadgets :
              \/ CreateEnrolment(c, g)
              \/ \E kind \in {"update", "remove"} : FindEnrolment(c, g, kind)
              \/ \E active \in BOOLEAN : RecordLocal(c, g, active) \/ WriteEnrolment(c, g, active)
  BY <1>1, <1>7, EnrolmentKeepsSettings
<1>8. CASE \E c \in Changes :
             \/ SavePayee(c) \/ SaveAddress(c) \/ UpdateBudget(c) \/ UpdateAvatar(c)
             \/ \E p \in Payees : RemovePayee(c, p) \/ \E resolved \in BOOLEAN : ResolvePayee(c, p, resolved)
  BY <1>1, <1>8, DetailKeepsSettings
<1>9. CASE \E c \in Changes :
             \/ RecordAudit(c) \/ CreateAlert(c) \/ SendPushes(c) \/ StopChange(c)
             \/ \E fails \in BOOLEAN : ReadDevices(c, fails)
  BY <1>1, <1>9, RecordKeepsSettings
<1> QED
  BY <1>3, <1>4, <1>5, <1>6, <1>7, <1>8, <1>9 DEF SettingsNext

\* ProfileHubService, BiometricsService and ActivityService: however patches overlap, what is stored is
\* one patch that was answered and never older than what was asked for last, an enrolment keeps its key
\* until it is removed, and a change answered with success is in the feed and in the audit log.
THEOREM SettingsStayKept == SettingsSpec => []SettingsAreKept
<1>1. SettingsInv /\ [SettingsNext]_settingsVars => SettingsInv'
  BY SettingsStay
<1>2. SettingsInv => SettingsAreKept
  BY DEF SettingsInv, WishesInv, KeysInv, FeedInv, SettingsAreKept
<1> QED BY <1>1, <1>2, SettingsStart, PTL DEF SettingsSpec

(***************************************************************************)
(* Administration: flags, broadcasts and the data-grid.  Nobody has a copy *)
(* of a broadcast that is not committed, and a committed one went to all   *)
(* its recipients; what the registry lets through is in the schema.        *)
(***************************************************************************)
MemberRow == [emailVerified : BOOLEAN, onboarded : BOOLEAN, account : BOOLEAN,
              accountActive : BOOLEAN, walletActive : BOOLEAN]
OrderRow == [pc : Running \cup {"new", "done", "refused", "stopped"},
             kind : {"none", "suspend", "restore", "broadcast", "create", "update", "delete", "list"},
             about : SUBSET Members, draft : SUBSET Members]
Columns == UNION {Visible(res) : res \in Resources}
GridRow == [by : SUBSET Orders, table : Resources, columns : SUBSET Columns, ref : SUBSET Orders]

CopiesOf(o) == {m \in Members : <<o, m>> \in copies}
Uncommitted(o) == CopiesOf(o) = {} /\ \A k \in Nat : <<o, k>> \notin broadcasts
Committed(o) ==
    /\ order[o].about # {} /\ CopiesOf(o) = order[o].about
    /\ <<o, Cardinality(order[o].about)>> \in broadcasts

MembersInv ==
    member \in [Members -> MemberRow] /\ \A m \in Members : member[m].accountActive = member[m].walletActive
BroadcastInv ==
    /\ order \in [Orders -> OrderRow]
    /\ \A o \in Orders :
         /\ order[o].draft \subseteq order[o].about
         /\ order[o].pc = "sending" => order[o].about # {}
         /\ Uncommitted(o) \/ Committed(o)
         /\ order[o].pc \in {"new", "decided", "sending"} => Uncommitted(o)
GridInv ==
    /\ gridRows \subseteq GridRow /\ incomplete = FALSE
    /\ \A entry \in gridRows :
         /\ entry.columns \cap Registry[entry.table].server = {}
         /\ entry.table = "messages" => \E holder \in gridRows : holder.by = entry.ref /\ holder.table = "chats"

AdministrationInv == MembersInv /\ BroadcastInv /\ GridInv

(***************************************************************************)
(* The registry.                                                           *)
(***************************************************************************)
LEMMA ResourcesAre ==
    Resources = {"cardLocks", "cardCategories", "chats", "messages", "thresholds", "biometricDevices",
                 "notifications", "cardProviders", "auditLogs", "waitlist", "contacts"}
  BY DEF Resources, Registry

Sound(res) ==
    /\ (Registry[res].required \cup Registry[res].optional) \cap Registry[res].server = {}
    /\ "create" \in Registry[res].methods => Mandatory[res] \subseteq Registry[res].required

\* What may be written is not the server's, and what the schema demands is asked for.
LEMMA RegistryIsSound == \A res \in Resources : Sound(res)
<1>1. Sound("cardLocks") /\ Sound("cardCategories") /\ Sound("thresholds")
  BY DEF Sound, Registry, Table, ReadOnly
<1>2. Sound("chats") /\ Sound("messages")
  BY DEF Sound, Registry, Table, ReadOnly, Grid, Mandatory
<1>3. Sound("biometricDevices")
  BY DEF Sound, Registry, Table, ReadOnly, Grid, Mandatory
<1>4. Sound("notifications")
  BY DEF Sound, Registry, Table, ReadOnly, Grid, Mandatory
<1>5. Sound("cardProviders")
  BY DEF Sound, Registry, Table, ReadOnly, Grid, Mandatory
<1>6. Sound("auditLogs") /\ Sound("waitlist") /\ Sound("contacts")
  BY DEF Sound, Registry, Table, ReadOnly
<1> QED BY <1>1, <1>2, <1>3, <1>4, <1>5, <1>6, ResourcesAre

LEMMA AdministrationStarts == AdministrationInit => AdministrationInv
<1> SUFFICES ASSUME AdministrationInit PROVE AdministrationInv
  OBVIOUS
<1>1. MembersInv
  BY DEF AdministrationInit, MembersInv, MemberRow
<1>2. NewOrder \in OrderRow /\ NewOrder.draft \subseteq NewOrder.about /\ NewOrder.pc = "new"
  BY DEF NewOrder, OrderRow, Running
<1>3. BroadcastInv
  BY <1>2 DEF AdministrationInit, BroadcastInv, Uncommitted, CopiesOf
<1>4. /\ "chats" \in Resources /\ Registry["chats"].server = {"updatedAt", "id", "createdAt"}
      /\ "userId" \in Columns
  <2>1. /\ Registry["chats"].server = {"updatedAt", "id", "createdAt"} /\ "userId" \in Visible("chats")
    BY DEF Registry, Table, Visible
  <2>2. "chats" \in Resources
    BY ResourcesAre
  <2> QED BY <2>1, <2>2 DEF Columns
<1>5. UsersChat \in GridRow /\ UsersChat.columns = {"userId"} /\ UsersChat.table = "chats"
  BY <1>4 DEF UsersChat, GridRow
<1>6. GridInv
  BY <1>4, <1>5 DEF AdministrationInit, GridInv
<1> QED BY <1>1, <1>3, <1>6 DEF AdministrationInv

(***************************************************************************)
(* Flags of the members.                                                   *)
(***************************************************************************)
LEMMA FlagsStay ==
    ASSUME AdministrationInv, [PeopleNext \/ GridNext]_administrationVars
    PROVE  MembersInv'
<1>1. member \in [Members -> MemberRow] /\ \A m \in Members : member[m].accountActive = member[m].walletActive
  BY DEF AdministrationInv, MembersInv
<1>2. ASSUME UNCHANGED member PROVE MembersInv'
  BY <1>1, <1>2 DEF MembersInv
<1>3. ASSUME NEW m \in Members, NEW entry \in MemberRow, entry.accountActive = entry.walletActive,
             member' = [member EXCEPT ![m] = entry]
      PROVE  MembersInv'
  BY <1>1, <1>3 DEF MembersInv
<1>4. ASSUME NEW m \in Members, ProvisionMember(m) PROVE MembersInv'
  <2> DEFINE entry == [member[m] EXCEPT !.emailVerified = TRUE, !.account = TRUE,
                                        !.accountActive = TRUE, !.walletActive = TRUE]
  <2>1. member' = [member EXCEPT ![m] = entry]
    BY <1>1, <1>4 DEF ProvisionMember
  <2>2. entry \in MemberRow /\ entry.accountActive = entry.walletActive
    BY ZenonT(30), <1>1 DEF MemberRow
  <2> HIDE DEF entry
  <2> QED BY <1>3, <2>1, <2>2
<1>11. ASSUME NEW m \in Members, VerifyMember(m) PROVE MembersInv'
  <2> DEFINE entry == [member[m] EXCEPT !.emailVerified = TRUE]
  <2>1. member' = [member EXCEPT ![m] = entry]
    BY <1>1, <1>11 DEF VerifyMember
  <2>2. entry \in MemberRow /\ entry.accountActive = member[m].accountActive /\ entry.walletActive = member[m].walletActive
    BY <1>1 DEF MemberRow
  <2> HIDE DEF entry
  <2> QED BY <1>1, <1>3, <2>1, <2>2
<1>5. ASSUME NEW m \in Members, CompleteOnboarding(m) PROVE MembersInv'
  <2> DEFINE entry == [member[m] EXCEPT !.onboarded = TRUE]
  <2>1. member' = [member EXCEPT ![m] = entry]
    BY <1>1, <1>5 DEF CompleteOnboarding
  <2>2. entry \in MemberRow /\ entry.accountActive = member[m].accountActive /\ entry.walletActive = member[m].walletActive
    BY <1>1 DEF MemberRow
  <2> HIDE DEF entry
  <2> QED BY <1>1, <1>3, <2>1, <2>2
<1>6. ASSUME NEW o \in Orders, WriteFlags(o) PROVE MembersInv'
  <2> DEFINE active == order[o].kind = "restore"
             entry(m) == [member[m] EXCEPT !.accountActive = active, !.walletActive = active]
  <2>1. active \in BOOLEAN
    OBVIOUS
  <2>2. member' = [m \in Members |-> IF m \notin order[o].about THEN member[m] ELSE entry(m)]
    BY <1>6 DEF WriteFlags
  <2> HIDE DEF active
  <2>3. \A m \in Members : entry(m) \in MemberRow /\ entry(m).accountActive = active /\ entry(m).walletActive = active
    BY <1>1, <2>1 DEF MemberRow
  <2> HIDE DEF entry
  <2> QED BY <1>1, <2>2, <2>3 DEF MembersInv
<1>7. CASE \E m \in Members : VerifyMember(m) \/ ProvisionMember(m) \/ CompleteOnboarding(m)
  BY <1>4, <1>5, <1>7, <1>11
<1>8. ASSUME NEW o \in Orders,
             \/ LogOrder(o) \/ StopOrder(o) \/ ReadRecipients(o) \/ InsertChunk(o) \/ CommitBroadcast(o)
             \/ \E m \in Members, active \in BOOLEAN : ToggleActive(o, m, active)
      PROVE  MembersInv'
  BY <1>2, <1>8 DEF LogOrder, StopOrder, ReadRecipients, InsertChunk, CommitBroadcast, ToggleActive
<1>9. ASSUME GridNext PROVE MembersInv'
  <2>1. ASSUME NEW o \in Orders, NEW res, NEW payload, NEW flaw, NEW ref, CreateRow(o, res, payload, flaw, ref)
        PROVE  UNCHANGED member
    BY <2>1 DEF CreateRow
  <2>2. ASSUME NEW o \in Orders, NEW res, NEW field, NEW op, ListRows(o, res, field, op) PROVE UNCHANGED member
    BY <2>2 DEF ListRows
  <2>3. ASSUME NEW o \in Orders, NEW entry, NEW payload, NEW flaw, DeleteRow(o, entry) \/ UpdateRow(o, entry, payload, flaw)
        PROVE  UNCHANGED member
    BY <2>3 DEF DeleteRow, UpdateRow
  <2>4. ASSUME NEW o \in Orders, LogOrder(o) \/ StopOrder(o) PROVE UNCHANGED member
    BY <2>4 DEF LogOrder, StopOrder
  <2> QED BY <1>2, <1>9, <2>1, <2>2, <2>3, <2>4 DEF GridNext, EndsNext
<1>10. CASE UNCHANGED administrationVars
  BY <1>2, <1>10 DEF administrationVars
<1> QED
  BY <1>6, <1>7, <1>8, <1>9, <1>10 DEF PeopleNext, EndsNext

(***************************************************************************)
(* Broadcasts.                                                             *)
(***************************************************************************)
\* An order moves; it keeps to whom it goes, or it has not been committed.
LEMMA OrderMoves ==
    ASSUME BroadcastInv, NEW o \in Orders, NEW entry \in OrderRow, order' = [order EXCEPT ![o] = entry],
           UNCHANGED <<copies, broadcasts>>,
           entry.draft \subseteq entry.about, entry.pc = "sending" => entry.about # {},
           Uncommitted(o) \/ entry.about = order[o].about,
           entry.pc \in {"new", "decided", "sending"} => Uncommitted(o)
    PROVE  BroadcastInv'
<1>1. /\ order' \in [Orders -> OrderRow] /\ order'[o] = entry
      /\ \A p \in Orders : p # o => order'[p] = order[p]
  BY DEF BroadcastInv
<1>2. \A p \in Orders : Uncommitted(p)' = Uncommitted(p) /\ CopiesOf(p)' = CopiesOf(p)
  BY DEF Uncommitted, CopiesOf
<1>3. ASSUME NEW p \in Orders
      PROVE  /\ order'[p].draft \subseteq order'[p].about
             /\ order'[p].pc = "sending" => order'[p].about # {}
             /\ Uncommitted(p) \/ (order'[p].about # {} /\ CopiesOf(p) = order'[p].about
                                   /\ <<p, Cardinality(order'[p].about)>> \in broadcasts)
             /\ order'[p].pc \in {"new", "decided", "sending"} => Uncommitted(p)
  <2>1. CASE p = o
    BY <1>1, <2>1 DEF BroadcastInv, Committed
  <2>2. CASE p # o
    BY <1>1, <2>2 DEF BroadcastInv, Committed
  <2> QED BY <2>1, <2>2
<1> QED BY <1>1, <1>2, <1>3 DEF BroadcastInv, Committed

LEMMA OrderAdvances ==
    ASSUME BroadcastInv, NEW o \in Orders, NEW pc \in {"done", "stopped", "audit"}, Advance(o, pc),
           UNCHANGED <<copies, broadcasts>>
    PROVE  BroadcastInv'
<1> DEFINE entry == [order[o] EXCEPT !.pc = pc]
<1>1. order' = [order EXCEPT ![o] = entry] /\ order[o] \in OrderRow
  BY DEF Advance, BroadcastInv
<1>2. /\ entry \in OrderRow /\ entry.pc = pc /\ entry.about = order[o].about /\ entry.draft = order[o].draft
  BY <1>1 DEF OrderRow, Running
<1> HIDE DEF entry
<1> QED BY <1>1, <1>2, OrderMoves DEF BroadcastInv

LEMMA OrderBegins ==
    ASSUME BroadcastInv, NEW o \in Orders, NEW kind, NEW about \in SUBSET Members,
           NEW pc \in {"done", "refused", "decided", "sending", "audit"},
           kind \in {"suspend", "restore", "broadcast", "create", "update", "delete", "list"},
           pc = "sending" => about # {}, Order(o, pc, kind, about), UNCHANGED <<copies, broadcasts>>
    PROVE  BroadcastInv'
<1> DEFINE entry == [pc |-> pc, kind |-> kind, about |-> about, draft |-> {}]
<1>1. order' = [order EXCEPT ![o] = entry] /\ Uncommitted(o)
  BY DEF Order, BroadcastInv
<1>2. entry \in OrderRow /\ entry.pc = pc /\ entry.about = about /\ entry.draft = {}
  BY DEF OrderRow, Running
<1> HIDE DEF entry
<1> QED BY <1>1, <1>2, OrderMoves

LEMMA CommitKeepsBroadcasts ==
    ASSUME BroadcastInv, NEW o \in Orders, CommitBroadcast(o)
    PROVE  BroadcastInv'
<1> DEFINE to == order[o].about
           entry == [order[o] EXCEPT !.pc = "audit"]
<1>1. /\ order[o] \in OrderRow /\ order[o].pc = "sending" /\ order[o].draft = to /\ to # {} /\ to \subseteq Members
      /\ Uncommitted(o)
  BY DEF CommitBroadcast, BroadcastInv, OrderRow, Unsent
<1>2. /\ order' = [order EXCEPT ![o] = entry]
      /\ copies' = copies \cup ({o} \X to) /\ broadcasts' = broadcasts \cup {<<o, Cardinality(to)>>}
  BY <1>1 DEF CommitBroadcast, Advance
<1>3. /\ entry \in OrderRow /\ entry.pc = "audit" /\ entry.about = to /\ entry.draft = to
  BY <1>1 DEF OrderRow, Running
<1> HIDE DEF entry
<1>4. /\ order' \in [Orders -> OrderRow] /\ order'[o] = entry
      /\ \A p \in Orders : p # o => order'[p] = order[p]
  BY <1>2, <1>3 DEF BroadcastInv
<1>5. CopiesOf(o)' = to
  BY <1>1, <1>2 DEF Uncommitted, CopiesOf
<1>6. Committed(o)'
  BY <1>1, <1>2, <1>3, <1>4, <1>5 DEF Committed
<1>7. ASSUME NEW p \in Orders, p # o
      PROVE  CopiesOf(p)' = CopiesOf(p) /\ \A k : <<p, k>> \in broadcasts' <=> <<p, k>> \in broadcasts
  BY <1>2, <1>7 DEF CopiesOf
<1>8. ASSUME NEW p \in Orders, p # o
      PROVE  Uncommitted(p)' = Uncommitted(p) /\ (Committed(p) => Committed(p)')
  BY <1>4, <1>7, <1>8 DEF Uncommitted, Committed
<1>9. \A p \in Orders : /\ order'[p].draft \subseteq order'[p].about
                        /\ order'[p].pc = "sending" => order'[p].about # {}
  BY <1>3, <1>4 DEF BroadcastInv
<1>10. \A p \in Orders : Uncommitted(p)' \/ Committed(p)'
  BY <1>6, <1>8 DEF BroadcastInv
<1>11. \A p \in Orders : order'[p].pc \in {"new", "decided", "sending"} => Uncommitted(p)'
  BY <1>3, <1>4, <1>8 DEF BroadcastInv
<1> QED BY <1>4, <1>9, <1>10, <1>11 DEF BroadcastInv

LEMMA BroadcastsStay ==
    ASSUME AdministrationInv, [PeopleNext \/ GridNext]_administrationVars
    PROVE  BroadcastInv'
<1>1. BroadcastInv /\ order \in [Orders -> OrderRow]
  BY DEF AdministrationInv, BroadcastInv
<1>2. ASSUME UNCHANGED <<order, copies, broadcasts>> PROVE BroadcastInv'
  BY <1>1, <1>2 DEF BroadcastInv, Uncommitted, Committed, CopiesOf
<1>3. ASSUME NEW o \in Orders, LogOrder(o) \/ StopOrder(o) \/ WriteFlags(o) PROVE BroadcastInv'
  BY <1>1, <1>3, OrderAdvances DEF LogOrder, StopOrder, WriteFlags
<1>4. ASSUME NEW o \in Orders, NEW m \in Members, NEW active \in BOOLEAN, ToggleActive(o, m, active)
      PROVE  BroadcastInv'
  <2>1. PICK pc \in {"done", "refused", "decided"}, kind \in {"suspend", "restore"} : Order(o, pc, kind, {m})
    BY <1>4 DEF ToggleActive
  <2> QED BY <1>1, <1>4, <2>1, OrderBegins DEF ToggleActive
<1>5. ASSUME NEW o \in Orders, ReadRecipients(o) PROVE BroadcastInv'
  <2> DEFINE to == {m \in Members : member[m].emailVerified}
  <2>1. Order(o, IF to = {} THEN "refused" ELSE "sending", "broadcast", to) /\ UNCHANGED <<copies, broadcasts>>
    BY <1>5 DEF ReadRecipients
  <2>2. to \subseteq Members
    OBVIOUS
  <2> HIDE DEF to
  <2>3. CASE to = {}
    BY <1>1, <2>1, <2>2, <2>3, OrderBegins
  <2>4. CASE to # {}
    BY <1>1, <2>1, <2>2, <2>4, OrderBegins
  <2> QED BY <2>3, <2>4
<1>6. ASSUME NEW o \in Orders, InsertChunk(o) PROVE BroadcastInv'
  <2>1. PICK chunk \in Chunks(o) : order' = [order EXCEPT ![o].draft = @ \cup chunk]
    BY <1>6 DEF InsertChunk
  <2> DEFINE d == order[o].draft \cup chunk
             entry == [order[o] EXCEPT !.draft = d]
  <2>2. d \subseteq order[o].about /\ order[o] \in OrderRow /\ order[o].pc = "sending" /\ Uncommitted(o)
        /\ order[o].about # {}
    BY <1>1, <1>6, <2>1 DEF Chunks, Unsent, BroadcastInv, InsertChunk
  <2>3. order' = [order EXCEPT ![o] = entry] /\ UNCHANGED <<copies, broadcasts>>
    BY <1>1, <1>6, <2>1 DEF InsertChunk
  <2> HIDE DEF d
  <2>4. entry \in OrderRow /\ entry.draft = d /\ entry.about = order[o].about /\ entry.pc = "sending"
    BY <2>2 DEF OrderRow
  <2> HIDE DEF entry
  <2> QED BY <1>1, <2>2, <2>3, <2>4, OrderMoves
<1>7. ASSUME NEW o \in Orders, NEW pc \in {"audit", "refused", "done"}, NEW kind \in {"create", "update", "delete", "list"},
             Order(o, pc, kind, {}), UNCHANGED <<copies, broadcasts>>
      PROVE  BroadcastInv'
  BY <1>1, <1>7, OrderBegins
<1>8. ASSUME NEW o \in Orders, NEW res \in Resources, NEW payload, NEW flaw, NEW ref, CreateRow(o, res, payload, flaw, ref)
      PROVE  BroadcastInv'
  <2>1. (Order(o, "audit", "create", {}) \/ Order(o, "refused", "create", {})) /\ UNCHANGED <<copies, broadcasts>>
    BY <1>8 DEF CreateRow
  <2> QED BY <1>7, <2>1
<1>9. ASSUME NEW o \in Orders, NEW res, NEW field, NEW op, ListRows(o, res, field, op)
      PROVE  BroadcastInv'
  <2>1. (Order(o, "done", "list", {}) \/ Order(o, "refused", "list", {})) /\ UNCHANGED <<copies, broadcasts>>
    BY <1>9 DEF ListRows
  <2> QED BY <1>7, <2>1
<1>10. ASSUME NEW o \in Orders, NEW entry, NEW payload, NEW flaw, DeleteRow(o, entry) \/ UpdateRow(o, entry, payload, flaw)
       PROVE  BroadcastInv'
  <2>1. /\ UNCHANGED <<copies, broadcasts>>
        /\ \/ Order(o, "audit", "delete", {}) \/ Order(o, "refused", "delete", {})
           \/ Order(o, "audit", "update", {}) \/ Order(o, "refused", "update", {})
    BY <1>10 DEF DeleteRow, UpdateRow
  <2> QED BY <1>7, <2>1
<1>11. CASE UNCHANGED administrationVars
  BY <1>2, <1>11 DEF administrationVars
<1>12. CASE \E m \in Members : VerifyMember(m) \/ ProvisionMember(m) \/ CompleteOnboarding(m)
  BY <1>2, <1>12 DEF VerifyMember, ProvisionMember, CompleteOnboarding
<1>13. CASE PeopleNext
  BY <1>1, <1>3, <1>4, <1>5, <1>6, <1>12, <1>13, CommitKeepsBroadcasts DEF PeopleNext, EndsNext
<1>14. CASE GridNext
  BY <1>3, <1>8, <1>9, <1>10, <1>14 DEF GridNext, EndsNext
<1> QED BY <1>11, <1>13, <1>14

(***************************************************************************)
(* The data-grid.                                                          *)
(***************************************************************************)
\* What validatePayload accepts.
LEMMA AcceptedColumns ==
    ASSUME NEW res \in Resources, NEW payload, NEW flaw, NEW forCreate \in BOOLEAN,
           Validated(res, payload, flaw, forCreate)
    PROVE  /\ payload \cap Registry[res].server = {} /\ payload \subseteq Columns
           /\ forCreate /\ "create" \in Registry[res].methods => Mandatory[res] \subseteq payload
<1>1. Sound(res)
  BY RegistryIsSound
<1>2. payload \subseteq Registry[res].required \cup Registry[res].optional /\ (forCreate => Registry[res].required \subseteq payload)
  BY DEF Validated
<1>3. payload \subseteq Visible(res)
  BY <1>2 DEF Visible
<1> QED BY <1>1, <1>2, <1>3 DEF Sound, Columns

LEMMA GridStays ==
    ASSUME AdministrationInv, [PeopleNext \/ GridNext]_administrationVars
    PROVE  GridInv'
<1>1. /\ gridRows \subseteq GridRow /\ incomplete = FALSE
      /\ \A entry \in gridRows :
           /\ entry.columns \cap Registry[entry.table].server = {}
           /\ entry.table = "messages" => \E holder \in gridRows : holder.by = entry.ref /\ holder.table = "chats"
  BY DEF AdministrationInv, GridInv
<1>2. ASSUME UNCHANGED <<gridRows, incomplete>> PROVE GridInv'
  BY <1>1, <1>2 DEF GridInv
<1>3. ASSUME NEW o \in Orders, NEW res \in Resources, NEW payload, NEW flaw, NEW ref \in SUBSET Orders,
             CreateRow(o, res, payload, flaw, ref)
      PROVE  GridInv'
  <2> DEFINE valid == "create" \in Registry[res].methods /\ Validated(res, payload, flaw, TRUE)
             missing == valid /\ ~(Mandatory[res] \subseteq payload)
             made == valid /\ ~missing /\ ~Conflicts(res, flaw) /\ Refers(res, ref)
             entry == [by |-> {o}, table |-> res, columns |-> payload, ref |-> ref]
  <2>1. /\ incomplete' = (incomplete \/ missing)
        /\ gridRows' = IF made THEN gridRows \cup {entry} ELSE gridRows
    BY <1>3 DEF CreateRow
  <2>2. valid => /\ payload \cap Registry[res].server = {} /\ payload \subseteq Columns
                 /\ Mandatory[res] \subseteq payload
    BY AcceptedColumns
  <2>3. ~missing
    BY <2>2
  <2>4. made => valid /\ Refers(res, ref)
    OBVIOUS
  <2> HIDE DEF valid, missing, made
  <2>5. CASE made
    <3>1. /\ entry \in GridRow /\ entry.columns \cap Registry[entry.table].server = {}
          /\ entry.table = res /\ entry.ref = ref
      BY <2>2, <2>4, <2>5 DEF GridRow
    <3>2. res = "messages" => \E holder \in gridRows : holder.by = ref /\ holder.table = "chats"
      BY <2>4, <2>5 DEF Refers
    <3> HIDE DEF entry
    <3> QED BY <1>1, <2>1, <2>3, <2>5, <3>1, <3>2 DEF GridInv
  <2>6. CASE ~made
    BY <1>1, <2>1, <2>3, <2>6 DEF GridInv
  <2> QED BY <2>5, <2>6
<1>4. ASSUME NEW o \in Orders, NEW entry \in gridRows, NEW payload, NEW flaw, UpdateRow(o, entry, payload, flaw)
      PROVE  GridInv'
  <2> DEFINE made == /\ "update" \in Registry[entry.table].methods /\ Validated(entry.table, payload, flaw, FALSE)
                     /\ ~Conflicts(entry.table, flaw)
             c == entry.columns \cup payload
             new == [entry EXCEPT !.columns = c]
  <2>1. /\ incomplete' = incomplete
        /\ gridRows' = IF made THEN (gridRows \ {entry}) \cup {new} ELSE gridRows
    BY <1>1, <1>4 DEF UpdateRow, GridRow
  <2>2. entry \in GridRow /\ entry.table \in Resources /\ entry.columns \subseteq Columns
    BY <1>1 DEF GridRow
  <2>3. made => payload \cap Registry[entry.table].server = {} /\ payload \subseteq Columns
    BY <2>2, AcceptedColumns
  <2> HIDE DEF made
  <2>4. CASE made
    <3>1. c \subseteq Columns /\ c \cap Registry[entry.table].server = {}
      BY <1>1, <2>2, <2>3, <2>4
    <3> HIDE DEF c
    <3>2. new \in GridRow /\ new.by = entry.by /\ new.table = entry.table /\ new.ref = entry.ref /\ new.columns = c
      BY <2>2, <3>1 DEF GridRow
    <3> HIDE DEF new
    <3>3. \A other \in gridRows : \E other2 \in gridRows' : other2.by = other.by /\ other2.table = other.table
      BY <2>1, <2>4, <3>2
    <3> QED BY <1>1, <2>1, <2>4, <3>1, <3>2, <3>3 DEF GridInv
  <2>5. CASE ~made
    BY <1>1, <2>1, <2>5 DEF GridInv
  <2> QED BY <2>4, <2>5
<1>5. ASSUME NEW o \in Orders, NEW entry \in gridRows, DeleteRow(o, entry)
      PROVE  GridInv'
  <2>1. /\ incomplete' = incomplete
        /\ \/ gridRows' = gridRows
           \/ gridRows' = {other \in gridRows : other # entry /\ ~(other.table = "messages" /\ other.ref = entry.by)}
    BY <1>5 DEF DeleteRow
  <2>2. CASE gridRows' = {other \in gridRows : other # entry /\ ~(other.table = "messages" /\ other.ref = entry.by)}
    <3>1. ASSUME NEW other \in gridRows', other.table = "messages"
          PROVE  \E holder \in gridRows' : holder.by = other.ref /\ holder.table = "chats"
      <4>1. other \in gridRows /\ other.ref # entry.by
        BY <2>2, <3>1
      <4>2. PICK holder \in gridRows : holder.by = other.ref /\ holder.table = "chats"
        BY <1>1, <3>1, <4>1
      <4> QED BY <2>2, <4>1, <4>2
    <3> QED BY <1>1, <2>1, <2>2, <3>1 DEF GridInv
  <2> QED BY <1>2, <2>1, <2>2
<1>6. ASSUME NEW o \in Orders, LogOrder(o) \/ StopOrder(o) PROVE GridInv'
  BY <1>2, <1>6 DEF LogOrder, StopOrder
<1>7. ASSUME NEW o \in Orders, NEW res, NEW field, NEW op, ListRows(o, res, field, op) PROVE GridInv'
  BY <1>2, <1>7 DEF ListRows
<1>8. CASE PeopleNext
  <2>1. ASSUME NEW o \in Orders,
               \/ WriteFlags(o) \/ ReadRecipients(o) \/ InsertChunk(o) \/ CommitBroadcast(o)
               \/ \E m \in Members, active \in BOOLEAN : ToggleActive(o, m, active)
        PROVE  GridInv'
    BY <1>2, <2>1 DEF WriteFlags, ReadRecipients, InsertChunk, CommitBroadcast, ToggleActive
  <2>2. ASSUME NEW m \in Members, VerifyMember(m) \/ ProvisionMember(m) \/ CompleteOnboarding(m) PROVE GridInv'
    BY <1>2, <2>2 DEF VerifyMember, ProvisionMember, CompleteOnboarding
  <2> QED BY <1>6, <1>8, <2>1, <2>2 DEF PeopleNext, EndsNext
<1>9. CASE GridNext
  <2>1. ASSUME NEW o \in Orders, NEW res \in Resources,
               NEW ref \in IF res = "messages" THEN {entry.by : entry \in gridRows} \cup {{}} ELSE {{}}
        PROVE  ref \in SUBSET Orders
    BY <1>1 DEF GridRow
  <2>2. ASSUME NEW o \in Orders, NEW res \in Resources,
               \E payload \in Payloads(res), flaw \in Flaws,
                  ref \in IF res = "messages" THEN {entry.by : entry \in gridRows} \cup {{}} ELSE {{}} :
                  CreateRow(o, res, payload, flaw, ref)
        PROVE  GridInv'
    BY <1>3, <2>1, <2>2
  <2> QED BY <1>4, <1>5, <1>6, <1>7, <1>9, <2>2 DEF GridNext, EndsNext
<1>10. CASE UNCHANGED administrationVars
  BY <1>2, <1>10 DEF administrationVars
<1> QED BY <1>8, <1>9, <1>10

(***************************************************************************)
(* What the property says of such a state.                                 *)
(***************************************************************************)
LEMMA FlagsAreWhole ==
    ASSUME MembersInv, NEW m \in Members
    PROVE  member[m].accountActive = member[m].walletActive /\ m \in StatusWhere(DeriveStatus(member[m]))
<1>1. member[m] \in MemberRow /\ member[m].accountActive = member[m].walletActive
  BY DEF MembersInv
<1> DEFINE status == DeriveStatus(member[m])
<1>2. CASE status = "suspended"
  BY <1>1, <1>2 DEF DeriveStatus, StatusWhere, MemberRow
<1>3. CASE status = "pending"
  BY <1>1, <1>3 DEF DeriveStatus, StatusWhere, MemberRow
<1>4. CASE status = "active"
  BY <1>1, <1>4 DEF DeriveStatus, StatusWhere, MemberRow
<1>5. status \in {"suspended", "pending", "active"}
  BY DEF DeriveStatus
<1> QED BY <1>1, <1>2, <1>3, <1>4, <1>5

LEMMA BroadcastsAreWhole ==
    ASSUME BroadcastInv, NEW o \in Orders
    PROVE  LET n == Cardinality({m \in Members : <<o, m>> \in copies})
           IN IF n = 0 THEN \A k \in 0 .. Cardinality(Members) : <<o, k>> \notin broadcasts ELSE <<o, n>> \in broadcasts
<1> DEFINE S == {m \in Members : <<o, m>> \in copies}
<1>1. S = CopiesOf(o) /\ IsFiniteSet(S)
  <2>1. S \subseteq Members /\ IsFiniteSet(Members)
    BY ChunkAssumption
  <2> QED BY <2>1, FS_Subset DEF CopiesOf
<1>2. Cardinality(S) \in Nat /\ (Cardinality(S) = 0 <=> S = {})
  BY <1>1, FS_EmptySet, FS_CardinalityType
<1>3. Cardinality(Members) \in Nat
  BY ChunkAssumption, FS_CardinalityType
<1> HIDE DEF S
<1>4. CASE Uncommitted(o)
  BY <1>1, <1>2, <1>3, <1>4 DEF Uncommitted, S
<1>5. CASE Committed(o)
  BY <1>1, <1>2, <1>5 DEF Committed, S
<1> QED BY <1>4, <1>5 DEF BroadcastInv

\* AdminConsoleUsersService, BroadcastsService and CrudService: whatever overlaps or stops, the flags
\* of a user agree, a broadcast is never half-delivered, and a row of the grid has what the schema
\* demands and nothing that the server manages.
THEOREM AdministrationStaysWhole == AdministrationSpec => []AdministrationIsWhole
<1>1. AdministrationInv /\ [PeopleNext \/ GridNext]_administrationVars => AdministrationInv'
  BY FlagsStay, BroadcastsStay, GridStays DEF AdministrationInv
<1>2. AdministrationInv => AdministrationIsWhole
  BY FlagsAreWhole, BroadcastsAreWhole DEF AdministrationInv, GridInv, AdministrationIsWhole
<1> QED BY <1>1, <1>2, AdministrationStarts, PTL DEF AdministrationSpec
===============================================================================
